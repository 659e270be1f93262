------------------------------- MODULE DiagView -------------------------------
(***************************************************************************)
(* What the diagnostics an editor shows promise, whatever computes them:   *)
(* per document they are a lagging copy of the document's history, which   *)
(* never goes back, never runs ahead and catches up when the user rests.   *)
(*                                                                         *)
(* A document's state is the number of the event (open, change, close)     *)
(* that made it so; the diagnostics shown stand for one such number.       *)
(***************************************************************************)
EXTENDS Naturals

CONSTANT Docs

VARIABLES now,    \* [Docs -> Nat]: the document's last event
          stands  \* [Docs -> Nat]: the event the shown diagnostics stand for

vars == <<now, stands>>

Init == /\ now = [d \in Docs |-> 0]
        /\ stands = [d \in Docs |-> 0]

\* The user opens, edits or closes the document.
Edit(d) == /\ now' \in [Docs -> Nat]
           /\ now'[d] > now[d]
           /\ \A e \in Docs \ {d} : now'[e] = now[e]
           /\ UNCHANGED stands

\* Newer diagnostics replace the ones shown.
Show(d) == /\ stands' \in [Docs -> Nat]
           /\ stands'[d] > stands[d]
           /\ stands'[d] <= now[d]
           /\ \A e \in Docs \ {d} : stands'[e] = stands[e]
           /\ UNCHANGED now

Next == \E d \in Docs : Edit(d) \/ Show(d)

Spec == Init /\ [][Next]_vars

\* Once the user rests, what is shown stands for the last event.
CatchesUp == <>[](stands = now)
==============================================================================
