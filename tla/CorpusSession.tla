---------------------------- MODULE CorpusSession ----------------------------
(***************************************************************************)
(* One session of the corpus harness (Runner.runFile): the client side of  *)
(* one LSP cycle over one file, its budgets, the classification of what    *)
(* the server did, and the teardown of the server process.                 *)
(*                                                                         *)
(* The server is a process that answers, refuses, panics, hangs, breaks    *)
(* its connection or exits whenever it likes. What it writes to stderr     *)
(* reaches the harness later, at the latest when cmd.Wait returns, and the *)
(* harness keeps the beginning of it only. The budgets of the harness end  *)
(* by the clock, whatever the server does.                                 *)
(***************************************************************************)
EXTENDS Naturals, Sequences

CONSTANTS Calls,     \* the kinds of the cycle's calls, in order
          StderrCap, \* stderrCap, in pieces of stderr
          MaxNoise   \* bound: pieces a server writes to stderr

CallKinds == {"setup", "notify", "diagnostics", "request", "shutdown", "exit"}

\* The exit notification ends the cycle (drive, runner.go:357).
ASSUME CallsAssumption ==
    /\ Calls \in Seq(CallKinds)
    /\ \A i \in 1 .. Len(Calls) : Calls[i] = "exit" => i = Len(Calls)
ASSUME NoiseAssumption == StderrCap \in Nat /\ MaxNoise \in Nat

VARIABLES process,  \* "up", "hung", "gone" (not waited for yet) or "waited"
          code,     \* its exit code once it is gone
          broken,   \* the server's end of the connection is closed
          written,  \* the pieces the server wrote to stderr, by what they say
          fault,    \* history: the server misbehaved
          conn,     \* the connection is open as the harness sees it
          drained,  \* how many of the pieces written have left the pipe
          captured, \* those the harness's buffer keeps
          asked,    \* the exit notification was delivered
          pending,  \* the call under way: "none", "sent", or its answer
          expired,  \* sessionTimeout is over: ctx.Err() != nil
          overdue,  \* exitGrace is over
          next,     \* index of the call to make
          pc,       \* "drive", "leave", "fail", "close" or "closed"
          status, classified

server == <<process, code, broken, written, fault>>
pipes == <<conn, drained, captured, asked>>
clock == <<expired, overdue>>
verdict == <<status, classified>>
vars == <<server, pipes, pending, clock, next, pc, verdict>>

\* A piece holds the word "panic", of the runtime or of a recovered handler, or
\* it does not. One that is cut at the cap counts as kept if its word is.
Says == {"log", "panic"}

Killed == 3

Init ==
    /\ process = "up" /\ code = 0 /\ broken = FALSE /\ written = <<>> /\ fault = FALSE
    /\ conn = TRUE /\ drained = 0 /\ captured = <<>> /\ asked = FALSE
    /\ pending = "none" /\ expired = FALSE /\ overdue = FALSE /\ next = 1
    /\ pc = "drive" /\ status = "none" /\ classified = FALSE

Kind == IF next <= Len(Calls) THEN Calls[next] ELSE "none"
Exited == process = "waited"
HasPanic == \E i \in DOMAIN captured : captured[i] = "panic"

------------------------------------------------------------------------------
(* The server process *)

Misbehave == fault' = TRUE
Write(piece) == Len(written) < MaxNoise /\ written' = Append(written, piece)

\* A call is answered: with a result, an error, or the panic of its handler.
Answer ==
    /\ process = "up" /\ ~ broken /\ pending = "sent"
    /\ \/ pending' = "result" /\ UNCHANGED fault
       \/ pending' \in {"error", "panicked"} /\ Misbehave
    /\ UNCHANGED <<process, code, broken, written, pipes, clock, next, pc, verdict>>

\* It logs.
Log ==
    /\ process = "up" /\ Write("log")
    /\ UNCHANGED <<process, code, broken, fault, pipes, pending, clock, next, pc, verdict>>

\* It exits when asked to, or when its input ends.
ExitAsked ==
    /\ process = "up"
    /\ asked \/ pc = "close"
    /\ process' = "gone" /\ broken' = TRUE
    /\ UNCHANGED <<code, written, fault, pipes, pending, clock, next, pc, verdict>>

\* It dies: with a panic of the runtime, which is written first, or silently.
Die ==
    /\ process \in {"up", "hung"} /\ Misbehave
    /\ process' = "gone" /\ broken' = TRUE
    /\ \/ Write("panic") /\ code' = 2
       \/ code' \in {0, 1} /\ UNCHANGED written
    /\ UNCHANGED <<pipes, pending, clock, next, pc, verdict>>

\* It recovers the panic of a notification, hangs, or closes its output.
Falter ==
    /\ process = "up" /\ Misbehave
    /\ \/ Write("panic") /\ UNCHANGED <<process, broken>>
       \/ process' = "hung" /\ UNCHANGED <<written, broken>>
       \/ broken' = TRUE /\ UNCHANGED <<process, written>>
    /\ UNCHANGED <<code, pipes, pending, clock, next, pc, verdict>>

------------------------------------------------------------------------------
(* The pipes and the clock *)

FailCall == pending' = IF pending = "sent" THEN "error" ELSE pending

\* The reader of the connection sees its end and fails the call under way.
NoticeBreak ==
    /\ broken /\ conn
    /\ conn' = FALSE
    /\ FailCall
    /\ UNCHANGED <<server, drained, captured, asked, clock, next, pc, verdict>>

\* cappedBuffer.Write takes what comes and keeps it until it is full.
Capture ==
    /\ drained < Len(written)
    /\ drained' = drained + 1
    /\ captured' = IF Len(captured) < StderrCap
                   THEN Append(captured, written[drained + 1]) ELSE captured
    /\ UNCHANGED <<server, conn, asked, pending, clock, next, pc, verdict>>

\* Mutant: the exit is seen before stderr is drained.
WaitUndrained ==
    /\ process = "gone" /\ process' = "waited"
    /\ UNCHANGED <<code, broken, written, fault, pipes, pending, clock, next, pc, verdict>>

\* cmd.Wait returns once stderr is drained.
Wait ==
    /\ process = "gone" /\ drained = Len(written)
    /\ process' = "waited"
    /\ UNCHANGED <<code, broken, written, fault, pipes, pending, clock, next, pc, verdict>>

\* The session's budget is over; nothing asks for it once the cycle is made.
Expire ==
    /\ pc \in {"drive", "fail"} /\ ~ expired
    /\ expired' = TRUE
    /\ FailCall
    /\ UNCHANGED <<server, pipes, overdue, next, pc, verdict>>

\* The grace for an exit by itself is over.
GraceOver ==
    /\ pc = "leave" /\ ~ overdue
    /\ overdue' = TRUE
    /\ UNCHANGED <<server, pipes, pending, expired, next, pc, verdict>>

------------------------------------------------------------------------------
(* drive *)

\* A call is sent; a closed connection or an expired context fails it at once.
Call ==
    /\ pc = "drive" /\ pending = "none"
    /\ Kind \in {"setup", "request", "shutdown"}
    /\ pending' = IF conn /\ ~ expired THEN "sent" ELSE "error"
    /\ UNCHANGED <<server, pipes, clock, next, pc, verdict>>

Succeed ==
    /\ pc = "drive" /\ pending = "result"
    /\ pending' = "none" /\ next' = next + 1
    /\ UNCHANGED <<server, pipes, clock, pc, verdict>>

\* A notification is written, or cannot be.
Notify ==
    /\ pc = "drive" /\ Kind = "notify"
    /\ \/ conn /\ ~ expired /\ next' = next + 1 /\ UNCHANGED pc
       \/ (broken \/ expired) /\ pc' = "fail" /\ UNCHANGED next
    /\ UNCHANGED <<server, pipes, pending, clock, verdict>>

\* awaitDiagnostics ends with a batch, the connection, the budget or diagWait.
AwaitDiagnostics ==
    /\ pc = "drive" /\ Kind = "diagnostics"
    /\ next' = next + 1
    /\ UNCHANGED <<server, pipes, pending, clock, pc, verdict>>

Classify(result) ==
    /\ status' = result
    /\ classified' = TRUE
    /\ pc' = "close"

\* request: the error of a panicked handler is a verdict, that of a live session
\* is counted and the cycle goes on.
RequestError ==
    /\ pc = "drive" /\ Kind = "request"
    /\ \/ pending = "panicked" /\ Classify("panic") /\ UNCHANGED <<pending, next>>
       \/ /\ pending = "error"
          /\ IF expired \/ HasPanic \/ Exited \/ ~ conn
             THEN pc' = "fail" /\ UNCHANGED <<pending, next>>
             ELSE pending' = "none" /\ next' = next + 1 /\ UNCHANGED pc
          /\ UNCHANGED verdict
    /\ UNCHANGED <<server, pipes, clock>>

\* The error of initialize or shutdown fails the session.
CallError ==
    /\ pc = "drive" /\ Kind \in {"setup", "shutdown"}
    /\ pending \in {"error", "panicked"}
    /\ pc' = "fail"
    /\ UNCHANGED <<server, pipes, pending, clock, next, verdict>>

\* The exit notification, whose error carries no signal: it is delivered or not.
SendExit ==
    /\ pc = "drive" /\ Kind = "exit"
    /\ next' = next + 1 /\ pc' = "leave"
    /\ asked' = (conn /\ ~ expired)
    /\ UNCHANGED <<server, conn, drained, captured, pending, clock, verdict>>

\* Mutant: the verdict does not wait for the exit.
VerdictAtOnce ==
    /\ pc = "leave" /\ pc' = "close"
    /\ status' = IF ~ Exited THEN "timeout"
                 ELSE IF HasPanic THEN "panic" ELSE IF code # 0 THEN "exit" ELSE "ok"
    /\ UNCHANGED <<server, pipes, pending, clock, next, classified>>

\* awaitExit(exitGrace), then the verdict of a whole cycle. When both channels of
\* the select are ready, either may be taken.
Verdict ==
    /\ pc = "leave"
    /\ \/ overdue /\ status' = "timeout"
       \/ Exited /\ status' = IF HasPanic THEN "panic"
                              ELSE IF code # 0 THEN "exit" ELSE "ok"
    /\ pc' = "close"
    /\ UNCHANGED <<server, pipes, pending, clock, next, classified>>

------------------------------------------------------------------------------
(* fail and close *)

\* With a dead connection the process has a second to be waited for, which it
\* may not meet.
Fail ==
    /\ pc = "fail"
    /\ Classify(IF HasPanic \/ pending = "panicked" THEN "panic"
                ELSE IF expired THEN "timeout"
                ELSE IF Exited /\ code # 0 THEN "exit" ELSE "transport")
    /\ UNCHANGED <<server, pipes, pending, clock, next>>

\* Mutant: only a classified session kills.
KillClassified ==
    /\ pc = "close" /\ process \in {"up", "hung"} /\ classified
    /\ process' = "gone" /\ code' = Killed /\ broken' = TRUE
    /\ UNCHANGED <<written, fault, pipes, pending, clock, next, pc, verdict>>

\* A process still running is killed: after a grace, or at once when classified.
Kill ==
    /\ pc = "close" /\ process \in {"up", "hung"}
    /\ process' = "gone" /\ code' = Killed /\ broken' = TRUE
    /\ UNCHANGED <<written, fault, pipes, pending, clock, next, pc, verdict>>

Close ==
    /\ pc = "close" /\ Exited
    /\ pc' = "closed" /\ conn' = FALSE
    /\ UNCHANGED <<server, drained, captured, asked, pending, clock, next, verdict>>

------------------------------------------------------------------------------

Drive == \/ Call \/ Succeed \/ Notify \/ AwaitDiagnostics \/ RequestError
         \/ CallError \/ SendExit \/ Verdict
TearDown == Fail \/ Kill \/ Close
Pipes == NoticeBreak \/ Capture \/ Wait

Clock == Expire \/ GraceOver

Next == Answer \/ Log \/ ExitAsked \/ Die \/ Falter \/ Pipes \/ Clock \/ Drive \/ TearDown

Spec == Init /\ [][Next]_vars

\* The harness and the pipes go on, the budgets run out, and a server that has
\* not hung answers and exits.
FairSpec ==
    /\ Spec
    /\ WF_vars(Drive) /\ WF_vars(TearDown) /\ WF_vars(Pipes)
    /\ WF_vars(Clock) /\ WF_vars(Answer) /\ WF_vars(ExitAsked)

------------------------------------------------------------------------------
(* Properties *)

Statuses == {"ok", "panic", "exit", "timeout", "transport"}

Flags == /\ broken \in BOOLEAN /\ fault \in BOOLEAN /\ conn \in BOOLEAN
         /\ asked \in BOOLEAN /\ expired \in BOOLEAN /\ overdue \in BOOLEAN
         /\ classified \in BOOLEAN

Values ==
    /\ process \in {"up", "hung", "gone", "waited"}
    /\ code \in 0 .. Killed
    /\ written \in Seq(Says) /\ Len(written) <= MaxNoise
    /\ drained \in 0 .. Len(written)
    /\ captured \in Seq(Says)
    /\ pending \in {"none", "sent", "result", "error", "panicked"}
    /\ next \in 1 .. Len(Calls) + 1
    /\ pc \in {"drive", "leave", "fail", "close", "closed"}
    /\ status \in Statuses \cup {"none"}

TypeOK == Flags /\ Values

\* "ok" is the verdict on a server that made the whole cycle, exited by itself
\* with 0, and wrote no panic before the cap of the buffer, also none that was
\* still on its way through the pipe (drive, runner.go:357-373). What it wrote
\* after stderrCap bytes the harness never sees (runner.go:33-35, 600-627).
OkMeansClean ==
    status = "ok" =>
      /\ next > Len(Calls) /\ code = 0
      /\ \A i \in DOMAIN written : written[i] = "panic" => i > StderrCap

\* A server that does not misbehave is "ok", unless a budget of the harness was
\* over before it had answered or exited: then it is "timeout", and never
\* "panic", "exit" or "transport", however its answers and its exit race with
\* the clock (drive, request and fail, runner.go:249-441).
HealthyIsOk ==
    pc = "closed" /\ ~ fault =>
      \/ status = "ok"
      \/ status = "timeout" /\ (expired \/ overdue)

\* Every session ends, and no process outlives it, whatever the server does
\* (close, runner.go:510-527).
SessionEnds == <>[](pc = "closed" /\ process = "waited")
==============================================================================
