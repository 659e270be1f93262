--------------------------- MODULE DiskCacheProofs ---------------------------
(***************************************************************************)
(* The cache of disk files, for every set of paths and loaders and every   *)
(* number of writes.                                                       *)
(*                                                                         *)
(* NoFalseHit is not inductive: a store must know that the content it      *)
(* carries is no older than the fingerprint it carries.  Under             *)
(* Distinguishing a stamp is the revision it was given at, so the          *)
(* strengthening orders stamp, content and file:                           *)
(* stamp <= rev <= disk.rev for the entries and for the loads in flight.   *)
(***************************************************************************)
EXTENDS DiskCache, TLAPS

\* Every reachable state has its type: the base of the two invariants below.
THEOREM TypeCorrect == Spec => []TypeOK
<1>1. Init => TypeOK
  <2>1. 0 \in Revs
    BY BoundAssumption DEF Revs
  <2>2. NoJob \in Jobs
    <3>1. (CHOOSE p \in Paths : TRUE) \in Paths
      BY PathsAssumption
    <3> QED BY <2>1, <3>1 DEF NoJob, Jobs
  <2> QED BY <2>1, <2>2 DEF Init, TypeOK, Answers, None
<1>2. TypeOK /\ [Next]_vars => TypeOK'
  <2> SUFFICES ASSUME TypeOK, [Next]_vars PROVE TypeOK'
    OBVIOUS
  <2> USE BoundAssumption, PathsAssumption DEF TypeOK, Revs, Jobs, Answers
  <2>1. ASSUME NEW l \in Loaders, NEW p \in Paths, Stat(l, p) PROVE TypeOK'
    BY <2>1 DEF Stat
  <2>2. ASSUME NEW l \in Loaders, Lookup(l) PROVE TypeOK'
    <3>1. job[l].since \in Revs /\ cache[job[l].path].rev \in Revs
      OBVIOUS
    <3>2. answer' \in [Loaders -> Answers]
      <4>1. CASE answer' = [answer EXCEPT ![l] = [since |-> job[l].since,
                                                  rev |-> cache[job[l].path].rev]]
        BY <3>1, <4>1
      <4>2. CASE answer' = answer
        BY <4>2
      <4> QED BY <2>2, <4>1, <4>2 DEF Lookup, Return
    <3>3. pc' \in [Loaders -> {"idle", "lookup", "read", "store"}]
      BY <2>2 DEF Lookup, Return
    <3> QED BY <2>2, <3>2, <3>3 DEF Lookup
  <2>3. ASSUME NEW l \in Loaders, Read(l) PROVE TypeOK'
    <3>1. disk[job[l].path].rev \in Revs
      OBVIOUS
    <3>2. job' \in [Loaders -> Jobs]
      <4>1. [job[l] EXCEPT !.rev = disk[job[l].path].rev] \in Jobs
        BY <3>1
      <4> QED BY <2>3, <4>1 DEF Read
    <3>3. pc' \in [Loaders -> {"idle", "lookup", "read", "store"}]
      BY <2>3 DEF Read
    <3> QED BY <2>3, <3>2, <3>3 DEF Read
  <2>4. ASSUME NEW l \in Loaders, Store(l) PROVE TypeOK'
    BY <2>4 DEF Store, Return, Entry
  <2>5. ASSUME NEW ps \in SUBSET pending, Drop(ps) PROVE TypeOK'
    BY <2>5 DEF Drop, None
  <2>6. ASSUME NEW p \in Paths, Write(p) PROVE TypeOK'
    <3>1. PICK exists \in BOOLEAN, stamp \in 0 .. disk[p].rev + 1 :
             disk' = [disk EXCEPT ![p] = [exists |-> exists,
                                          rev |-> disk[p].rev + 1,
                                          stamp |-> stamp]]
      BY <2>6 DEF Write
    <3>2. disk[p].rev + 1 \in Revs /\ stamp \in Revs
      BY <2>6 DEF Write
    <3>3. disk' \in [Paths -> [exists : BOOLEAN, rev : Revs, stamp : Revs]]
      BY <3>1, <3>2
    <3> QED BY <2>6, <3>3 DEF Write
  <2>7. CASE UNCHANGED vars
    BY <2>7 DEF vars
  <2> QED BY <2>1, <2>2, <2>3, <2>4, <2>5, <2>6, <2>7 DEF Next
<1> QED BY <1>1, <1>2, PTL DEF Spec

------------------------------------------------------------------------------
(* Fingerprints that every write changes. *)

LEMMA WorldStays == [Next]_vars => Distinguishing' = Distinguishing /\ Serial' = Serial
BY DEF Next, vars, Stat, Lookup, Read, Store, Drop, Write, Distinguishing, Serial

\* A job past its stat, and a job that has read.
Busy(l) == pc[l] \in {"lookup", "read", "store"}

StampParts ==
    /\ \A p \in Paths : disk[p].stamp = disk[p].rev
    /\ \A p \in Paths :
         cache[p].set => /\ cache[p].stamp <= cache[p].rev
                         /\ cache[p].rev <= disk[p].rev
    /\ \A l \in Loaders :
         Busy(l) => /\ job[l].stamp = job[l].since
                    /\ job[l].since <= disk[job[l].path].rev
    /\ \A l \in Loaders :
         pc[l] = "store" => /\ job[l].stamp <= job[l].rev
                            /\ job[l].rev <= disk[job[l].path].rev
    /\ \A l \in Loaders : answer[l].rev >= answer[l].since
StampInv == Distinguishing => StampParts

LEMMA StampInvHolds == Spec => []StampInv
<1>1. Init => StampInv
  BY PathsAssumption DEF Init, StampInv, StampParts, Busy, None
<1>2. TypeOK /\ StampInv /\ [Next]_vars => StampInv'
  <2> SUFFICES ASSUME TypeOK, Distinguishing, StampParts, [Next]_vars PROVE StampParts'
    BY WorldStays DEF StampInv
  <2> USE BoundAssumption, PathsAssumption
      DEF TypeOK, Revs, Jobs, Answers, StampParts, Busy
  <2>1. ASSUME NEW l \in Loaders, NEW p \in Paths, Stat(l, p) PROVE StampParts'
    BY <2>1 DEF Stat
  <2>2. ASSUME NEW l \in Loaders, Lookup(l) PROVE StampParts'
    <3>1. CASE Hit(l)
      <4>1. /\ answer' = [answer EXCEPT ![l] = [since |-> job[l].since,
                              rev |-> cache[job[l].path].rev]]
            /\ pc' = [pc EXCEPT ![l] = "idle"]
            /\ UNCHANGED <<disk, cache, job>>
        BY <2>2, <3>1 DEF Lookup, Return
      <4>2. cache[job[l].path].rev >= job[l].since
        BY <2>2, <3>1 DEF Lookup, Hit
      <4>3. answer'[l].rev >= answer'[l].since
        BY <4>1, <4>2
      <4> QED BY <4>1, <4>3
    <3>2. CASE ~Hit(l)
      BY <2>2, <3>2 DEF Lookup
    <3> QED BY <3>1, <3>2
  <2>3. ASSUME NEW l \in Loaders, Read(l) PROVE StampParts'
    <3>1. CASE disk[job[l].path].exists
      <4>1. /\ job' = [job EXCEPT ![l].rev = disk[job[l].path].rev]
            /\ pc' = [pc EXCEPT ![l] = "store"]
            /\ UNCHANGED <<disk, cache, answer>>
        BY <2>3, <3>1 DEF Read
      <4>2. job'[l] = [job[l] EXCEPT !.rev = disk[job[l].path].rev]
        BY <4>1
      <4>3. \A k \in Loaders : k # l => job'[k] = job[k] /\ pc'[k] = pc[k]
        BY <4>1
      <4>4. /\ job'[l].path = job[l].path
            /\ job'[l].stamp = job[l].stamp
            /\ job'[l].since = job[l].since
            /\ job'[l].rev = disk[job[l].path].rev
        BY <4>2
      <4>5. job[l].stamp = job[l].since /\ job[l].since <= disk[job[l].path].rev
        BY <2>3 DEF Read
      <4> QED BY <4>1, <4>3, <4>4, <4>5
    <3>2. CASE ~disk[job[l].path].exists
      BY <2>3, <3>2 DEF Read
    <3> QED BY <3>1, <3>2
  <2>4. ASSUME NEW l \in Loaders, Store(l) PROVE StampParts'
    BY <2>4 DEF Store, Return, Entry
  <2>5. ASSUME NEW ps \in SUBSET pending, Drop(ps) PROVE StampParts'
    BY <2>5 DEF Drop, None
  <2>6. ASSUME NEW p \in Paths, Write(p) PROVE StampParts'
    BY <2>6 DEF Write
  <2>7. CASE UNCHANGED vars
    BY <2>7 DEF vars
  <2> QED BY <2>1, <2>2, <2>3, <2>4, <2>5, <2>6, <2>7 DEF Next
<1> QED BY <1>1, <1>2, TypeCorrect, PTL DEF Spec

\* A hit is never a stale file (loadDisk, resolver.go:249-266): the
\* fingerprint is taken before the content, so a write between the two leaves
\* an entry that no later stat matches.
THEOREM NoFalseHitHolds == Spec => []NoFalseHit
<1>1. TypeOK /\ StampInv => NoFalseHit
  <2> SUFFICES ASSUME TypeOK, StampInv, Distinguishing, NEW p \in Paths,
                      cache[p].set, cache[p].stamp = disk[p].stamp
               PROVE  cache[p].rev = disk[p].rev
    BY DEF NoFalseHit
  <2>1. StampParts
    BY DEF StampInv
  <2>2. cache[p].rev \in Nat /\ cache[p].stamp \in Nat /\ disk[p].rev \in Nat
    BY BoundAssumption DEF TypeOK, Revs
  <2>3. /\ disk[p].stamp = disk[p].rev
        /\ cache[p].stamp <= cache[p].rev
        /\ cache[p].rev <= disk[p].rev
    BY <2>1 DEF StampParts
  <2> QED BY <2>2, <2>3
<1> QED BY <1>1, TypeCorrect, StampInvHolds, PTL

\* A load never answers with a content older than the file was when the load
\* began (loadDisk, resolver.go:239-270), whatever the other handlers, the
\* writers and Drop did meanwhile.
THEOREM LoadNotOlderThanStartHolds == Spec => []LoadNotOlderThanStart
<1>1. StampInv => LoadNotOlderThanStart
  BY DEF StampInv, StampParts, LoadNotOlderThanStart
<1> QED BY <1>1, StampInvHolds, PTL

------------------------------------------------------------------------------
(* One handler at a time, any fingerprints. *)

DropParts ==
    /\ \A k, l \in Loaders : Busy(k) /\ Busy(l) => k = l
    /\ \A p \in Watched \ pending : cache[p].set => cache[p].rev = disk[p].rev
    /\ \A l \in Loaders :
         /\ pc[l] = "store"
         /\ job[l].path \in Watched \ pending
         => job[l].rev = disk[job[l].path].rev
DropInv == Serial => DropParts

LEMMA DropInvHolds == Spec => []DropInv
<1>1. Init => DropInv
  BY PathsAssumption DEF Init, DropInv, DropParts, Busy, None
<1>2. TypeOK /\ DropInv /\ [Next]_vars => DropInv'
  <2> SUFFICES ASSUME TypeOK, Serial, DropParts, [Next]_vars PROVE DropParts'
    BY WorldStays DEF DropInv
  <2> USE BoundAssumption, PathsAssumption DEF TypeOK, Revs, Jobs, DropParts, Busy
  <2>1. ASSUME NEW l \in Loaders, NEW p \in Paths, Stat(l, p) PROVE DropParts'
    BY <2>1 DEF Stat, Quiet
  <2>2. ASSUME NEW l \in Loaders, Lookup(l) PROVE DropParts'
    BY <2>2 DEF Lookup, Return, Hit
  <2>3. ASSUME NEW l \in Loaders, Read(l) PROVE DropParts'
    <3>1. CASE disk[job[l].path].exists
      <4>1. /\ job' = [job EXCEPT ![l].rev = disk[job[l].path].rev]
            /\ pc' = [pc EXCEPT ![l] = "store"]
            /\ UNCHANGED <<disk, cache, pending>>
        BY <2>3, <3>1 DEF Read
      <4>2. job'[l] = [job[l] EXCEPT !.rev = disk[job[l].path].rev]
        BY <4>1
      <4>3. \A k \in Loaders : k # l => job'[k] = job[k] /\ pc'[k] = pc[k]
        BY <4>1
      <4>4. /\ job'[l].path = job[l].path
            /\ job'[l].rev = disk[job[l].path].rev
        BY <4>2
      <4>5. pc[l] = "read"
        BY <2>3 DEF Read
      <4> QED BY <4>1, <4>3, <4>4, <4>5
    <3>2. CASE ~disk[job[l].path].exists
      BY <2>3, <3>2 DEF Read
    <3> QED BY <3>1, <3>2
  <2>4. ASSUME NEW l \in Loaders, Store(l) PROVE DropParts'
    BY <2>4 DEF Store, Return, Entry
  <2>5. ASSUME NEW ps \in SUBSET pending, Drop(ps) PROVE DropParts'
    BY <2>5 DEF Drop, None, Quiet
  <2>6. ASSUME NEW p \in Paths, Write(p) PROVE DropParts'
    BY <2>6 DEF Write
  <2>7. CASE UNCHANGED vars
    BY <2>7 DEF vars
  <2> QED BY <2>1, <2>2, <2>3, <2>4, <2>5, <2>6, <2>7 DEF Next
<1> QED BY <1>1, <1>2, TypeCorrect, PTL DEF Spec

\* On a serial connection a reported write never survives in the cache
\* (Drop, resolver.go:204-214), even when it left size and mtime alone.
THEOREM DropHonouredHolds == Spec => []DropHonoured
<1>1. DropInv => DropHonoured
  BY DEF DropInv, DropParts, DropHonoured
<1> QED BY <1>1, DropInvHolds, PTL
==============================================================================
