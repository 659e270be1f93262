------------------------------ MODULE DiskCache ------------------------------
(***************************************************************************)
(* The disk side of include.Resolver: loadDisk, the cache keyed by the     *)
(* (size, mtime) fingerprint of os.Stat, and Drop, driven by               *)
(* workspace/didChangeWatchedFiles.                                        *)
(*                                                                         *)
(* Files belong to other programs: a write may land between any two steps  *)
(* of a load.  A file's content is abstracted to its revision, the number  *)
(* of writes (and deletions) so far; its fingerprint to a stamp.  A write  *)
(* that changes size or mtime gives the file the stamp of its revision;    *)
(* one that keeps both (a rewrite within the clock's granularity, a copy   *)
(* that restores the time) may repeat any earlier stamp.                   *)
(***************************************************************************)
EXTENDS Naturals

CONSTANTS Paths,          \* canonical paths of disk files
          Watched,        \* the paths a registered watcher reports
          Loaders,        \* the handlers that may be inside loadDisk
          Worlds,         \* what may be assumed of writers and connection
          MaxRev          \* bound: writes per file

ASSUME PathsAssumption == Paths # {} /\ Watched \subseteq Paths
ASSUME WorldsAssumption == Worlds \subseteq [distinguishing : BOOLEAN, serial : BOOLEAN]
ASSUME BoundAssumption == MaxRev \in Nat

VARIABLES disk,    \* [Paths -> [exists, rev, stamp]]
          cache,   \* Resolver.cache: [Paths -> entry or None]
          pc,      \* where each loader is inside loadDisk
          job,     \* the loader's path, the stat it took and what it read
          answer,  \* what its last load returned, and the revision on disk
                   \* when that load began
          pending, \* watched paths written and not yet reported
          world    \* the one of Worlds this behaviour runs in

vars == <<disk, cache, pc, job, answer, pending, world>>

Distinguishing == world.distinguishing \* every write changes the fingerprint
Serial == world.serial  \* the connection runs one handler at a time

None == [rev |-> 0, stamp |-> 0, set |-> FALSE]
Entry(stamp, rev) == [rev |-> rev, stamp |-> stamp, set |-> TRUE]

Revs == 0 .. MaxRev
Jobs == [path : Paths, stamp : Revs, rev : Revs, since : Revs]
NoJob == [path |-> CHOOSE p \in Paths : TRUE, stamp |-> 0, rev |-> 0, since |-> 0]
Answers == [since : Revs, rev : Revs]

TypeOK ==
    /\ disk \in [Paths -> [exists : BOOLEAN, rev : Revs, stamp : Revs]]
    /\ cache \in [Paths -> [rev : Revs, stamp : Revs, set : BOOLEAN]]
    /\ pc \in [Loaders -> {"idle", "lookup", "read", "store"}]
    /\ job \in [Loaders -> Jobs]
    /\ answer \in [Loaders -> Answers]
    /\ pending \subseteq Watched
    /\ world \in Worlds

Init ==
    /\ disk = [p \in Paths |-> [exists |-> TRUE, rev |-> 0, stamp |-> 0]]
    /\ cache = [p \in Paths |-> None]
    /\ pc = [l \in Loaders |-> "idle"]
    /\ job = [l \in Loaders |-> NoJob]
    /\ answer = [l \in Loaders |-> [since |-> 0, rev |-> 0]]
    /\ pending = {}
    /\ world \in Worlds

Quiet == \A l \in Loaders : pc[l] = "idle"

\* st, err := os.Stat(path); a failed stat ends the load with nothing.
Stat(l, p) ==
    /\ pc[l] = "idle"
    /\ Serial => Quiet
    /\ disk[p].exists
    /\ job' = [job EXCEPT ![l] = [path |-> p, stamp |-> disk[p].stamp,
                                  rev |-> 0, since |-> disk[p].rev]]
    /\ pc' = [pc EXCEPT ![l] = "lookup"]
    /\ UNCHANGED <<disk, cache, answer, pending, world>>

\* Mutant: any entry is a hit.
HitAny(l) == cache[job[l].path].set

Hit(l) == /\ cache[job[l].path].set
          /\ cache[job[l].path].stamp = job[l].stamp

Return(l, rev) ==
    /\ answer' = [answer EXCEPT ![l] = [since |-> job[l].since, rev |-> rev]]
    /\ pc' = [pc EXCEPT ![l] = "idle"]

\* The entry is returned when its fingerprint is the one just taken.
Lookup(l) ==
    /\ pc[l] = "lookup"
    /\ \/ /\ Hit(l)
          /\ Return(l, cache[job[l].path].rev)
       \/ /\ ~Hit(l)
          /\ pc' = [pc EXCEPT ![l] = "read"]
          /\ UNCHANGED answer
    /\ UNCHANGED <<disk, cache, job, pending, world>>

\* raw, err := os.ReadFile(path): the content of now, not of the stat.
Read(l) ==
    /\ pc[l] = "read"
    /\ IF disk[job[l].path].exists
       THEN /\ job' = [job EXCEPT ![l].rev = disk[job[l].path].rev]
            /\ pc' = [pc EXCEPT ![l] = "store"]
       ELSE /\ pc' = [pc EXCEPT ![l] = "idle"]
            /\ UNCHANGED job
    /\ UNCHANGED <<disk, cache, answer, pending, world>>

\* Mutant: the fingerprint is taken after the read.
StoreRestat(l) ==
    /\ pc[l] = "store"
    /\ cache' = [cache EXCEPT ![job[l].path] = Entry(disk[job[l].path].stamp, job[l].rev)]
    /\ Return(l, job[l].rev)
    /\ UNCHANGED <<disk, job, pending, world>>

\* The entry keeps the fingerprint taken before the read.
Store(l) ==
    /\ pc[l] = "store"
    /\ cache' = [cache EXCEPT ![job[l].path] = Entry(job[l].stamp, job[l].rev)]
    /\ Return(l, job[l].rev)
    /\ UNCHANGED <<disk, job, pending, world>>

\* Mutant: the report is acknowledged and drops nothing.
DropNothing(ps) ==
    /\ ps # {}
    /\ Serial => Quiet
    /\ pending' = pending \ ps
    /\ UNCHANGED <<disk, cache, pc, job, answer, world>>

\* Resolver.Drop over the batch of paths one notification carries.
Drop(ps) ==
    /\ ps # {}
    /\ Serial => Quiet
    /\ cache' = [p \in Paths |-> IF p \in ps THEN None ELSE cache[p]]
    /\ pending' = pending \ ps
    /\ UNCHANGED <<disk, pc, job, answer, world>>

\* Another program writes, creates or deletes the file.
Write(p) ==
    /\ disk[p].rev < MaxRev
    /\ \E exists \in BOOLEAN, stamp \in 0 .. disk[p].rev + 1 :
         /\ Distinguishing => stamp = disk[p].rev + 1
         /\ disk' = [disk EXCEPT ![p] = [exists |-> exists,
                                         rev |-> disk[p].rev + 1,
                                         stamp |-> stamp]]
    /\ pending' = pending \cup ({p} \cap Watched)
    /\ UNCHANGED <<cache, pc, job, answer, world>>

Next ==
    \/ \E l \in Loaders, p \in Paths : Stat(l, p)
    \/ \E l \in Loaders : Lookup(l) \/ Read(l) \/ Store(l)
    \/ \E ps \in SUBSET pending : Drop(ps)
    \/ \E p \in Paths : Write(p)

Spec == Init /\ [][Next]_vars

------------------------------------------------------------------------------
(* Properties *)

\* An entry whose fingerprint matches the file holds the file's present
\* content (loadDisk, resolver.go:249): a hit is never a stale file, although
\* the fingerprint and the content are taken in two steps that a write can
\* separate.  Needs a fingerprint every write changes.
NoFalseHit ==
    Distinguishing =>
        \A p \in Paths :
            /\ cache[p].set
            /\ disk[p].exists
            /\ cache[p].stamp = disk[p].stamp
            => cache[p].rev = disk[p].rev

\* What a load returns is never older than the file was when the load began,
\* whatever the other loaders, the writers and Drop did meanwhile.
LoadNotOlderThanStart ==
    Distinguishing => \A l \in Loaders : answer[l].rev >= answer[l].since

\* Drop makes up for a fingerprint that does not change (resolver.go:204-206):
\* once the write of a watched file has been reported, no entry left in the
\* cache holds an older content, whatever the stamps.  Needs the serial
\* connection: a load that read before the write must not store after Drop.
DropHonoured ==
    Serial => \A p \in Watched \ pending :
                  cache[p].set => cache[p].rev = disk[p].rev
==============================================================================
