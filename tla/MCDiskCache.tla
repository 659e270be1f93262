----------------------------- MODULE MCDiskCache -----------------------------
(***************************************************************************)
(* Instances of DiskCache for TLC.  The loaders are interchangeable.  Two  *)
(* worlds: handlers that overlap with fingerprints that always tell, and   *)
(* handlers one at a time with fingerprints that may repeat.               *)
(***************************************************************************)
EXTENDS DiskCache, TLC

Symmetry == Permutations(Loaders)
MCWorlds == {[distinguishing |-> TRUE, serial |-> FALSE],
             [distinguishing |-> FALSE, serial |-> TRUE]}
==============================================================================
