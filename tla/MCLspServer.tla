----------------------------- MODULE MCLspServer -----------------------------
(***************************************************************************)
(* Instances of LspServer for TLC: a map script and the library it         *)
(* includes.                                                               *)
(***************************************************************************)
EXTENDS LspServer

CONSTANTS main, lib

MCDocs == {main, lib}
MCIncludes == [d \in MCDocs |-> IF d = main THEN {lib} ELSE {}]
==============================================================================
