--------------------------- MODULE MCCorpusSession ---------------------------
(***************************************************************************)
(* The cycle of drive for TLC, with two of its requests.                   *)
(***************************************************************************)
EXTENDS CorpusSession

MCCalls == <<"setup", "notify", "notify", "diagnostics", "request", "request",
             "shutdown", "exit">>
==============================================================================
