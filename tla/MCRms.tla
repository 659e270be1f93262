-------------------------------- MODULE MCRms --------------------------------
(***************************************************************************)
(* The three parts of the RMS parser for TLC.  They share no state here:   *)
(* the walk reads blanked lines, the comment scan reads raw ones, and the  *)
(* values are those of one line.  A behaviour runs one of them, and leaves *)
(* the others as they begin.                                               *)
(***************************************************************************)
EXTENDS RmsOutline, RmsComments

CONSTANT MaxTokens

VARIABLE toks    \* RmsExpr

Values == INSTANCE RmsExpr

(* Vocabularies of the walk *)

\* Scope words only, in files long enough for a group inside a group.
Nesting == [words |-> structuralWords, length |-> 6]

\* Commands, blocks with and without braces, sections and conditions.
Blocks == [words |-> {"<name>", "#const", "create_x", "create_x {", "plain",
                      "{", "}", "if", "endif"}, length |-> 5]

\* Inline XS regions and what ends them.
Regions == [words |-> {"#includeXS", "#includeXS f", "#include", "#const", "<name>",
                       "blank", "plain"}, length |-> 5]

\* Sections, scopes, blocks and regions across one another.
Crossing == [words |-> {"<name>", "if", "else", "endif", "create_x {", "plain", "}",
                        "#includeXS"}, length |-> 5]

\* Everything with everything, in short files.
Mixed == [words |-> Words, length |-> 3]

MCScripts == {Nesting, Blocks, Regions, Crossing, Mixed}

(* Families of raw files: three short lines, and two longer ones with strings *)

Plain == {"/*", "*/", "//", "#includeXS", "#const", "#word"}

MCFiles ==
    {[lexemes |-> Plain \cup {"<name>"}, width |-> 2, length |-> 3],
     [lexemes |-> Plain \cup {"quote"}, width |-> 3, length |-> 2]}

MCInit == Init /\ CommentsInit /\ Values!Init

AnyScript == script = (CHOOSE s \in Scripts : TRUE)
AnyFile   == file = (CHOOSE f \in Files : TRUE)

WalkStep ==
    /\ AnyFile /\ rawLines = <<>> /\ toks = <<>>
    /\ Next
    /\ UNCHANGED <<commentVars, toks>>

CommentsStep ==
    /\ AnyScript /\ lines = <<>> /\ ~done /\ toks = <<>>
    /\ CommentsNext
    /\ UNCHANGED <<vars, toks>>

ValuesStep ==
    /\ AnyScript /\ AnyFile /\ lines = <<>> /\ ~done /\ rawLines = <<>>
    /\ Values!Next
    /\ UNCHANGED <<vars, commentVars>>

MCNext == WalkStep \/ CommentsStep \/ ValuesStep
MCSpec == MCInit /\ [][MCNext]_<<vars, commentVars, toks>>

(* The property of the instance, stated in RmsExpr. *)

\* No value token is lost to the tree and the reports, and the values of a line
\* without reports have the shape of their text.
ValuesExact == Values!ValuesExact
=============================================================================
