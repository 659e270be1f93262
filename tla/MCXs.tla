-------------------------------- MODULE MCXs --------------------------------
(***************************************************************************)
(* XS scripts for TLC: sources for the scanner, byte by byte, files for    *)
(* the parser and the lookups, token by token, and documents that include  *)
(* one another for navigation, piece by piece, and texts for the columns   *)
(* of the protocol.  They share no state: a behaviour runs one of them and *)
(* leaves the others as they begin.                                        *)
(***************************************************************************)
EXTENDS XsFile, Positions

CONSTANTS Sources, Header, Pieces, MaxPieces

VARIABLES input, source,    \* XsScanner
          pieces, texts, w  \* Workspace

Scanner == INSTANCE XsScanner WITH bytes <- input
Across  == INSTANCE Workspace WITH count <- pieces, text <- texts

(* Families of files: what stands before, the words typed, how many, and    *)
(* whether only texts that can still become clean are followed.             *)

Family(beginning, words, length) ==
    [before |-> beginning, words |-> words, length |-> length, broken |-> FALSE]

Global   == <<"int", "a", ";">>
Function == Global \o <<"int", "f", "(", "int", "b", ")", "{">>

\* Calls in calls, groups, indices, strings, unfinished ones.
Calls == Family(<<"void", "g", "(", ")", "{">>,
                {"f", "(", ")", ",", "[", "]", ";", "str"}, 6)

\* Parameters, signatures alone, lists, names of functions used in them.
Params == Family(Global \o <<"int", "f", "(", "int", "a">>,
                 {"a", "int", "f", "(", ")", "{", "}", ";", ","}, 5)

\* Blocks in blocks, locals that hide parameters and globals.
Bodies == Family(Global \o <<"int", "f", "(", "int", "a", ")", "{">>,
                 {"a", "int", "{", "}", ";"}, 6)

\* One statement inside another.
Branches == Family(Function \o <<"if", "(", "a", ")">>,
                   {"a", "int", "if", "else", "{", "}", ";"}, 6)

\* Loop variables, and conditions that begin with their operator.
Loops == Family(Global \o <<"int", "f", "(", ")", "{", "for", "(">>,
                {"a", "int", ")", "{", "}", ";", "=", "<"}, 7)

\* Cases that declare.
Switches == Family(Function \o <<"switch", "(", "a", ")", "{", "case", "a", ":">>,
                   {"a", "int", "case", "default", ":", ";"}, 6)

\* The sections of a rule.
Rules == Family(<<"rule", "r", "{">>,
                {"condition", "action", ":", "{", "}", "int", "a", ";"}, 4)

\* Loops, members and increments.
Others == Family(Function, {"do", "while", "(", ")", "a", ".", "++", ";"}, 5)

\* Declarations of every kind, after the ones they may come after.
Tops == Family(Global, {"extern", "include", "event", "int", "f", "(", ")", ";", "str"}, 6)

\* Values of every type, calls that the knowledge base knows, names from the
\* closure and names from nowhere.
Typed == Family(<<"string", "s", ";", "int", "a", ";", "float", "f", "(", "int", "b", ")", "{">>,
                {"string", "a", "b", "s", "c", "1", "str", "=", ";", "return"}, 4)
Known == Family(<<"int", "c", "=", "1", ";", "void", "f", "(", "string", "c", ")", "{", "k", "(">>,
                {"k", "a", "c", "d", "(", ")", ",", "1", "str", ";"}, 4)

\* Operators in groups, and lists of variables that end in a call.
Operators == Family(Function \o <<"a", "-">>, {"a", "-", "=", "(", ")", ";"}, 6)
Lists == Family(<<"int", "a">>, {"b", "=", ",", "(", ")", "1", ";"}, 6)

\* Sections with a colon, with a block, with both; an operand in a group.
Sections == Family(<<"rule", "r", "{">>, {"condition", ":", "{", "}", "a", ";"}, 6)
Grouped  == Family(Function, {"(", "-", "a", ")", "++", ".", ";"}, 6)

\* Broken statements, with everything the grammar takes for a beginning.
Broken == [before |-> Function, broken |-> TRUE, length |-> 3,
           words |-> {"a", "int", "-", "=", ".", ",", ":", "if", "do", "return", ";", "else"}]

\* No file.
Nothing == Family(<<>>, {}, 0)

Whole == {Nothing, Calls, Params, Bodies, Branches, Loops, Switches, Rules, Others, Tops}
MCFamilies == Whole \cup {Operators, Lists, Typed, Known, Broken}
MCChanged  == {Nothing, Sections, Grouped}

(* What the file includes, and what the knowledge base has *)

included(k, type, name) == Decl(k, type, name, <<>>, <<>>, 0, 0)
MCExternals == <<included("variable", <<"string">>, "e"), included("function", <<"int">>, "c"),
                 included("rule", NoType, "r")>>
MCFunctions == "k" :> [params |-> <<<<"float">>, <<"string">>>>, required |-> 1, returns |-> <<"int">>]
MCConstants == {"d"}

(* Families of sources: comments and strings over lines, numbers and operators *)

MCSources == {[of |-> {"/", "*", "\n", "a"}, length |-> 6],
              [of |-> {"quote", "\\", "\n", "/"}, length |-> 6],
              [of |-> {"0", "x", ".", "a", "<", "="}, length |-> 4]}
MCNoSource == {[of |-> {}, length |-> 0]}

(* Documents: a map that includes two scripts, another that includes one   *)

script(ts) == [i \in DOMAIN ts |-> [token |-> ts[i], role |-> "xs"]]
path(d)    == [token |-> d, role |-> "path"]

Declared == script(<<"int", "a", ";">>)
Initial  == script(<<"int", "a", "=", "1", ";">>)
Used     == script(<<"void", "g", "(", ")", "{", "a", ";", "}">>)
Hidden   == script(<<"void", "g", "(", "int", "a", ")", "{", "a", ";", "}">>)
Later    == script(<<"void", "g", "(", ")", "{", "a", ";", "int", "a", "=", "a", ";", "}">>)
Scripts  == {Declared, Initial, Used, Hidden, Later}

inlined(cells) == <<[token |-> "#includeXS", role |-> "directive"]>> \o cells

Constant == <<[token |-> "#const", role |-> "word"], [token |-> "a", role |-> "const"]>>
Value    == <<[token |-> "a", role |-> "value"]>>
Word     == <<[token |-> "a", role |-> "word"]>>

MCHeader == "main"  :> <<path("lib"), path("util")>>
         @@ "other" :> <<path("lib")>>
         @@ "lib"   :> <<>>
         @@ "util"  :> <<>>
MCPieces == "main"  :> {Constant, Value, Word} \cup {inlined(x) : x \in Scripts}
         @@ "other" :> {Value, inlined(Used), inlined(Declared)}
         @@ "lib"   :> Scripts
         @@ "util"  :> {Used, Later}

(* The instance *)

FileAtRest      == family = Nothing
SourceAtRest    == source = <<>> /\ input = (CHOOSE b \in Sources : TRUE)
WorkspaceAtRest == pieces = 0
TextAtRest      == chars = <<>>

FileStep == /\ SourceAtRest /\ WorkspaceAtRest /\ TextAtRest
            /\ Next
            /\ UNCHANGED <<input, source, pieces, texts, w, chars>>

SourceStep == /\ FileAtRest /\ WorkspaceAtRest /\ TextAtRest
              /\ Scanner!Next
              /\ UNCHANGED <<vars, pieces, texts, w, chars>>

WorkspaceStep == /\ FileAtRest /\ SourceAtRest /\ TextAtRest
                 /\ Across!Next
                 /\ UNCHANGED <<vars, input, source, chars>>

TextStep == /\ FileAtRest /\ SourceAtRest /\ WorkspaceAtRest
            /\ TextNext
            /\ UNCHANGED <<vars, input, source, pieces, texts, w>>

MCInit == Init /\ Scanner!Init /\ Across!Init /\ TextInit
MCNext == FileStep \/ SourceStep \/ WorkspaceStep \/ TextStep
MCSpec == MCInit /\ [][MCNext]_<<vars, input, source, pieces, texts, w, chars>>

(* The properties of the instance, stated in the module of each part. *)

\* Lines and columns are those of the offsets, whatever ends a line.
ScanFaithful == Scanner!ScanFaithful

\* From a name to its declaration and back, and a rename that changes no meaning.
NavigationAgrees == Across!NavigationAgrees
=============================================================================
