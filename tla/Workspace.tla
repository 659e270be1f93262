----------------------------- MODULE Workspace ------------------------------
(***************************************************************************)
(* Documents that include one another and grow piece by piece, each parsed *)
(* anew after a change, and what navigation answers in every one of them.  *)
(*                                                                         *)
(* A text is a sequence of cells, a token with its role: "xs" in XS, and in *)
(* RMS the role its parser gives it (RmsWalk and RmsExpr have the parser): *)
(* the name of a constant, a value, another word, the path of an include,  *)
(* the directive of an inline XS block.                                    *)
(***************************************************************************)
EXTENDS Navigation

CONSTANTS Header,      \* [documents -> the cells it begins with]
          Pieces,      \* [documents -> set of sequences of cells]
          MaxPieces    \* bound: the pieces added in all

VARIABLES count,       \* pieces added
          text,        \* [documents -> cells]
          w            \* [documents -> what the parser answers]

Docs == DOMAIN Header

isScript(cells) == \A i \in DOMAIN cells : cells[i].role = "xs"

tokens(cells) == FoldLeft(LAMBDA all, c : Append(all, c.token), <<>>, cells)

\* The cells with some roles, as occurrences.
occurrences(cells, roles) ==
    FoldLeft(LAMBDA out, i : IF cells[i].role \in roles
                             THEN Append(out, [name |-> cells[i].token, start |-> startOf(i),
                                               end |-> endOf(i)])
                             ELSE out, <<>>, [i \in DOMAIN cells |-> i])

\* The inline XS after the directive at cell i.
blockAfter(cells, i) ==
    LET last == CHOOSE k \in i..Len(cells) :
                  /\ \A j \in i + 1..k : cells[j].role = "xs"
                  /\ k = Len(cells) \/ cells[k + 1].role # "xs"
    IN [start |-> startOf(i + 1), end |-> startOf(last + 1), base |-> startOf(i),
        file |-> XsParse(tokens(SubSeq(cells, i + 1, last)))]

XsDoc(cells) == [kind |-> "xs", file |-> XsParse(tokens(cells)), includes |-> <<>>, blocks |-> <<>>]

RmsDoc(cells) ==
    [kind |-> "rms",
     words     |-> occurrences(cells, {"const", "value", "word"}),
     constants |-> occurrences(cells, {"const"}),
     values    |-> occurrences(cells, {"const", "value"}),
     includes  |-> occurrences(cells, {"path"}),
     blocks    |-> FoldLeft(LAMBDA out, i : IF cells[i].role = "directive"
                                            THEN Append(out, blockAfter(cells, i)) ELSE out,
                            <<>>, [i \in DOMAIN cells |-> i])]

DocOf(cells) == IF isScript(cells) THEN XsDoc(cells) ELSE RmsDoc(cells)

Init == /\ count = 0
        /\ text = Header
        /\ w = [d \in Docs |-> DocOf(Header[d])]

\* A change of one document.
Edit(d, piece) ==
    /\ count < MaxPieces
    /\ count' = count + 1
    /\ text' = [text EXCEPT ![d] = @ \o piece]
    /\ w' = [w EXCEPT ![d] = DocOf(text'[d])]

Next == \E d \in Docs : \E piece \in Pieces[d] : Edit(d, piece)
Spec == Init /\ [][Next]_<<count, text, w>>

------------------------------------------------------------------------------
(* Properties: every document is open. *)

\* The places of the names in the texts.
Places == UNION {{<<d, startOf(i)>> : i \in {k \in DOMAIN text[d] : kind(text[d][k].token) = "ident"}} :
                   d \in Docs}

\* The words of the RMS language: they name nothing, whatever they spell.
Vocabulary == {p \in Places : \E i \in DOMAIN text[p[1]] : /\ startOf(i) = p[2]
                                                           /\ text[p[1]][i].role = "word"}

\* The top-level declarations of a name, and the constants.
declarations(name) ==
    UNION {IF isXs(w, d) THEN {Target(d, s) : s \in declaring(w, d, name)}
           ELSE {Target(d, o) : o \in named(w[d].constants, name)}
                  \cup inBlocks(w, d, LAMBDA f : {s \in Symbols(f) : s.name = name}) : d \in Docs}

\* The renames of a name that one declaration has at the most.
Renames == {RenameSitesOf(w, Docs, p[1], p[2]) :
              p \in {q \in Places : Cardinality(declarations(nameAt(w, q[1], q[2]))) <= 1}}

\* The workspace after the edits of a rename to a name that occurs nowhere.
renamed(sites) ==
    LET cell(d, i) == IF \E s \in sites : s.doc = d /\ s.start = startOf(i)
                      THEN [text[d][i] EXCEPT !.token = "fresh"] ELSE text[d][i]
    IN FoldSet(LAMBDA d, out : [out EXCEPT ![d] = DocOf([i \in DOMAIN text[d] |-> cell(d, i)])],
               w, {s.doc : s \in sites})

sameMeaning(before, after) ==
    \A q \in Places \ Vocabulary : DefinitionOf(after, q[1], q[2]) = DefinitionOf(before, q[1], q[2])

\* A rename changes no meaning: after its edits every name of every document
\* leads where it led before, as long as one declaration has the name; it edits
\* the same names wherever among them it begins, if it can begin there at all;
\* and the rename box opens on the name it began at exactly when there is
\* something to edit (RenameSites, resolver.go:460-556; localRenameSites,
\* 578-617; xsRenameRefs, 691-726; PrepareRename, server.go:893-938).
RenameSound ==
    /\ \A sites \in Renames :
         /\ sites # {} => sameMeaning(w, renamed(sites))
         /\ \A s \in sites : RenameSitesOf(w, Docs, s.doc, s.start) \in {{}, sites}
    /\ \A p \in Places :
         {s.start : s \in PrepareRename(w, Docs, p[1], p[2])}
           = IF RenameSitesOf(w, Docs, p[1], p[2]) = {} THEN {} ELSE {p[2]}

\* From a name to its declaration and back: the references of a declaration
\* have every name that leads to it, whatever else is open, and an editor
\* highlights none but references (References, resolver.go:390-447; Definition,
\* 298-338; highlightRms, server.go:1051-1066).
ReferencesBack ==
    \A p \in Places :
      /\ \A t \in DefinitionOf(w, p[1], p[2]) :
           t.end > 0 => \E s \in ReferencesOf(w, {p[1]}, t.doc, t.start) :
                           s.doc = p[1] /\ s.start = p[2]
      /\ HighlightsOf(w, p[1], p[2]) \subseteq ReferencesOf(w, {p[1]}, p[1], p[2])

\* Both of them.
NavigationAgrees == RenameSound /\ ReferencesBack
=============================================================================
