----------------------------- MODULE Navigation -----------------------------
(***************************************************************************)
(* Navigation across files: Definition, References and RenameSites of the  *)
(* include resolver (src/internal/include/resolver.go) and the handlers of *)
(* the server over them.                                                   *)
(*                                                                         *)
(* A workspace w maps each document to what its parser answers: an XS file *)
(* to XsParse of its tokens, an RMS file to its words, its includes and    *)
(* its inline XS blocks.  A position is a token's, as in XsParser; a block *)
(* has positions of its own, shifted by its base.  A site is a target: a   *)
(* document and a range in it.                                             *)
(***************************************************************************)
EXTENDS XsLookup

Target(d, r) == [doc |-> d, start |-> r.start, end |-> r.end]

isXs(w, d) == w[d].kind = "xs"

\* Columns of a block are those of its file less its base.
shiftRange(r, base)   == [start |-> r.start + base, end |-> r.end + base]
unshiftPos(pos, base) == pos - base

\* The inline XS block at a position: none, or one.
blockAt(w, d, pos) == firstOf(w[d].blocks, LAMBDA b : contains(b, pos))

(* The closure of a document: depth first, every file once *)

RECURSIVE expand(_, _, _)
expand(w, found, d) ==
    IF d \in ToSet(found) THEN found
    ELSE FoldLeft(LAMBDA out, i : expand(w, out, i.name), Append(found, d), w[d].includes)

closure(w, d) == expand(w, <<>>, d)

\* The search roots of references and renames: the document, and the open
\* ones whose closure has it.
roots(w, open, d) == {d} \cup {u \in open : d \in ToSet(closure(w, u))}

Searched(w, open, d) == UNION {ToSet(closure(w, u)) : u \in roots(w, open, d)}

------------------------------------------------------------------------------
(* Names *)

nameOf(found) == IF found = <<>> THEN "" ELSE found[1].name

blockName(b, pos) == nameOf(occurrenceAt(b.file, unshiftPos(pos, b.base)))

nameAt(w, d, pos) ==
    CASE isXs(w, d) -> nameOf(occurrenceAt(w[d].file, pos))
      [] ~isXs(w, d) /\ blockAt(w, d, pos) # <<>> -> blockName(blockAt(w, d, pos)[1], pos)
      [] OTHER -> nameOf(firstOf(w[d].words, LAMBDA o : contains(o, pos)))

------------------------------------------------------------------------------
(* Definition: none, or one target *)

\* The first declaration of a name among the XS files of a closure.
declaring(w, u, name) == {s \in Symbols(w[u].file) : s.name = name}
firstOfDoc(u, found)  == Target(u, CHOOSE s \in found : \A x \in found : s.start <= x.start)

declaredIn(w, found, name) ==
    LET docs == SelectSeq(found, LAMBDA u : isXs(w, u) /\ declaring(w, u, name) # {})
    IN IF name = "" \/ docs = <<>> THEN {} ELSE {firstOfDoc(docs[1], declaring(w, docs[1], name))}

definitionInBlock(d, b, pos) ==
    {Target(d, shiftRange(r, b.base)) : r \in Definition(b.file, unshiftPos(pos, b.base))}

\* The path of an include leads to its file.
includeAt(w, d, pos) == firstOf(w[d].includes, LAMBDA i : contains(i, pos))

localDefinition(w, d, pos) ==
    CASE isXs(w, d) -> {Target(d, r) : r \in Definition(w[d].file, pos)}
      [] ~isXs(w, d) /\ includeAt(w, d, pos) # <<>> ->
           {Target(includeAt(w, d, pos)[1].name, NoRange)}
      [] ~isXs(w, d) /\ includeAt(w, d, pos) = <<>> /\ blockAt(w, d, pos) # <<>> ->
           definitionInBlock(d, blockAt(w, d, pos)[1], pos)
      [] OTHER -> {}

orDeclared(w, d, pos, local) ==
    IF local # {} THEN local
    ELSE declaredIn(w, closure(w, d), nameAt(w, d, pos))

DefinitionOf(w, d, pos) == orDeclared(w, d, pos, localDefinition(w, d, pos))

------------------------------------------------------------------------------
(* References *)

\* The occurrences of a name in a document, and in its blocks.
inBlocks(w, d, Found(_)) ==
    UNION {{Target(d, shiftRange(r, b.base)) : r \in Found(b.file)} : b \in ToSet(w[d].blocks)}

named(occurrences, name) == {o \in ToSet(occurrences) : o.name = name}

referencesIn(w, d, name) ==
    IF isXs(w, d) THEN {Target(d, o) : o \in named(w[d].file.symbols, name)}
    ELSE {Target(d, o) : o \in named(w[d].words, name)}
           \cup inBlocks(w, d, LAMBDA f : named(f.symbols, name))

referencesTo(w, searched, name) ==
    IF name = "" THEN {} ELSE UNION {referencesIn(w, u, name) : u \in searched}

ReferencesOf(w, open, d, pos) == referencesTo(w, Searched(w, open, d), nameAt(w, d, pos))

\* The occurrences the editor highlights are those of one parse.
highlightsInBlock(d, b, pos) ==
    {Target(d, shiftRange(o, b.base)) : o \in ToSet(ReferencesAt(b.file, unshiftPos(pos, b.base)))}
HighlightsOf(w, d, pos) ==
    CASE isXs(w, d) -> {Target(d, o) : o \in ToSet(ReferencesAt(w[d].file, pos))}
      [] ~isXs(w, d) /\ blockAt(w, d, pos) # <<>> ->
           highlightsInBlock(d, blockAt(w, d, pos)[1], pos)
      [] OTHER -> {Target(d, o) : o \in named(w[d].words, nameAt(w, d, pos))}

------------------------------------------------------------------------------
(* Renames *)

\* One of the sites is the name of a top-level declaration: the binding is not
\* scoped, whatever kind the sites say.
xsDeclTopLevel(f, name, sites) ==
    \E s \in Symbols(f) : s.name = name /\ span(s) \in {span(x) : x \in sites}

\* Mutant: the kind of the sites decides alone.
topLevelByKind(f, name, sites) == \A s \in sites : s.kind \notin {"param", "local"}

topLevel(f, name, sites) ==
    \/ \A s \in sites : s.kind \notin {"param", "local"}
    \/ xsDeclTopLevel(f, name, sites)

\* What a rename of a top-level name edits in a file: its occurrences without
\* a declaration, and the sites of its top-level declarations.
editsOf(f, o, name, sites) ==
    CASE sites = {} -> {span(o)}
      [] sites # {} /\ topLevel(f, name, sites) -> {span(s) : s \in sites}
      [] OTHER -> {}
xsRenameRefs(f, name) ==
    UNION {editsOf(f, o, name, RenameSites(f, o.start)) : o \in named(f.symbols, name)}

\* The constants a document declares, and the values that name them.
rmsRenameRefs(w, d, name) ==
    {Target(d, o) : o \in named(w[d].constants, name) \cup named(w[d].values, name)}

renameRefs(w, d, name) ==
    IF isXs(w, d) THEN {Target(d, r) : r \in xsRenameRefs(w[d].file, name)}
    ELSE rmsRenameRefs(w, d, name) \cup inBlocks(w, d, LAMBDA f : xsRenameRefs(f, name))

\* The binding under a position in its own document: no sites, or the sites
\* and whether the binding leaves the document.
Local(sites, top) == [sites |-> sites, top |-> top]

xsLocal(d, f, base, sites, name) ==
    Local({Target(d, shiftRange(s, base)) : s \in sites}, topLevel(f, name, sites))

blockLocal(d, b, pos, name) ==
    xsLocal(d, b.file, b.base, RenameSites(b.file, unshiftPos(pos, b.base)), name)

\* A constant, at its declaration or at a value that names it.
constantAt(doc, pos, name) ==
    /\ named(doc.constants, name) # {}
    /\ \E o \in ToSet(doc.values \o doc.constants) : contains(o, pos)

localRenameSites(w, d, pos, name) ==
    CASE isXs(w, d) -> xsLocal(d, w[d].file, 0, RenameSites(w[d].file, pos), name)
      [] ~isXs(w, d) /\ blockAt(w, d, pos) # <<>> -> blockLocal(d, blockAt(w, d, pos)[1], pos, name)
      [] OTHER -> Local(IF constantAt(w[d], pos, name) THEN rmsRenameRefs(w, d, name) ELSE {}, TRUE)

withForeign(w, open, d, name, local) ==
    local.sites \cup
      (IF local.sites = {} \/ ~local.top THEN {}
       ELSE UNION {renameRefs(w, u, name) : u \in Searched(w, open, d)})

\* The sites a rename edits; none when the position cannot be renamed.
renameNamed(w, open, d, pos, name) ==
    withForeign(w, open, d, name, localRenameSites(w, d, pos, name))
RenameSitesOf(w, open, d, pos) == renameNamed(w, open, d, pos, nameAt(w, d, pos))

\* The site a rename box opens on: one of the document under the position.
PrepareRename(w, open, d, pos) ==
    {s \in RenameSitesOf(w, open, d, pos) : s.doc = d /\ contains(s, pos)}
=============================================================================
