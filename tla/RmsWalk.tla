------------------------------- MODULE RmsWalk -------------------------------
(***************************************************************************)
(* The line walk of the RMS parser (src/internal/rms/parse.go): sections,  *)
(* conditional and random scopes, attribute blocks with and without        *)
(* braces, and inline XS regions, with the recovery from every wrong       *)
(* order of them.  A line is its class, already blanked of comments        *)
(* (RmsComments has the blanking); positions are line numbers.  Nodes are  *)
(* numbered as they are added, so a child list is the nodes of one parent  *)
(* in the order of their numbers.                                          *)
(***************************************************************************)
EXTENDS Integers, Sequences, FiniteSets, FiniteSetsExt, SequencesExt

CONSTANT Scripts    \* the vocabularies explored: [words, length] records

\* The words that open, continue and close scopes ("else" stands for elseif too).
structuralWords == {"if", "else", "endif", "start_random", "end_random", "percent_chance"}

Directives == {"#include", "#includeXS", "#includeXS f", "#const"}
Headers    == {"<name>", "</name>"}
Statements == {"create_x", "create_x {", "create_x { a }", "plain"}
Words == structuralWords \cup Directives \cup Headers \cup Statements
           \cup {"{", "}", "junk", "blank", "#hash"}

ASSUME ScriptsAssumption ==
    \A s \in Scripts : s.words \subseteq Words /\ s.length \in Nat

VARIABLES
    script,       \* the vocabulary of this file
    lines,        \* the lines read so far
    sects,        \* sections, the last one is being filled
    nodes,        \* statements
    scopes,       \* open conditional and random nodes, innermost last
    braceScopes,  \* structural nesting inside an attribute block
    owner,        \* node owning the open { } block, 0 for none
    lastCmd,      \* last command started, 0 for none
    inXs,         \* inside an inline XS region
    xsStart,      \* its first line
    xsArg,        \* it was started by an #includeXS with a file
    xsBlocks,     \* XS blocks found: first line, line after the last
    diags,        \* problems reported, at their lines
    done          \* the end of the file was reached

tree  == <<sects, nodes, scopes, braceScopes, owner, lastCmd>>
xs    == <<inXs, xsStart, xsArg, xsBlocks>>
vars  == <<script, lines, tree, xs, diags, done>>

here == Len(lines) + 1
cur  == Len(sects)

Section(name) == [name |-> name, start |-> here, end |-> here]

Init ==
    /\ script \in Scripts
    /\ lines = <<>>
    /\ sects = <<[name |-> "global", start |-> 1, end |-> 1]>>
    /\ nodes = <<>> /\ scopes = <<>> /\ braceScopes = <<>>
    /\ owner = 0 /\ lastCmd = 0
    /\ inXs = FALSE /\ xsStart = 0 /\ xsArg = FALSE /\ xsBlocks = <<>>
    /\ diags = {} /\ done = FALSE

Report(what) == diags' = diags \cup {[at |-> here, what |-> what]}

------------------------------------------------------------------------------
(* Inline XS regions *)

xsTerminator(w) == w \in Headers \cup Directives

\* Mutant: the last line of a region is cut.
endXsBlockShort(end) ==
    LET ink  == {i \in xsStart .. end - 1 : lines[i] # "blank"}
        stop == IF ink = {} THEN xsStart ELSE Max(ink)
    IN IF ~inXs \/ (xsArg /\ stop = xsStart)
         THEN xsBlocks
         ELSE Append(xsBlocks, [start |-> xsStart, end |-> stop])

\* The blocks once the region that ends before line `end` is closed: trailing
\* blank lines are cut, and an empty region of a directive with a file has none.
endXsBlock(end) ==
    LET ink  == {i \in xsStart .. end - 1 : lines[i] # "blank"}
        stop == IF ink = {} THEN xsStart ELSE Max(ink) + 1
    IN IF ~inXs \/ (xsArg /\ stop = xsStart)
         THEN xsBlocks
         ELSE Append(xsBlocks, [start |-> xsStart, end |-> stop])

------------------------------------------------------------------------------
(* The tree *)

Parent == IF scopes = <<>> THEN 0 ELSE Last(scopes)

Children(ns, n) == {c \in DOMAIN ns : ns[c].parent = n}

\* A block with its children, and with those of the open scopes inside it.
Family(n) == {n} \cup Children(nodes, n)
Households(n) ==
    UNION {Family(scopes[j]) : j \in {j \in DOMAIN scopes :
             \E i \in DOMAIN scopes : scopes[i] = n /\ i <= j}}

isCreateCommand(name) == name \in {"create_x", "create_x {", "create_x { a }"}

Node(w) == [name |-> w, start |-> here, end |-> here, parent |-> Parent,
            sect |-> cur,
            attrs |-> IF w = "create_x { a }" THEN <<here>> ELSE <<>>]

\* A closing block's range is settled over its children.
finalizeScope(n, family) ==
    [nodes[n] EXCEPT !.end = Max({nodes[c].end : c \in family})]

\* The create command that takes attributes without braces, 0 for none.
implicitAttrTarget ==
    IF /\ lastCmd # 0
       /\ isCreateCommand(nodes[lastCmd].name)
       /\ IF nodes[lastCmd].parent = 0 THEN nodes[lastCmd].sect = cur
                                       ELSE Contains(scopes, nodes[lastCmd].parent)
      THEN lastCmd ELSE 0

AttributeTo(n) ==
    nodes' = [nodes EXCEPT ![n].attrs = Append(@, here), ![n].end = here]

\* commandLine: the new command is the last one, and owns a block it opens.
commandLine(w) ==
    /\ nodes' = Append(nodes, Node(w))
    /\ lastCmd' = Len(nodes) + 1
    /\ owner' = IF w = "create_x {" THEN Len(nodes) + 1 ELSE owner

------------------------------------------------------------------------------
(* Scopes *)

conditionalNames == {"if", "else"}
randomNames      == {"start_random"}

\* How many scopes stay open when a closer looks for one of these names: those
\* below the innermost match, or none.
Kept(names) ==
    LET hits == {i \in DOMAIN scopes : nodes[scopes[i]].name \in names}
    IN IF hits = {} THEN 0 ELSE Max(hits) - 1

\* Mutant: the scopes are settled from the outermost in.
SettledOuterFirst(kept) ==
    [n \in DOMAIN nodes |->
       IF \E i \in DOMAIN scopes : i > kept /\ scopes[i] = n
         THEN finalizeScope(n, Family(n)) ELSE nodes[n]]

\* The nodes with the scopes above `kept` settled, innermost first: each covers
\* the children of those inside it too.
Settled(kept) ==
    [n \in DOMAIN nodes |->
       IF \E i \in DOMAIN scopes : i > kept /\ scopes[i] = n
         THEN finalizeScope(n, Households(n)) ELSE nodes[n]]

\* What closeScopes reports: every scope it closes on the way, except
\* percent_chance, and the lack of a match.
closeScopesReports(names) ==
    LET closed == {nodes[scopes[i]].name : i \in Kept(names) + 1 .. Len(scopes)}
        whats  == {what \in {"unterminated", "unmatched"} :
                     IF what = "unmatched"
                       THEN closed \cap names = {}
                       ELSE closed \ (names \cup {"percent_chance"}) # {}}
    IN {[at |-> here, what |-> what] : what \in whats}

closeScopes(names) ==
    /\ nodes' = Settled(Kept(names))
    /\ scopes' = SubSeq(scopes, 1, Kept(names))
    /\ diags' = diags \cup closeScopesReports(names)

\* Mutant: a branch opens inside the one before it.
OpenAfterAll(kept, w) ==
    /\ nodes' = Append(nodes, Node(w))
    /\ scopes' = Append(scopes, Len(nodes) + 1)

\* A block opened once `kept` scopes are left.
OpenAfter(kept, w) ==
    LET settled == Settled(kept)
        outer   == SubSeq(scopes, 1, kept)
        new     == [Node(w) EXCEPT !.parent = IF kept = 0 THEN 0 ELSE outer[kept]]
    IN /\ nodes' = Append(settled, new)
       /\ scopes' = Append(outer, Len(nodes) + 1)

------------------------------------------------------------------------------
(* One action per class of line *)

Read(w) ==
    /\ ~done
    /\ w \in script.words
    /\ Len(lines) < script.length
    /\ lines' = Append(lines, w)
    /\ UNCHANGED <<script, done>>

\* A blank line, a #-comment line, or any line of an XS region but its terminator.
Skip(w) ==
    /\ Read(w)
    /\ (inXs /\ ~xsTerminator(w)) \/ w \in {"blank", "#hash"}
    /\ UNCHANGED <<tree, xs, diags>>

\* Mutant: a section header keeps the last command.
closeSectionKeeps(w) ==
    /\ Read(w)
    /\ w \in Headers
    /\ diags' = IF owner = 0 THEN diags
                ELSE diags \cup {[at |-> here, what |-> "unclosed block"]}
    /\ owner' = 0 /\ braceScopes' = <<>>
    /\ sects' = Append([sects EXCEPT ![cur].end = here],
                       Section(IF w = "</name>" THEN "global" ELSE "name"))
    /\ xsBlocks' = endXsBlock(here) /\ inXs' = FALSE
    /\ UNCHANGED <<nodes, scopes, lastCmd, xsStart, xsArg>>

\* A section header closes an open block, and leaves the scopes open.
closeSection(w) ==
    /\ Read(w)
    /\ w \in Headers
    /\ diags' = IF owner = 0 THEN diags
                ELSE diags \cup {[at |-> here, what |-> "unclosed block"]}
    /\ owner' = 0 /\ braceScopes' = <<>> /\ lastCmd' = 0
    /\ sects' = Append([sects EXCEPT ![cur].end = here],
                       Section(IF w = "</name>" THEN "global" ELSE "name"))
    /\ xsBlocks' = endXsBlock(here) /\ inXs' = FALSE
    /\ UNCHANGED <<nodes, scopes, xsStart, xsArg>>

\* An include directive ends a region, and an #includeXS begins the next one.
includeDirective(w) ==
    /\ Read(w)
    /\ w \in Directives \ {"#const"}
    /\ xsBlocks' = endXsBlock(here)
    /\ inXs' = (w # "#include")
    /\ IF w = "#include"
         THEN UNCHANGED <<xsStart, xsArg>>
         ELSE xsStart' = here + 1 /\ xsArg' = (w = "#includeXS f")
    /\ UNCHANGED <<tree, diags>>

\* #const, #define and #undefine are statements wherever they stand.
constDirective(w) ==
    /\ Read(w)
    /\ w = "#const"
    /\ xsBlocks' = endXsBlock(here) /\ inXs' = FALSE
    /\ commandLine(w)
    /\ UNCHANGED <<sects, scopes, braceScopes, xsStart, xsArg, diags>>

StatementLine(w) ==
    /\ Read(w)
    /\ ~inXs
    /\ UNCHANGED <<sects, xs>>

openBrace(w) ==
    /\ StatementLine(w)
    /\ w = "{"
    /\ \/ /\ owner = 0 /\ lastCmd # 0
          /\ owner' = lastCmd
          /\ UNCHANGED diags
       \/ /\ owner # 0 \/ lastCmd = 0
          /\ Report("unexpected {")
          /\ UNCHANGED owner
    /\ UNCHANGED <<nodes, scopes, braceScopes, lastCmd>>

closeBrace(w) ==
    /\ StatementLine(w)
    /\ w = "}"
    /\ \/ /\ owner # 0
          /\ nodes' = [nodes EXCEPT ![owner].end = here]
          /\ owner' = 0 /\ braceScopes' = <<>>
          /\ UNCHANGED <<lastCmd, diags>>
       \/ /\ owner = 0 /\ implicitAttrTarget # 0
          /\ nodes' = [nodes EXCEPT ![implicitAttrTarget].end = here]
          /\ lastCmd' = 0
          /\ UNCHANGED <<owner, braceScopes, diags>>
       \/ /\ owner = 0 /\ implicitAttrTarget = 0
          /\ Report("unexpected }")
          /\ UNCHANGED <<nodes, owner, braceScopes, lastCmd>>
    /\ UNCHANGED scopes

junkLine(w) ==
    /\ StatementLine(w)
    /\ w = "junk"
    /\ Report("unexpected")
    /\ UNCHANGED tree

\* Inside a block the nesting is tracked and no node is made.
structuralInBrace(w) ==
    /\ StatementLine(w)
    /\ w \in structuralWords /\ owner # 0
    /\ LET outer == IF braceScopes = <<>> THEN <<>> ELSE Front(braceScopes)
       IN braceScopes' = CASE w \in {"endif", "end_random"}     -> outer
                           [] w \in {"else", "percent_chance"}  -> Append(outer, w)
                           [] OTHER                             -> Append(braceScopes, w)
    /\ IF w \in {"endif", "end_random"} /\ braceScopes = <<>>
         THEN Report("unmatched")
         ELSE UNCHANGED diags
    /\ UNCHANGED <<nodes, scopes, owner, lastCmd>>

structural(w) ==
    /\ StatementLine(w)
    /\ w \in structuralWords /\ owner = 0
    /\ \/ w = "endif" /\ closeScopes(conditionalNames)
       \/ w = "end_random" /\ closeScopes(randomNames)
       \/ /\ w = "else"
          /\ OpenAfter(Kept(conditionalNames), w)
          /\ diags' = diags \cup closeScopesReports(conditionalNames)
       \/ /\ w = "percent_chance"
          /\ OpenAfter(IF scopes # <<>> /\ nodes[Last(scopes)].name = "percent_chance"
                         THEN Len(scopes) - 1 ELSE Len(scopes), w)
          /\ UNCHANGED diags
       \/ w \in {"if", "start_random"} /\ OpenAfter(Len(scopes), w) /\ UNCHANGED diags
    /\ UNCHANGED <<braceScopes, owner, lastCmd>>

\* Any word in an open block is an attribute; without braces, any word but a
\* create command is one of the create command before it.
attributeLine(w) ==
    /\ StatementLine(w)
    /\ w \in Statements
    /\ \/ owner # 0 /\ AttributeTo(owner)
       \/ /\ owner = 0 /\ implicitAttrTarget # 0 /\ ~isCreateCommand(w)
          /\ AttributeTo(implicitAttrTarget)
    /\ UNCHANGED <<scopes, braceScopes, owner, lastCmd, diags>>

commandStatement(w) ==
    /\ StatementLine(w)
    /\ w \in Statements
    /\ owner = 0 /\ (implicitAttrTarget = 0 \/ isCreateCommand(w))
    /\ commandLine(w)
    /\ UNCHANGED <<scopes, braceScopes, diags>>

\* The end of the file: the last region, block and scopes are closed, the
\* scopes outermost first, and the last section ends.
closeAll ==
    /\ ~done /\ done' = TRUE
    /\ xsBlocks' = endXsBlock(here) /\ inXs' = FALSE
    /\ diags' = diags
         \cup (IF owner = 0 THEN {} ELSE {[at |-> here, what |-> "unclosed block"]})
         \cup (IF scopes = <<>> THEN {} ELSE {[at |-> here, what |-> "unterminated"]})
    /\ nodes' = [n \in DOMAIN nodes |-> IF Contains(scopes, n)
                                         THEN finalizeScope(n, Family(n)) ELSE nodes[n]]
    /\ owner' = 0 /\ braceScopes' = <<>> /\ scopes' = <<>>
    /\ sects' = [sects EXCEPT ![cur].end = here]
    /\ UNCHANGED <<script, lines, lastCmd, xsStart, xsArg>>

Line(w) ==
    \/ Skip(w) \/ closeSection(w) \/ includeDirective(w) \/ constDirective(w)
    \/ openBrace(w) \/ closeBrace(w) \/ junkLine(w)
    \/ structuralInBrace(w) \/ structural(w)
    \/ attributeLine(w) \/ commandStatement(w)

Next == (\E w \in script.words : Line(w)) \/ closeAll

Spec == Init /\ [][Next]_vars

------------------------------------------------------------------------------
(* Properties *)

Problems == {"unclosed block", "unexpected {", "unexpected }", "unexpected",
             "unmatched", "unterminated"}

\* Every variable has its type.
TypeOK ==
    /\ script \in Scripts /\ lines \in Seq(Words) /\ done \in BOOLEAN
    /\ sects \in Seq([name : {"global", "name"}, start : Nat, end : Nat]) /\ sects # <<>>
    /\ nodes \in Seq([name : Words, start : Nat, end : Nat, parent : Nat,
                      sect : Nat, attrs : Seq(Nat)])
    /\ scopes \in Seq(DOMAIN nodes) /\ braceScopes \in Seq(structuralWords)
    /\ owner \in {0} \cup DOMAIN nodes /\ lastCmd \in {0} \cup DOMAIN nodes
    /\ inXs \in BOOLEAN /\ xsArg \in BOOLEAN /\ xsStart \in Nat
    /\ xsBlocks \in Seq([start : Nat, end : Nat])
    /\ diags \subseteq [at : Nat, what : Problems]

\* Where the tree and the XS blocks keep line i.
Places(i) ==
    [nodes  |-> {n \in DOMAIN nodes :
                    nodes[n].start = i \/ i \in ToSet(nodes[n].attrs)},
     blocks |-> {b \in DOMAIN xsBlocks :
                    xsBlocks[b].start <= i /\ i < xsBlocks[b].end}]

\* Every line that says something ends up in exactly one place, as a command,
\* as an attribute of one command or as a line of one XS block, through every
\* change between regions, blocks and sections: the recovery loses nothing and
\* keeps nothing twice (run and statementLine, parse.go:93-144, 216-264).
LinesKept ==
    done => \A i \in DOMAIN lines :
        lines[i] \in Statements \cup {"#const"} =>
            Cardinality(Places(i).nodes) + Cardinality(Places(i).blocks) = 1

\* An attribute belongs to the command after which it is written: between the
\* command and its attribute there is no other command and no section header,
\* with braces or without, through any nesting of scopes
\* (implicitAttrTarget, openBrace and closeSection, parse.go:263-290, 520-560,
\* 784-794).
AttributesFollowTheirCommand ==
    \A n \in DOMAIN nodes : \A l \in ToSet(nodes[n].attrs) :
        /\ \A i \in nodes[n].start + 1 .. l : lines[i] \notin Headers
        /\ \A m \in DOMAIN nodes :
              nodes[m].name \in Statements =>
                  ~(nodes[n].start < nodes[m].start /\ nodes[m].start < l)

\* The nesting of the scope words, as a grammar over a file of such words: where
\* what a nonterminal derives from line i may end.  A percent_chance stands in any
\* group, an else in an if group.
Derives ==
    LET n == Len(lines)
        ends[i \in 1 .. n + 1] ==
          [nt \in {"file", "random", "branches"} |->
             {j \in i - 1 .. n :
                \/ j = i - 1
                \/ nt = "branches" /\ lines[i] = "else" /\ j \in ends[i + 1][nt]
                \/ nt # "file" /\ lines[i] = "percent_chance" /\ j \in ends[i + 1][nt]
                \/ \E k \in i + 1 .. j :
                      /\ \/ /\ lines[i] = "if" /\ lines[k] = "endif"
                            /\ k - 1 \in ends[i + 1]["branches"]
                         \/ /\ lines[i] = "start_random" /\ lines[k] = "end_random"
                            /\ k - 1 \in ends[i + 1]["random"]
                      /\ j \in ends[k + 1][nt]}]
    IN n \in ends[1]["file"]

\* A file of scope words is reported if and only if it is not well nested:
\* closing by the innermost match and closing the percent_chance branches
\* silently never hides a missing word and never blames a complete file
\* (structural, closeScopes and syncConstructs, parse.go:432-512, 759-781).
CleanIffWellNested ==
    done /\ script.words \subseteq structuralWords => (diags = {} <=> Derives)
=============================================================================
