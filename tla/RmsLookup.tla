------------------------------ MODULE RmsLookup ------------------------------
(***************************************************************************)
(* What the editor asks of a parsed RMS file (src/internal/rms/ast.go):    *)
(* the statement and the argument at a position, the nodes around it.  The *)
(* file is the tree of RmsWalk.  A position is a line and what of it: its  *)
(* first word, or the values after it.  RmsOutline has the outline.        *)
(***************************************************************************)
EXTENDS RmsWalk

At(line, on) == [line |-> line, on |-> on]
Positions    == [line : DOMAIN lines, on : {"word", "value"}]

\* Both ends of a statement are lines of it, the end of a section or of an
\* inline block is the line after it.
inStatement(n, pos) == nodes[n].start <= pos.line /\ pos.line <= nodes[n].end
inRange(r, pos)     == r.start <= pos.line /\ pos.line < r.end

\* The statements of a section, and of the file: the order of a list is that of
\* the numbers, section after section.
Statements0(s) == {n \in DOMAIN nodes : nodes[n].parent = 0 /\ nodes[n].sect = s}
topLevel       == Children(nodes, 0)

------------------------------------------------------------------------------
(* The statement at a position *)

\* The first of some statements that contains a position: none, or one.
firstAt(ns, pos) == LET found == {n \in ns : inStatement(n, pos)}
                    IN IF found = {} THEN {} ELSE {Min(found)}

\* The statements of a list around a position, innermost first; a child has a
\* greater number than its parent.
enclosingStmts(ns, pos) ==
    LET around[n \in DOMAIN nodes] ==
          LET inner == firstAt(Children(nodes, n), pos)
          IN IF inner = {} THEN <<n>> ELSE Append(around[CHOOSE c \in inner : TRUE], n)
    IN IF firstAt(ns, pos) = {} THEN <<>> ELSE around[CHOOSE n \in firstAt(ns, pos) : TRUE]

\* The innermost statement around a position, else the last one that ends on a
\* line before it.
StatementAt(pos) ==
    LET around == enclosingStmts(topLevel, pos)
        ended  == {n \in topLevel : nodes[n].end < pos.line}
    IN CASE around # <<>> -> {around[1]}
         [] around = <<>> /\ ended # {} -> {Max(ended)}
         [] OTHER -> {}

------------------------------------------------------------------------------
(* The argument at a position *)

\* The innermost statement reached from n by taking, at every level, the last
\* child that starts at or before the position.
ownerIn(n, pos) ==
    LET before(m) == {c \in Children(nodes, m) : nodes[c].start <= pos.line}
        down[m \in DOMAIN nodes] == IF before(m) = {} THEN m ELSE down[Max(before(m))]
    IN down[n]

\* Mutant: the first section that has an owner wins.
ownerAtFirst(pos) ==
    LET tops  == {n \in DOMAIN nodes : nodes[n].parent = 0 /\ nodes[n].start <= pos.line}
        first == Min({nodes[n].sect : n \in tops})
    IN IF tops = {} THEN {} ELSE {ownerIn(Max({n \in tops : nodes[n].sect = first}), pos)}

\* Sections in order, the last that has an owner wins.
ownerAt(pos) ==
    LET tops == {n \in DOMAIN nodes : nodes[n].parent = 0 /\ nodes[n].start <= pos.line}
        last == Max({nodes[n].sect : n \in tops})
    IN IF tops = {} THEN {} ELSE {ownerIn(Max({n \in tops : nodes[n].sect = last}), pos)}

\* Lines that have no argument whatever stands before them.
excluded(i) == lines[i] \in Headers \cup (Directives \ {"#const"}) \cup {"#hash"}

ArgSite(n, k) == [stmt |-> n, kind |-> k]

\* A value on the line of a statement is an argument, unless it is an attribute
\* between braces; a line among the attributes is one.
siteIn(n, pos) ==
    CASE pos.line \in ToSet(nodes[n].attrs) /\ (pos.on = "value" \/ pos.line # nodes[n].start) ->
           ArgSite(n, "attr")
      [] pos.line = nodes[n].start /\ pos.on = "value" /\ pos.line \notin ToSet(nodes[n].attrs) ->
           ArgSite(n, "arg")
      [] OTHER -> ArgSite(n, "none")

ArgAt(pos) ==
    {siteIn(n, pos) : n \in {m \in ownerAt(pos) : nodes[m].name # "#const" /\ ~excluded(pos.line)}}

------------------------------------------------------------------------------
(* The nodes around a position *)

Node0(k, r) == [kind |-> k, start |-> r.start, end |-> r.end]

\* The attribute of a statement at a position.
stmtMembers(n, pos) ==
    IF pos.line \in ToSet(nodes[n].attrs) /\ pos.line # nodes[n].start
      THEN <<Node0("attr", [start |-> pos.line, end |-> pos.line])>> ELSE <<>>

EnclosingRanges(pos) ==
    LET secs   == {s \in DOMAIN sects : inRange(sects[s], pos)}
        around == enclosingStmts(Statements0(Min(secs)), pos)
        chain  == [i \in DOMAIN around |-> Node0("command", nodes[around[i]])]
    IN IF secs = {} THEN <<>>
       ELSE (IF around = <<>> THEN <<>> ELSE stmtMembers(around[1], pos)) \o chain
              \o <<Node0("section", sects[Min(secs)])>>

------------------------------------------------------------------------------
(* Properties *)

\* Scope words between a command and a later line of it.
branched(n, i) == \E m \in DOMAIN nodes : nodes[n].start < nodes[m].start /\ nodes[m].start <= i

\* Signature help and hover never name another command: at the first word of a
\* statement the owner is that statement, although it is found by its start
\* alone and scopes span sections; at an attribute it is the command the parser
\* gave the attribute to, unless a scope word stands between the two - then
\* there is no attribute in the answer rather than a wrong one (ArgAt, ownerAt,
\* ownerIn, ast.go:176-268).
ArgAtExact ==
    done => \A n \in DOMAIN nodes :
      /\ ownerAt(At(nodes[n].start, "word")) = {n}
      /\ \A i \in ToSet(nodes[n].attrs) : \A site \in ArgAt(At(i, "value")) :
           IF branched(n, i) THEN site.kind = "none" ELSE site = ArgSite(n, "attr")

\* A scope open across a section header, and a "{" on a line of its own that does
\* not follow its command.
acrossHeader ==
    \E n \in DOMAIN nodes : \E s \in DOMAIN sects :
      nodes[n].start < sects[s].start /\ sects[s].start <= nodes[n].end

adrift ==
    \E i \in DOMAIN lines :
      lines[i] = "{" /\ (i = 1 \/ lines[i - 1] \notin Statements \cup {"#const"})

\* The ranges around a position grow, from the attribute over the statements to
\* the section, in a file without errors where no scope is open across a section
\* header and every "{" on a line of its own follows its command
\* (EnclosingRanges, ast.go:278-372).
SelectionGrows ==
    done /\ diags = {} /\ ~acrossHeader /\ ~adrift => \A pos \in Positions :
        LET chain == EnclosingRanges(pos)
        IN \A i \in DOMAIN chain \ {1} :
             /\ chain[i].start <= chain[i - 1].start
             /\ chain[i - 1].end <= chain[i].end
             /\ chain[i - 1] # chain[i]
=============================================================================
