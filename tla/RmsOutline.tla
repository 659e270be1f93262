------------------------------ MODULE RmsOutline ------------------------------
(***************************************************************************)
(* The outline of a parsed RMS file and its foldable regions               *)
(* (src/internal/rms/ast.go): the tree of RmsWalk as nested symbols, the   *)
(* XS blocks inserted among them.                                          *)
(***************************************************************************)
EXTENDS RmsLookup

\* Numbers in their order.
inOrder(ns) == SetToSortSeq(ns, <)

Symbol(k, id, r, children) ==
    [kind |-> k, id |-> id, start |-> r.start, end |-> r.end, children |-> children]

\* A statement with its children, which have greater numbers.
stmtSymbols ==
    LET of[n \in DOMAIN nodes] ==
          Symbol("command", n, nodes[n],
                 FoldLeft(LAMBDA out, c : Append(out, of[c]), <<>>, inOrder(Children(nodes, n))))
    IN of

xsBlockSymbol(b) == Symbol("xs", b, xsBlocks[b], <<>>)

\* Mutant: a block goes to the end of its section.
insertSymbolLast(symbols, new) == Append(symbols, new)

\* Before the first node that begins after it.
insertSymbol(symbols, new) ==
    LET later == {i \in DOMAIN symbols : symbols[i].start > new.start}
    IN InsertAt(symbols, IF later = {} THEN Len(symbols) + 1 ELSE Min(later), new)

withBlocks(symbols, blocks) ==
    FoldLeft(LAMBDA out, b : insertSymbol(out, xsBlockSymbol(b)), symbols, inOrder(blocks))

startsIn(b, s)  == inRange(sects[s], At(xsBlocks[b].start, "word"))
namedSections   == {s \in DOMAIN sects : sects[s].name # "global"}

\* A named section with its statements and its blocks; of a global one only the
\* statements, and the blocks of no named section are inserted at the end.
sectionSymbols(s, stmts) ==
    IF s \in namedSections
      THEN <<Symbol("section", s, sects[s],
                    withBlocks(stmts, {b \in DOMAIN xsBlocks : startsIn(b, s)}))>>
      ELSE stmts

\* The outline from the symbols of the statements.
outline(of) ==
    withBlocks(FoldLeft(LAMBDA out, s :
                          out \o sectionSymbols(s, FoldLeft(LAMBDA in, n : Append(in, of[n]), <<>>,
                                                            inOrder(Statements0(s)))),
                        <<>>, [s \in DOMAIN sects |-> s]),
               {b \in DOMAIN xsBlocks : \A s \in namedSections : ~startsIn(b, s)})

Symbols == outline(stmtSymbols)

\* The outline, depth first.
RECURSIVE flat(_)
flat(symbols) ==
    FoldLeft(LAMBDA out, s : out \o <<s>> \o flat(s.children), <<>>, symbols)

\* The foldable regions: the nodes of more than one line.
FoldingRanges == SelectSeq(flat(Symbols), LAMBDA s : s.end > s.start)

------------------------------------------------------------------------------
(* Properties *)

ids(symbols, k) == {symbols[i].id : i \in {j \in DOMAIN symbols : symbols[j].kind = k}}

\* The outline has every statement, every named section and every block once,
\* brothers in the order they begin, and a block that is not empty stands in
\* the section of its directive (Symbols, insertSymbol, ast.go:374-477).
OutlineExact ==
    LET all == flat(Symbols)
        once(k, expected) ==
          /\ ids(all, k) = expected
          /\ Cardinality({i \in DOMAIN all : all[i].kind = k}) = Cardinality(expected)
        ordered(brothers) ==
          \A i, j \in DOMAIN brothers : i < j => brothers[i].start <= brothers[j].start
    IN done =>
         /\ once("command", DOMAIN nodes)
         /\ once("section", namedSections)
         /\ once("xs", DOMAIN xsBlocks)
         /\ ordered(Symbols) /\ \A i \in DOMAIN all : ordered(all[i].children)
         /\ \A s \in ToSet(all) : s.kind = "section" =>
              \A b \in ids(s.children, "xs") :
                xsBlocks[b].start < xsBlocks[b].end =>
                  inRange(sects[s.id], At(xsBlocks[b].start - 1, "word"))
==============================================================================
