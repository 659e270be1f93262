------------------------------ MODULE XsLookup ------------------------------
(***************************************************************************)
(* What the editor asks of a parsed XS file (src/internal/xs/ast.go): the  *)
(* call at a position, the nodes around it, the declaration of a name, the *)
(* sites a rename edits, the names in scope.  The file is the answer of    *)
(* XsParse, a position one of its column positions.                        *)
(***************************************************************************)
EXTENDS XsParser, FiniteSets

contains(r, pos)          == r.start <= pos /\ pos < r.end
rangeWithin(inner, outer) == outer.start <= inner.start /\ inner.end <= outer.end
span(r)                   == [start |-> r.start, end |-> r.end]

NoRange == [start |-> 0, end |-> 0]

\* The first element of a sequence that satisfies a test on it, as a singleton.
firstOf(seq, Test(_)) ==
    LET found == SelectSeq(seq, Test) IN IF found = <<>> THEN <<>> ELSE <<found[1]>>

------------------------------------------------------------------------------
(* Names and calls *)

\* The identifier under a position: none, or one occurrence.
occurrenceAt(f, pos) == firstOf(f.symbols, LAMBDA o : contains(o, pos))

\* Every occurrence of a name, in the order of the file.
References(f, name) ==
    SortSeq(SelectSeq(f.symbols, LAMBDA o : o.name = name), LAMBDA a, b : a.start < b.start)

ReferencesAt(f, pos) ==
    LET o == occurrenceAt(f, pos) IN IF o = <<>> THEN <<>> ELSE References(f, o[1].name)

NoCall == [callee |-> "", lparen |-> 0, argIndex |-> 0, onArg |-> FALSE]

\* Mutant: of the calls around a position the first one.
CallAtOuter(f, pos) ==
    LET silent    == \E i \in DOMAIN f.strings : contains(f.strings[i], pos)
        enclosing == {c \in ToSet(f.calls) : c.calleeAt <= pos /\ pos < c.argEnd}
        call      == CHOOSE c \in enclosing : \A d \in enclosing : c.lparen <= d.lparen
        passed    == SelectSeq(call.commas, LAMBDA end : end <= pos)
        onArg     == pos > call.lparen
    IN IF silent \/ enclosing = {} THEN NoCall
       ELSE [callee |-> call.callee, lparen |-> call.lparen,
             argIndex |-> IF onArg THEN Len(passed) ELSE 0, onArg |-> onArg]

\* The innermost call around a position: of the calls that span it the one
\* opened last, and the commas of that call that end before the position.
CallAt(f, pos) ==
    LET silent    == \E i \in DOMAIN f.strings : contains(f.strings[i], pos)
        enclosing == {c \in ToSet(f.calls) : c.calleeAt <= pos /\ pos < c.argEnd}
        call      == CHOOSE c \in enclosing : \A d \in enclosing : d.lparen <= c.lparen
        passed    == SelectSeq(call.commas, LAMBDA end : end <= pos)
        onArg     == pos > call.lparen
    IN IF silent \/ enclosing = {} THEN NoCall
       ELSE [callee |-> call.callee, lparen |-> call.lparen,
             argIndex |-> IF onArg THEN Len(passed) ELSE 0, onArg |-> onArg]

------------------------------------------------------------------------------
(* The nodes around a position, innermost first *)

RECURSIVE xsExprChain(_, _), enclosingXsStmts(_, _)

\* The nodes of one expression, or none.
xsExprChain(e, pos) ==
    LET chains == [i \in DOMAIN e.children |-> xsExprChain(e.children[i], pos)]
        inner  == firstOf(chains, LAMBDA c : c # <<>>)
    IN CASE ~contains(e, pos) -> <<>>
         [] contains(e, pos) /\ inner # <<>> -> Append(inner[1], span(e))
         [] OTHER -> <<span(e)>>

\* The statements of a list, through the first one that contains the position.
enclosingXsStmts(stmts, pos) ==
    LET st == firstOf(stmts, LAMBDA x : contains(x, pos))
    IN IF st = <<>> THEN <<>> ELSE Append(enclosingXsStmts(st[1].body, pos), st[1])

\* The expression of a statement that contains the position.
xsExprMembers(st, pos) ==
    LET found == firstOf(st.exprs, LAMBDA e : contains(e, pos))
    IN IF found = <<>> THEN <<>> ELSE xsExprChain(found[1], pos)

\* Mutant: a statement that is its expression stays twice.
dedupChainNever(chain) == chain

dedupChain(chain) ==
    FoldLeft(LAMBDA out, r : IF out # <<>> /\ Last(out) = r THEN out ELSE Append(out, r),
             <<>>, chain)

EnclosingRanges(f, pos) ==
    LET decl  == firstOf(f.decls, LAMBDA d : contains(d, pos))
        stmts == enclosingXsStmts(decl[1].body, pos)
        exprs == IF stmts = <<>> THEN <<>> ELSE xsExprMembers(stmts[1], pos)
        outer == [i \in DOMAIN stmts |-> span(stmts[i])]
    IN IF decl = <<>> THEN <<>> ELSE dedupChain(exprs \o outer \o <<span(decl[1])>>)

------------------------------------------------------------------------------
(* Declarations *)

\* The first occurrence of a name in a range that does not begin at skip.
firstOccurrence(f, name, within, skip) ==
    firstOf(f.symbols, LAMBDA o : o.name = name /\ rangeWithin(o, within) /\ o.start # skip)

\* The token that names a declaration; the whole of it without one.
declNameRange(f, decl) ==
    LET o == firstOccurrence(f, decl.name, decl, -1)
    IN IF o = <<>> THEN span(decl) ELSE span(o[1])

\* The token of a parameter: the name of its function is not it.
paramNameRange(f, decl, name) ==
    LET own == firstOccurrence(f, name, decl, -1)
    IN firstOccurrence(f, name, decl,
                       IF decl.name = name /\ own # <<>> THEN own[1].start ELSE -1)

\* The names a local declaration declares, with their tokens.
declaredLocals(st) ==
    {IF e.kind = "ident" THEN e ELSE e.children[1] :
       e \in {x \in ToSet(st.exprs) :
                \/ x.kind = "ident"
                \/ x.kind = "binary" /\ x.value = "=" /\ x.children[1].kind = "ident"}}

\* A declaration site of a name with its scope, [start, scopeEnd).
Candidate(range, scopeEnd, depth, k) ==
    [start |-> range.start, end |-> range.end, scopeEnd |-> scopeEnd, depth |-> depth,
     kind |-> k]

\* Mutant: a scope does not end.
coversAfter(c, at) == c.start <= at

covers(c, at) == c.start <= at /\ at < c.scopeEnd

\* A deeper scope first, then the nearest declaration before the occurrence.
better(c, d) == IF c.depth # d.depth THEN c.depth > d.depth ELSE c.start > d.start

RECURSIVE collectLocals(_, _, _, _)
collectLocals(name, stmts, scopeEnd, depth) ==
    UNION {(IF st.kind = "decl"
              THEN {Candidate(e, scopeEnd, depth, "local") :
                      e \in {x \in declaredLocals(st) : x.value = name}}
              ELSE {})
             \cup collectLocals(name, st.body, st.end, depth + 1) : st \in ToSet(stmts)}

paramNames(d) == {p.name : p \in ToSet(d.params)}

\* Every declaration of a name.
declarers(f, name) ==
    UNION {
      (IF d.kind # "include" /\ d.name = name
         THEN {Candidate(declNameRange(f, d), eofPos, 0, d.kind)} ELSE {})
        \cup {Candidate(o, d.end, 1, "param") :
                o \in IF name \in paramNames(d) THEN ToSet(paramNameRange(f, d, name))
                                                  ELSE {}}
        \cup collectLocals(name, d.body, d.end, 1) : d \in ToSet(f.decls)}

\* The declaration an occurrence means: none, or one.
best(inScope) ==
    IF inScope = {} THEN {} ELSE {CHOOSE c \in inScope : \A d \in inScope : ~better(d, c)}
bestCandidate(f, occ) == best({c \in declarers(f, occ.name) : covers(c, occ.start)})

Definition(f, pos) ==
    {span(c) : c \in UNION {bestCandidate(f, o) : o \in ToSet(occurrenceAt(f, pos))}}

\* Every occurrence that means what the one under the position means.
sitesOf(f, name, binding) ==
    {[start |-> s.start, end |-> s.end, kind |-> binding.kind, decl |-> span(s) = span(binding)] :
       s \in {x \in ToSet(f.symbols) :
               x.name = name /\ \E c \in bestCandidate(f, x) : span(c) = span(binding)}}
RenameSites(f, pos) ==
    UNION {UNION {sitesOf(f, o.name, binding) : binding \in bestCandidate(f, o)} :
             o \in ToSet(occurrenceAt(f, pos))}

------------------------------------------------------------------------------
(* Names in scope *)

Named(name, k, range) == [name |-> name, kind |-> k, start |-> range.start, end |-> range.end]

RECURSIVE appendLocals(_, _, _)
\* Mutant: a local is offered after its first column only.
appendLocalsPast(stmts, scopeEnd, pos) ==
    UNION {(IF st.kind = "decl"
              THEN {Named(e.value, "local", e) :
                      e \in {x \in declaredLocals(st) : x.start < pos /\ pos < scopeEnd}}
              ELSE {})
             \cup appendLocals(st.body, st.end, pos) : st \in ToSet(stmts)}

appendLocals(stmts, scopeEnd, pos) ==
    UNION {(IF st.kind = "decl"
              THEN {Named(e.value, "local", e) :
                      e \in {x \in declaredLocals(st) : x.start <= pos /\ pos < scopeEnd}}
              ELSE {})
             \cup appendLocals(st.body, st.end, pos) : st \in ToSet(stmts)}

appendParams(f, d) ==
    {Named(name, "param", LET o == paramNameRange(f, d, name)
                          IN IF o = <<>> THEN d ELSE o[1]) : name \in paramNames(d)}

\* The outline: the declarations that have names, the includes left out.
Symbols(f) ==
    {Named(d.name, d.kind, declNameRange(f, d)) :
       d \in {x \in ToSet(f.decls) : x.kind # "include"}}

\* The names a completion offers: only functions have parameters and locals.
VisibleAt(f, pos) ==
    LET silent    == \E i \in DOMAIN f.strings : contains(f.strings[i], pos)
        functions == {d \in ToSet(f.decls) : d.kind = "function" /\ contains(d, pos)}
    IN IF silent THEN {}
       ELSE Symbols(f) \cup UNION {appendParams(f, d) \cup appendLocals(d.body, d.end, pos) :
                                     d \in functions}
=============================================================================
