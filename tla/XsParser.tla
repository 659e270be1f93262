------------------------------ MODULE XsParser ------------------------------
(***************************************************************************)
(* The XS parser (src/internal/xs/parse.go): recursive descent over the    *)
(* tokens of a script, with recovery.  A token is its text; the names that *)
(* no grammar rule knows stand for every identifier.  The parser is pure,  *)
(* so every production is an operator from the state of the parse to its   *)
(* next state and its result.                                              *)
(*                                                                         *)
(* A position is a number: token i begins at 2i, ends at 2i + 1, and a     *)
(* blank of one column follows it.  Ranges are half-open.                  *)
(***************************************************************************)
EXTENDS Integers, Sequences, SequencesExt, TLC

typeWords  == {"int", "float", "string", "void"}
forCondOps == {"<"}
unaryOps   == {"-", "++"}
assignOps  == {"="}

\* The operators and the punctuation; every other text is a word, the number
\* "1" or the string "str".
Ops == {"(", ")", "{", "}", "[", "]", ";", ",", ":", "."}
         \cup forCondOps \cup unaryOps \cup assignOps

kind(t) == CASE t \in Ops -> "op" [] t = "1" -> "number" [] t = "str" -> "string"
             [] t = "eof" -> "eof" [] OTHER -> "ident"

startsExpr(t) == t \in unaryOps \cup {"("}
binaryPrec(t) == CASE t \in assignOps -> 1 [] t \in forCondOps -> 8 [] t = "-" -> 10
                   [] OTHER -> 0

startOf(i) == 2 * i
endOf(i)   == 2 * i + 1

\* Closes top-level scopes and unterminated calls: after every real position.
eofPos == 1000000

Larger(a, b) == IF b > a THEN b ELSE a

------------------------------------------------------------------------------
(* The state of a parse *)

xparser(tokens) == [toks |-> tokens, pos |-> 1, diags |-> <<>>, syms |-> <<>>,
                    calls |-> <<>>, decls |-> <<>>, open |-> FALSE]

peekAhead(s, n) == IF s.pos + n \in DOMAIN s.toks THEN s.toks[s.pos + n] ELSE "eof"
peek(s) == peekAhead(s, 0)
next(s) == IF peek(s) = "eof" THEN s ELSE [s EXCEPT !.pos = @ + 1]
isWord(s) == kind(peek(s)) = "ident"

here(s)    == startOf(s.pos)
hereEnd(s) == IF peek(s) = "eof" THEN here(s) ELSE endOf(s.pos)

reportAt(s, start, end) == [s EXCEPT !.diags = Append(@, [start |-> start, end |-> end])]
report(s) == reportAt(s, here(s), hereEnd(s))

\* A name occurrence, for the lookups.
record(s) == [s EXCEPT !.syms =
                Append(@, [name |-> peek(s), start |-> here(s), end |-> hereEnd(s)])]

\* Consumes a token of punctuation, or reports what stands there instead.
expect(s, t) == IF peek(s) = t THEN next(s) ELSE report(s)

\* Consumes a semicolon; its end, or the fallback without a semicolon.
expectSemi(s, fallback) ==
    CASE peek(s) = ";"          -> [s |-> next(s), end |-> hereEnd(s)]
      [] peek(s) \in {"eof", "}"} -> [s |-> s, end |-> fallback]
      [] OTHER                  -> [s |-> report(s), end |-> fallback]

RECURSIVE skipBlock(_, _), syncStmt(_), syncDecl(_)

skipBlock(s, depth) ==
    CASE depth = 0 \/ peek(s) = "eof" -> s
      [] depth > 0 /\ peek(s) = "{"   -> skipBlock(next(s), depth + 1)
      [] depth > 0 /\ peek(s) = "}"   -> skipBlock(next(s), depth - 1)
      [] OTHER                        -> skipBlock(next(s), depth)

\* Mutant: a broken statement takes the rest of its block along, brace and all.
syncStmtPast(s) ==
    CASE peek(s) = "eof" -> s
      [] peek(s) = "}"   -> next(s)
      [] peek(s) = "{"   -> skipBlock(next(s), 1)
      [] OTHER           -> syncStmt(next(s))

\* To just after the next semicolon, past the next block, or up to the end of
\* the enclosing block.
syncStmt(s) ==
    CASE peek(s) \in {"eof", "}"} -> s
      [] peek(s) = ";"          -> next(s)
      [] peek(s) = "{"          -> skipBlock(next(s), 1)
      [] OTHER                  -> syncStmt(next(s))

\* The same between declarations, where a stray closing brace is dropped.
syncDecl(s) ==
    CASE peek(s) = "eof"      -> s
      [] peek(s) \in {";", "}"} -> next(s)
      [] peek(s) = "{"        -> skipBlock(next(s), 1)
      [] OTHER                -> syncDecl(next(s))

------------------------------------------------------------------------------
(* Expressions *)

Expr(k, value, start, end, children) ==
    [kind |-> k, value |-> value, start |-> start, end |-> end, children |-> children]

NoExpr == Expr("none", "", 0, 0, <<>>)

\* The token that is next, as a node.
leaf(s, k) == Expr(k, peek(s), here(s), hereEnd(s), <<>>)

\* The result of a production: the next state and, unless it failed, a node.
Ok(s, e) == [s |-> s, ok |-> TRUE, e |-> e]
Fail(s)  == [s |-> s, ok |-> FALSE, e |-> NoExpr]

\* The result of a list of them.
List(s, out) == [s |-> s, ok |-> TRUE, out |-> out]
listed(l, r) == List(r.s, IF r.ok THEN Append(l.out, r.e) ELSE l.out)

Binary(op, l, r) == Expr("binary", op, l.start, r.end, <<l, r>>)

\* The end of the last node of a list, or a fallback for an empty one.
lastEnd(list, fallback) == IF list = <<>> THEN fallback ELSE Last(list).end

identName(e) == IF e.kind = "ident" THEN e.value ELSE ""

openCall(s, operand) ==
    [s EXCEPT !.calls = Append(@, [callee |-> identName(operand),
                                   calleeAt |-> operand.start, lparen |-> here(s),
                                   argEnd |-> 0, commas |-> <<>>])]

\* Call 0 is none: the arguments of an event.
endCall(s, call, end) == IF call = 0 THEN s ELSE [s EXCEPT !.calls[call].argEnd = end]
noteComma(s, call) ==
    IF call = 0 THEN s ELSE [s EXCEPT !.calls[call].commas = Append(@, hereEnd(s))]

RECURSIVE parseBinary(_, _), climb(_, _), joined(_, _, _), parseUnary(_), parsePostfix(_),
          postfix(_), parsePrimary(_), operandsOf(_), parseArgs(_, _), argument(_, _, _),
          afterArgument(_, _, _)

parseExpr(s) == parseBinary(s, 1)

\* The operators that bind at least as strongly as minPrec; assignments group
\* to the right, the others to the left.  A missing right operand ends it.
rightPrec(op) == IF op \in assignOps THEN binaryPrec(op) ELSE binaryPrec(op) + 1

parseBinary(s, minPrec) == climb(parseUnary(s), minPrec)

climb(l, minPrec) ==
    IF l.ok /\ binaryPrec(peek(l.s)) >= minPrec
      THEN joined(l, parseBinary(next(l.s), rightPrec(peek(l.s))), minPrec)
      ELSE l

joined(l, r, minPrec) ==
    IF r.ok THEN climb(Ok(r.s, Binary(peek(l.s), l.e, r.e)), minPrec) ELSE Ok(r.s, l.e)

applied(s, r) ==
    IF r.ok THEN Ok(r.s, Expr("unary", peek(s), here(s), r.e.end, <<r.e>>))
            ELSE Ok(r.s, leaf(s, "unary"))

parseUnary(s) ==
    IF peek(s) \in unaryOps THEN applied(s, parseUnary(next(s))) ELSE parsePostfix(s)

parsePostfix(s) == postfix(parsePrimary(s))

\* A node over an operand and what follows it.
over(operand, k, value, end, children) ==
    Expr(k, value, operand.start, Larger(operand.end, end), children)

called(operand, args) ==
    Ok(args.s, over(operand, "call", identName(operand), lastEnd(args.out, 0), args.out))
memberOf(operand, m) ==
    Ok(next(m), over(operand, "binary", ".", hereEnd(m), <<operand, leaf(m, "ident")>>))
indexed(operand, i) ==
    Ok(expect(i.s, "]"), over(operand, "binary", "[]", i.e.end, <<operand, i.e>>))
incremented(operand, s) ==
    Ok(next(s), over(operand, "unary", "++post", hereEnd(s), <<operand>>))

\* Calls, members, indices and increments; only a call opens a call record.
postfix(r) ==
    CASE r.ok /\ peek(r.s) = "(" ->
           postfix(called(r.e, parseArgs(List(next(openCall(r.s, r.e)), <<>>),
                                         Len(r.s.calls) + 1)))
      [] r.ok /\ peek(r.s) = "."  -> postfix(memberOf(r.e, next(r.s)))
      [] r.ok /\ peek(r.s) = "["  -> postfix(indexed(r.e, parseExpr(next(r.s))))
      [] r.ok /\ peek(r.s) = "++" -> postfix(incremented(r.e, r.s))
      [] OTHER -> r

\* The first expression of a parenthesis, and those after it.
firstOperand(r) == [s |-> r.s, ok |-> r.ok, out |-> <<r.e>>]
operandsOf(l) ==
    IF l.ok /\ peek(l.s) = "," THEN operandsOf(listed(l, parseExpr(next(l.s)))) ELSE l

\* A group answers the expression in it; three components are a vector, and
\* another number of them is reported.  A missing operand counts as none.
grouped(open, l, several) ==
    CASE ~l.ok -> Fail(expect(l.s, ")"))
      [] l.ok /\ ~several -> Ok(expect(l.s, ")"), l.out[1])
      [] l.ok /\ several /\ Len(l.out) = 3 ->
           Ok(expect(l.s, ")"), Expr("vector", "", open, hereEnd(l.s), l.out))
      [] OTHER -> Ok(reportAt(expect(l.s, ")"), open, hereEnd(l.s)), l.out[1])

parenthesis(open, first) == grouped(open, operandsOf(first), peek(first.s) = ",")

\* A token that begins no expression is reported, and consumed.
parsePrimary(s) ==
    CASE kind(peek(s)) \in {"number", "string"} -> Ok(next(s), leaf(s, "literal"))
      [] isWord(s)     -> Ok(next(record(s)), leaf(s, "ident"))
      [] peek(s) = "(" -> parenthesis(here(s), firstOperand(parseExpr(next(s))))
      [] peek(s) = "{" -> Ok(skipBlock(next(s), 1), [leaf(s, "literal") EXCEPT !.value = "{}"])
      [] OTHER         -> Fail(next(report(s)))

\* The arguments of a call, or of an event (call 0): every comma of the list
\* itself is noted, the end of the file ends the list at eofPos.
parseArgs(l, call) ==
    CASE peek(l.s) = ")"   -> [l EXCEPT !.s = next(endCall(@, call, hereEnd(@)))]
      [] peek(l.s) = "eof" -> [l EXCEPT !.s = endCall(report(@), call, eofPos), !.ok = FALSE]
      [] OTHER             -> argument(l, parseExpr(l.s), call)

\* One argument read: the next token ends it, or is stepped over.
argument(l, r, call) == afterArgument(listed(l, r), r.ok, call)

afterArgument(l, ok, call) ==
    CASE ~ok /\ kind(peek(l.s)) = "op" /\ peek(l.s) \notin {",", ")"} ->
           parseArgs([l EXCEPT !.s = next(@)], call)
      [] peek(l.s) = "," -> parseArgs([l EXCEPT !.s = next(noteComma(@, call))], call)
      [] peek(l.s) = ")" -> parseArgs(l, call)
      [] OTHER           -> parseArgs([l EXCEPT !.s = next(report(@))], call)

------------------------------------------------------------------------------
(* Statements *)

Stmt(k, exprs, body, start, end) ==
    [kind |-> k, exprs |-> exprs, body |-> body, start |-> start, end |-> end]

\* The result of a statement; one that ends at its semicolon.
Done(s, st) == [s |-> s, st |-> st]
closed(semi, k, exprs, body, start) == Done(semi.s, Stmt(k, exprs, body, start, semi.end))

\* The result of a block; its end is that of the statement that reaches
\* furthest.
Block(s, body) == [s |-> s, body |-> body]
blockEnd(start, body) == FoldLeft(LAMBDA end, st : Larger(end, st.end), start, body)

startsLocal(s) == isWord(s) /\ peek(s) \in typeWords \cup {"const"}
atLabel(s)     == peek(s) \in {"case", "default"}

\* Type words; an unknown word is taken for one.
RECURSIVE typeWordsFrom(_)
typeWordsFrom(s) == IF startsLocal(s) THEN typeWordsFrom(next(s)) ELSE s
parseTypeWords(s) == IF ~startsLocal(s) /\ isWord(s) THEN next(s) ELSE typeWordsFrom(s)

\* The type they spell.
typeText(s, after) == SubSeq(s.toks, s.pos, after.pos - 1)

\* One declarator: its name, or the name and its value.
initialised(name, r) == [s |-> r.s, item |-> IF r.ok THEN Binary("=", name, r.e) ELSE name]
valueOf(name, s) ==
    IF peek(s) = "=" THEN initialised(name, parseExpr(next(s))) ELSE [s |-> s, item |-> name]
declarator(s) == valueOf(leaf(s, "ident"), next(record(s)))

\* A wrong token after a comma is reported and consumed.
RECURSIVE declarators(_, _), declaratorsAfter(_, _)
declarators(s, items) ==
    IF isWord(s) THEN declaratorsAfter(items, declarator(s)) ELSE List(next(report(s)), items)
declaratorsAfter(items, d) ==
    IF peek(d.s) = "," THEN declarators(next(d.s), Append(items, d.item))
                       ELSE List(d.s, Append(items, d.item))

localDecl(start, list) ==
    closed(expectSemi(list.s, lastEnd(list.out, start)), "decl", list.out, <<>>, start)
parseLocalDecl(s) == localDecl(here(s), declarators(parseTypeWords(s), <<>>))

\* An expression statement; a token that begins none is skipped to the next
\* boundary.
exprStmt(s, r) ==
    IF r.ok THEN closed(expectSemi(r.s, r.e.end), "expr", <<r.e>>, <<>>, r.e.start)
            ELSE Done(syncStmt(r.s), Stmt("expr", <<>>, <<>>, here(s), hereEnd(s)))
parseExprStmt(s) == exprStmt(s, parseExpr(s))

\* A part in parentheses after a keyword: the parts read so far, their end.
Heading(s, exprs, end) == [s |-> s, exprs |-> exprs, end |-> end]
headOf(r, end) == IF r.ok THEN Heading(expect(r.s, ")"), <<r.e>>, r.e.end)
                          ELSE Heading(expect(r.s, ")"), <<>>, end)
parenthesised(s, end) ==
    IF peek(s) = "(" THEN headOf(parseExpr(next(s)), end) ELSE Heading(s, <<>>, end)

\* A part of a for clause is kept when it reaches past the parts before it.
kept(head, r) ==
    IF r.ok /\ r.e.end > head.end THEN Heading(r.s, Append(head.exprs, r.e), r.e.end)
                                  ELSE [head EXCEPT !.s = r.s]
forPart(head, ends) == IF peek(head.s) \in ends THEN head ELSE kept(head, parseExpr(head.s))

\* The variable that the parts of a for clause assign, the last one first.
loopVars(exprs) ==
    LET assigns(e) == e.kind = "binary" /\ e.value = "=" /\ e.children[1].kind = "ident"
    IN Reverse(SelectSeq(exprs, assigns))

\* A condition may begin with its operator, and means the loop variable.
comparing(head, left, r) ==
    IF r.ok THEN Heading(r.s, Append(head.exprs, Binary(peek(head.s), left, r.e)),
                      Larger(head.end, r.e.end))
            ELSE [head EXCEPT !.s = r.s]
forCond(head) ==
    IF peek(head.s) \in forCondOps /\ loopVars(head.exprs) # <<>>
      THEN comparing(head, loopVars(head.exprs)[1].children[1], parseExpr(next(head.s)))
      ELSE forPart(head, {";"})

\* The clause of a for: a declaration or an expression, a condition, a step.
forStep(head) ==
    IF peek(head.s) = ")" THEN head
    ELSE forPart([head EXCEPT !.s = expect(@, ";")], {";", ")"})
clauseOf(head, init) == [s |-> expect(head.s, ")"), exprs |-> head.exprs, init |-> init]
forTyped(decl) == clauseOf(forStep(forCond(Heading(decl.s, <<>>, decl.st.end))), <<decl.st>>)
forPlain(head) == clauseOf(forStep(forCond([head EXCEPT !.s = expect(@, ";")])), <<>>)
forClause(s) ==
    CASE peek(s) # "(" -> [s |-> s, exprs |-> <<>>, init |-> <<>>]
      [] peek(s) = "(" /\ startsLocal(next(s)) -> forTyped(parseLocalDecl(next(s)))
      [] OTHER -> forPlain(forPart(Heading(next(s), <<>>, here(s)), {";"}))

\* A statement that consumed nothing is stepped over, so that a block ends.
progress(before, after) == IF after.pos = before.pos THEN next(after) ELSE after

\* A block with one more statement.
grown(b, r) == Block(progress(b.s, r.s), Append(b.body, r.st))

RECURSIVE parseStmt(_), blockFrom(_), caseFrom(_), switchFrom(_), parseKeyword(_)

blockFrom(b) == IF peek(b.s) \in {"eof", "}"} THEN [b EXCEPT !.s = expect(@, "}")]
                                              ELSE blockFrom(grown(b, parseStmt(b.s)))
parseBlock(s) == blockFrom(Block(next(s), <<>>))

caseFrom(b) == IF peek(b.s) \in {"eof", "}"} \/ atLabel(b.s) THEN b
                                                             ELSE caseFrom(grown(b, parseStmt(b.s)))

caseOf(start, exprs, end, b) ==
    Done(b.s, Stmt("case", exprs, b.body, start, lastEnd(b.body, end)))
labelled(s, label) ==
    caseOf(here(s), IF label.ok THEN <<label.e>> ELSE <<>>,
           IF label.ok THEN label.e.end ELSE hereEnd(s),
           caseFrom(Block(expect(label.s, ":"), <<>>)))
parseCase(s) ==
    IF peek(s) = "case" THEN labelled(s, parseExpr(next(s)))
    ELSE caseOf(here(s), <<>>, hereEnd(s), caseFrom(Block(expect(next(s), ":"), <<>>)))

\* Statements before the first label are kept.
switchFrom(b) ==
    CASE peek(b.s) \in {"eof", "}"} -> [b EXCEPT !.s = expect(@, "}")]
      [] atLabel(b.s) -> switchFrom(grown(b, parseCase(b.s)))
      [] OTHER        -> switchFrom(grown(b, parseStmt(b.s)))

ifElse(s, head, then, else) ==
    Done(else.s, Stmt("if", head.exprs, <<then.st, else.st>>, here(s), else.st.end))
ifAfter(s, head, then) ==
    IF peek(then.s) = "else" THEN ifElse(s, head, then, parseStmt(next(then.s)))
    ELSE Done(then.s, Stmt("if", head.exprs, <<then.st>>, here(s), then.st.end))
ifHead(s, head) == ifAfter(s, head, parseStmt(head.s))
parseIf(s) == ifHead(s, parenthesised(IF peek(next(s)) = "(" THEN next(s) ELSE report(next(s)),
                                      here(s)))

\* A loop: its head, then its body.
loop(k, start, exprs, init, body) ==
    Done(body.s, Stmt(k, exprs, Append(init, body.st), start, body.st.end))
whileHead(s, head) == loop("while", here(s), head.exprs, <<>>, parseStmt(head.s))
parseWhile(s) == whileHead(s, parenthesised(next(s), here(s)))
forHead(s, clause) == loop("for", here(s), clause.exprs, clause.init, parseStmt(clause.s))
parseFor(s) == forHead(s, forClause(next(s)))

doTail(s, body, head) ==
    closed(expectSemi(head.s, head.end), "do", head.exprs, <<body.st>>, here(s))
doBody(s, body) ==
    doTail(s, body, IF peek(body.s) = "while" THEN parenthesised(next(body.s), body.st.end)
                                              ELSE Heading(body.s, <<>>, body.st.end))
parseDo(s) == doBody(s, parseStmt(next(s)))

switchOf(s, head, b) ==
    Done(b.s, Stmt("switch", head.exprs, b.body, here(s), lastEnd(b.body, head.end)))
switchHead(s, head) ==
    IF peek(head.s) = "{" THEN switchOf(s, head, switchFrom(Block(next(head.s), <<>>)))
                          ELSE switchOf(s, head, Block(report(head.s), <<>>))
parseSwitch(s) == switchHead(s, parenthesised(next(s), here(s)))

returned(s, r) ==
    closed(expectSemi(r.s, IF r.ok THEN r.e.end ELSE hereEnd(s)),
           "return", IF r.ok THEN <<r.e>> ELSE <<>>, <<>>, here(s))
parseReturn(s) == returned(s, IF peek(next(s)) = ";" THEN Fail(next(s)) ELSE parseExpr(next(s)))

parseJump(s) == closed(expectSemi(next(s), hereEnd(s)), peek(s), <<>>, <<>>, here(s))

\* A section of a rule, `condition { }` or `condition: { }`.
section(s, b) == Done(b.s, Stmt(peek(s), <<>>, b.body, here(s), blockEnd(here(s), b.body)))
sectionBody(s, open) ==
    IF peek(open) = "{" THEN section(s, parseBlock(open))
    ELSE Done(open, Stmt(peek(s), <<>>, <<>>, here(s), hereEnd(s)))
parseRuleSection(s) ==
    sectionBody(s, IF peekAhead(s, 1) = ":" THEN next(next(s)) ELSE next(s))

nested(s, b) == Done(b.s, Stmt("block", <<>>, b.body, here(s), blockEnd(here(s), b.body)))

parseStmt(s) ==
    CASE peek(s) = "{" -> nested(s, parseBlock(s))
      [] peek(s) = ";" -> Done(next(s), Stmt("expr", <<>>, <<>>, here(s), hereEnd(s)))
      [] kind(peek(s)) \in {"number", "string"} \/ startsExpr(peek(s)) -> parseExprStmt(s)
      [] isWord(s) -> parseKeyword(s)
      [] OTHER -> Done(syncStmt(report(s)), Stmt("expr", <<>>, <<>>, here(s), hereEnd(s)))

\* A statement that begins with a word.
parseKeyword(s) ==
    CASE peek(s) = "if"     -> parseIf(s)
      [] peek(s) = "while"  -> parseWhile(s)
      [] peek(s) = "do"     -> parseDo(s)
      [] peek(s) = "for"    -> parseFor(s)
      [] peek(s) = "switch" -> parseSwitch(s)
      [] peek(s) = "return" -> parseReturn(s)
      [] peek(s) \in {"break", "continue"} -> parseJump(s)
      [] peek(s) \in {"condition", "action"} /\ peekAhead(s, 1) \in {"{", ":"} ->
           parseRuleSection(s)
      [] startsLocal(s) /\ kind(peekAhead(s, 1)) = "ident" -> parseLocalDecl(s)
      [] OTHER -> parseExprStmt(s)

------------------------------------------------------------------------------
(* Declarations *)

Decl(k, type, name, params, body, start, end) ==
    [kind |-> k, type |-> type, name |-> name, params |-> params, body |-> body,
     start |-> start, end |-> end]
NoType == <<>>

declare(s, d) == [s EXCEPT !.decls = Append(@, d)]

\* A declaration whose block is next: the block becomes its body, and it ends
\* with the statement that reaches furthest.
declareOpen(s, d) == [declare(s, d) EXCEPT !.open = TRUE]
filled(d, body)   == [d EXCEPT !.body = body, !.end = blockEnd(@, body)]
bodied(b) == [b.s EXCEPT !.open = FALSE, !.decls[Len(b.s.decls)] = filled(@, b.body)]

looksLikeDecl(s) == startsLocal(s) /\ kind(peekAhead(s, 1)) = "ident"

\* A declaration closed by a semicolon.
declareTo(semi, k, type, name, params, body, start) ==
    declare(semi.s, Decl(k, type, name, params, body, start, semi.end))

\* The value of a declared variable is kept as an assignment to its name.
initStmt(item) ==
    IF item.kind = "ident" THEN <<>>
    ELSE <<Stmt("decl", <<item>>, <<>>, item.start, item.end)>>

\* The parameters after the opening parenthesis; a token that is no name ends
\* the list and is left to the caller.
paramEnd(s)   == IF peek(s) = "," THEN next(s) ELSE s
paramValue(s) == IF peek(s) = "=" THEN parseExpr(next(s)).s ELSE s

RECURSIVE paramsFrom(_, _), paramNamed(_, _, _)
paramNamed(s, type, out) ==
    IF isWord(s) THEN paramsFrom(paramEnd(paramValue(next(record(s)))),
                                 Append(out, [name |-> peek(s), type |-> type]))
                 ELSE List(report(s), out)
paramTyped(s, name, out) == paramNamed(name, typeText(s, name), out)
paramsFrom(s, out) ==
    CASE peek(s) = ")"   -> List(next(s), out)
      [] peek(s) = "eof" -> List(report(s), out)
      [] OTHER           -> paramTyped(s, parseTypeWords(s), out)

parseParams(s) == paramsFrom(next(s), <<>>)

\* A function: a signature alone, or with its body.
signature(s, start, type, params) ==
    Decl("function", type, peek(s), params, <<>>, start, hereEnd(s))
signed(s, start, type, list) ==
    IF peek(list.s) = "{" THEN declareOpen(list.s, signature(s, start, type, list.out))
                          ELSE declare(expect(list.s, ";"), signature(s, start, type, list.out))
parseFunction(s, start, type) == signed(s, start, type, parseParams(next(record(s))))

\* The declarators of one type, a declaration each: the first begins at the
\* type, the others at their names, and the last one ends at the semicolon.
RECURSIVE parseVariables(_, _, _), variable(_, _, _, _)
variable(name, start, type, d) ==
    CASE peek(d.s) = "," /\ isWord(next(d.s)) ->
           parseVariables(declare(next(d.s), Decl("variable", type, name, <<>>, initStmt(d.item),
                                                  start, d.item.end)),
                          here(next(d.s)), type)
      [] peek(d.s) = "," /\ ~isWord(next(d.s)) ->
           declareTo(expectSemi(next(report(next(d.s))), d.item.end),
                     "variable", type, name, <<>>, initStmt(d.item), start)
      [] OTHER -> declareTo(expectSemi(d.s, d.item.end),
                            "variable", type, name, <<>>, initStmt(d.item), start)
parseVariables(s, start, type) == variable(peek(s), start, type, declarator(s))

\* A variable or a function, from its type to its semicolon or brace.
typedDecl(name, start, type) ==
    CASE ~isWord(name) -> syncDecl(next(report(name)))
      [] isWord(name) /\ peekAhead(name, 1) = "(" -> parseFunction(name, start, type)
      [] OTHER -> parseVariables(name, start, type)
declOfType(s, name) == typedDecl(name, here(s), typeText(s, name))
parseTypedDecl(s) == declOfType(s, parseTypeWords(s))

externValue(name, start, type, params, d) ==
    declareTo(expectSemi(d.s, d.item.end), "extern", type, peek(name), params,
              initStmt(d.item), start)
externNamed(name, start, type, list) ==
    externValue(name, start, type, list.out, valueOf(leaf(name, "ident"), list.s))
externParams(after) == IF peek(after) = "(" THEN parseParams(after) ELSE List(after, <<>>)
extern(name, start, type) ==
    IF isWord(name) THEN externNamed(name, start, type, externParams(next(record(name))))
                    ELSE syncDecl(report(name))
externTyped(s, name) == extern(name, here(s), typeText(next(s), name))
parseExtern(s) == externTyped(s, parseTypeWords(next(s)))

pathNamed(s) == kind(peek(s)) \in {"string", "ident"}
parseInclude(s) ==
    declareTo(expectSemi(next(IF pathNamed(next(s)) THEN next(s) ELSE report(next(s))),
                         hereEnd(next(s))),
              "include", NoType, IF pathNamed(next(s)) THEN peek(next(s)) ELSE "", <<>>, <<>>, here(s))

\* The modifiers of a rule are skipped.
RECURSIVE toBody(_)
toBody(s) == IF peek(s) \in {"eof", "{"} THEN s ELSE toBody(next(s))

ruleOf(name, start, end) == Decl("rule", NoType, name, <<>>, <<>>, start, end)
ruleOpen(name, start, end, open) ==
    IF peek(open) = "{" THEN declareOpen(open, ruleOf(name, start, end))
                        ELSE declare(reportAt(open, start, end), ruleOf(name, start, end))
parseRule(s) ==
    IF isWord(next(s))
      THEN ruleOpen(peek(next(s)), here(s), hereEnd(next(s)), toBody(next(record(next(s)))))
      ELSE ruleOpen("", here(s), here(s), toBody(next(s)))

\* The name of an event is the first identifier among its arguments.
eventArgsName(args) ==
    LET names == SelectSeq(args, LAMBDA e : e.kind = "ident")
    IN IF names = <<>> THEN "" ELSE names[1].value

eventOpen(s, list, end) ==
    IF peek(list.s) = "{"
      THEN declareOpen(list.s, Decl("event", NoType, eventArgsName(list.out), <<>>, <<>>, here(s), end))
    ELSE declareTo(expectSemi(list.s, end), "event", NoType, eventArgsName(list.out), <<>>, <<>>, here(s))
eventArgs(s, list) == eventOpen(s, list, lastEnd(list.out, here(s)))
\* Arguments that do not end name nothing.
answered(l) == IF l.ok THEN l ELSE List(l.s, <<>>)
parseEvent(s) ==
    eventArgs(s, IF peek(next(s)) = "(" THEN answered(parseArgs(List(next(next(s)), <<>>), 0))
                                        ELSE List(next(s), <<>>))

parseDecl(s) ==
    CASE peek(s) = ";"       -> next(s)
      [] peek(s) = "extern"  -> parseExtern(s)
      [] peek(s) = "include" -> parseInclude(s)
      [] peek(s) = "rule"    -> parseRule(s)
      [] peek(s) = "event"   -> parseEvent(s)
      [] looksLikeDecl(s)    -> parseTypedDecl(s)
      [] OTHER               -> syncDecl(report(s))

RECURSIVE declsFrom(_)
declsFrom(s) ==
    CASE s.open                        -> declsFrom(bodied(parseBlock(s)))
      [] ~s.open /\ peek(s) = "eof" -> s
      [] OTHER                         -> declsFrom(parseDecl(s))

\* The parsed file, with its reports in the order of their positions.
positionsOf(tokens, k) == SelectSeq([i \in DOMAIN tokens |-> i], LAMBDA i : kind(tokens[i]) = k)
parsed(s, strings) ==
    [decls |-> s.decls, symbols |-> s.syms, calls |-> s.calls,
     strings |-> [i \in DOMAIN strings |->
                    [start |-> startOf(strings[i]), end |-> endOf(strings[i])]],
     diags |-> SortSeq(s.diags, LAMBDA a, b : a.start < b.start)]

XsParse(tokens) == parsed(declsFrom(xparser(tokens)), positionsOf(tokens, "string"))
=============================================================================
