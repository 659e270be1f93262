------------------------------- MODULE RmsExpr -------------------------------
(***************************************************************************)
(* The expressions of an RMS line and their recovery                       *)
(* (src/internal/rms/parse.go, expressions to parseCall): precedence       *)
(* climbing over the tokens after a command or attribute name, where every *)
(* wrong token is reported and parsing goes on.  A token is its kind, a    *)
(* position the number of a token; a range is [start, end], both ends      *)
(* included, and the zero Expr of the code has the range [0, 0].           *)
(***************************************************************************)
EXTENDS Integers, Sequences, FiniteSets, FiniteSetsExt, SequencesExt

CONSTANT MaxTokens      \* the length of the longest line explored

VARIABLE toks           \* the value tokens of the line

Kinds == {"number", "word", "-", "*", "(", ")", ",", "unknown"}

kind(i) == IF i \in DOMAIN toks THEN toks[i] ELSE "eof"

operatorPrecedence(k) == CASE k = "-" -> 1 [] k = "*" -> 2 [] OTHER -> 0

(* A parse in progress is the cursor and the reports so far.  A result adds *)
(* the expression, or the offending token that was consumed.  `keeps` is    *)
(* history: the tokens an expression stands for.                            *)

Expr(k, start, end, keeps, children) ==
    [kind |-> k, start |-> start, end |-> end, keeps |-> keeps, children |-> children]

Zero == Expr("zero", 0, 0, {}, <<>>)

Ok(e, pos, diags)     == [ok |-> TRUE, e |-> e, bad |-> 0, pos |-> pos, diags |-> diags]
Fail(bad, pos, diags) == [ok |-> FALSE, e |-> Zero, bad |-> bad, pos |-> pos, diags |-> diags]

after(pos) == IF kind(pos) = "eof" THEN pos ELSE pos + 1

Report(diags, from, to) == Append(diags, [start |-> from, end |-> to])

\* The end of a token, or of the last consumed one at the end of the line.
reach(i, pos) == IF kind(i) = "eof" THEN pos - 1 ELSE i

RECURSIVE parseExpr(_, _, _), climb(_, _), parseCall(_, _), parsePrimary(_, _),
          parseGroup(_, _), parseUnary(_, _)

\* A unary operator without an operand is kept without one.
parseUnary(pos, diags) ==
    LET r == parseExpr(after(pos), diags, 3)
    IN IF r.ok
         THEN Ok(Expr("unary", pos, r.e.end, {pos} \cup r.e.keeps, <<r.e>>), r.pos, r.diags)
         ELSE LET at == IF kind(r.bad) = "eof" THEN pos ELSE r.bad
              IN Ok(Expr("unary", pos, pos, {pos}, <<>>), r.pos, Report(r.diags, at, at))

\* Mutant: a group that went wrong inside is not reported itself.
parseGroupSilent(pos, diags) ==
    LET r      == parseExpr(after(pos), diags, 1)
        closed == kind(r.pos) = ")"
        end    == IF closed THEN r.pos + 1 ELSE r.pos
        group  == [r.e EXCEPT !.keeps = @ \cup {pos, r.pos}]
    IN CASE ~r.ok ->
              Ok(r.e, r.pos, Report(r.diags, pos, reach(r.pos, r.pos)))
         [] r.ok /\ Len(r.diags) > Len(diags) -> Ok(r.e, end, r.diags)
         [] r.ok /\ Len(r.diags) = Len(diags) /\ ~closed ->
              Ok(r.e, end, Report(r.diags, pos, pos))
         [] OTHER -> Ok(group, end, r.diags)

\* A group answers its inner expression; a group that went wrong inside is
\* reported whole, one that only lacks its end is reported at its beginning.
parseGroup(pos, diags) ==
    LET r      == parseExpr(after(pos), diags, 1)
        closed == kind(r.pos) = ")"
        end    == IF closed THEN r.pos + 1 ELSE r.pos
        group  == [r.e EXCEPT !.keeps = @ \cup {pos, r.pos}]
    IN CASE ~r.ok ->
              Ok(r.e, r.pos, Report(r.diags, pos, reach(r.pos, r.pos)))
         [] r.ok /\ Len(r.diags) > Len(diags) ->
              Ok(r.e, end, Report(r.diags, pos, end - 1))
         [] r.ok /\ Len(r.diags) = Len(diags) /\ ~closed ->
              Ok(r.e, end, Report(r.diags, pos, pos))
         [] OTHER -> Ok(group, end, r.diags)

parsePrimary(pos, diags) ==
    LET leaf == Expr("leaf", pos, pos, {pos}, <<>>)
    IN CASE kind(pos) = "number" -> Ok(leaf, pos + 1, diags)
         [] kind(pos) = "word" /\ kind(pos + 1) # "(" -> Ok(leaf, pos + 1, diags)
         [] kind(pos) = "word" /\ kind(pos + 1) = "(" ->
              parseCall([leaf EXCEPT !.kind = "call"],
                        [open |-> pos + 1, pos |-> pos + 2, diags |-> diags])
         [] kind(pos) = "-" -> parseUnary(pos, diags)
         [] kind(pos) = "(" -> parseGroup(pos, diags)
         [] OTHER -> Fail(pos, after(pos), diags)

\* The arguments up to the closing parenthesis: a wrong token is reported and
\* left out, the end of the line leaves the call unclosed.
parseCall(call, at) ==
    IF kind(at.pos) = ")"
      THEN Ok([call EXCEPT !.end = at.pos, !.keeps = @ \cup {at.open, at.pos}],
              at.pos + 1, at.diags)
      ELSE LET r == parseExpr(at.pos, at.diags, 1)
           IN CASE ~r.ok /\ kind(r.bad) = "eof" ->
                     Ok(call, r.pos, Report(r.diags, at.open, at.open))
                [] ~r.ok /\ kind(r.bad) # "eof" ->
                     parseCall(call, [at EXCEPT !.pos = r.pos,
                                                !.diags = Report(r.diags, r.bad, r.bad)])
                [] OTHER ->
                     LET sep == IF kind(r.pos) = "," THEN {r.pos} ELSE {}
                     IN parseCall([call EXCEPT !.end = r.e.end,
                                               !.children = Append(@, r.e),
                                               !.keeps = @ \cup r.e.keeps \cup sep],
                                  [at EXCEPT !.pos = r.pos + Cardinality(sep),
                                             !.diags = r.diags])

\* Mutant: operators of one precedence group to the right.
climbRight(l, minPrec) ==
    LET prec == operatorPrecedence(kind(l.pos))
        r    == parseExpr(l.pos + 1, l.diags, prec)
        both == Expr(kind(l.pos), l.e.start, r.e.end,
                     l.e.keeps \cup {l.pos} \cup r.e.keeps, <<l.e, r.e>>)
    IN IF prec = 0 \/ prec < minPrec
         THEN l
         ELSE IF r.ok
           THEN climb(Ok(both, r.pos, r.diags), minPrec)
           ELSE Ok(l.e, r.pos, Report(r.diags, l.pos, reach(r.bad, r.pos)))

\* The operators that bind at least as strongly as minPrec, from the left.
climb(l, minPrec) ==
    LET prec == operatorPrecedence(kind(l.pos))
        r    == parseExpr(l.pos + 1, l.diags, prec + 1)
        both == Expr(kind(l.pos), l.e.start, r.e.end,
                     l.e.keeps \cup {l.pos} \cup r.e.keeps, <<l.e, r.e>>)
    IN IF prec = 0 \/ prec < minPrec
         THEN l
         ELSE IF r.ok
           THEN climb(Ok(both, r.pos, r.diags), minPrec)
           ELSE Ok(l.e, r.pos, Report(r.diags, l.pos, reach(r.bad, r.pos)))

parseExpr(pos, diags, minPrec) ==
    LET l == parsePrimary(pos, diags)
    IN IF l.ok THEN climb(l, minPrec) ELSE l

\* All the values of a line; a comma after a value is dropped.
RECURSIVE expressions(_, _)
expressions(out, at) ==
    IF kind(at.pos) = "eof"
      THEN [values |-> out, diags |-> at.diags, commas |-> at.commas]
      ELSE LET r   == parseExpr(at.pos, at.diags, 1)
               sep == IF kind(r.pos) = "," THEN {r.pos} ELSE {}
           IN IF r.ok
                THEN expressions(Append(out, r.e),
                                 [pos    |-> r.pos + Cardinality(sep),
                                  diags  |-> r.diags,
                                  commas |-> at.commas \cup sep])
                ELSE expressions(out, [at EXCEPT !.pos = r.pos,
                                                 !.diags = Report(r.diags, r.bad, r.bad)])

Parsed == expressions(<<>>, [pos |-> 1, diags |-> <<>>, commas |-> {}])

------------------------------------------------------------------------------
(* Every line, one token at a time. *)

Init == toks = <<>>
Next == Len(toks) < MaxTokens /\ \E k \in Kinds : toks' = Append(toks, k)
Spec == Init /\ [][Next]_toks

------------------------------------------------------------------------------
(* Properties *)

\* An operand written in parentheses.
grouped(e) == e.keeps # {} /\ Min(e.keeps) < e.start

RECURSIVE Shaped(_)
Shaped(e) ==
    /\ \A c \in DOMAIN e.children : Shaped(e.children[c])
    /\ e.kind \in {"-", "*"} =>
         LET l == e.children[1]
             r == e.children[2]
             p == operatorPrecedence(e.kind)
         IN /\ \A i \in l.keeps, j \in r.keeps : i < j
            /\ l.kind \in {"-", "*"} /\ ~grouped(l) => operatorPrecedence(l.kind) >= p
            /\ r.kind \in {"-", "*"} /\ ~grouped(r) => operatorPrecedence(r.kind) > p
    /\ e.kind = "unary" /\ e.children # <<>> =>
         ~(e.children[1].kind \in {"-", "*"} /\ ~grouped(e.children[1]))
    /\ e.start <= e.end
    /\ \A c \in DOMAIN e.children :
         e.start <= e.children[c].start /\ e.children[c].end <= e.end

\* No token is lost: each one is kept by a value of the line, separates two
\* values, or lies in the range of a report.  And on a line without reports every
\* value has the shape of its text: operators bind by precedence and to the left
\* unless parentheses say otherwise, and the range of an operand lies in the
\* range of its operation.  A formatter may print such values and keep every
\* byte (parseExpr and parsePrimary, parse.go:1512-1661; parse_test.go:1203-1206).
ValuesExact ==
    LET p == Parsed
        kept(i) == \/ i \in p.commas
                   \/ \E v \in DOMAIN p.values : i \in p.values[v].keeps
                   \/ \E d \in DOMAIN p.diags : p.diags[d].start <= i /\ i <= p.diags[d].end
    IN /\ \A i \in DOMAIN toks : kept(i)
       /\ p.diags = <<>> => \A v \in DOMAIN p.values : Shaped(p.values[v])
=============================================================================
