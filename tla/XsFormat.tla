------------------------------ MODULE XsFormat ------------------------------
(***************************************************************************)
(* The XS formatter (src/internal/format/xs.go): the lines it prints for a *)
(* parsed file, each with its level and its tokens.  src are the tokens of *)
(* the source and a node is one of XsParse, with its positions: what the   *)
(* tree does not keep is cut from the source between two of them.          *)
(*                                                                         *)
(* Blanks within a line and blank lines between declarations are layout.   *)
(* Comments, and the shapes printed as their own bytes (warned vectors,    *)
(* unterminated strings, blocks as values, members that are no names,      *)
(* headers without parentheses, calls of what is no name), are left out.   *)
(***************************************************************************)
EXTENDS Integers, Sequences, FiniteSetsExt, SequencesExt

line(level, tokens) == <<[level |-> level, tokens |-> tokens]>>

\* The first token that begins at or after a position.
tokenAt(pos) == (pos + 1) \div 2

\* The tokens between two positions.
cut(src, from, to) == SubSeq(src, tokenAt(from), tokenAt(to) - 1)

\* The first of some tokens at or after a position, or the end of the file, and
\* the bracket that closes the one at token i; a file without reports has it.
scanFirst(src, from, want) ==
    Min({i \in tokenAt(from)..Len(src) : src[i] \in want} \cup {Len(src) + 1})
shape(src, from, want) ==
    LET i == scanFirst(src, from, want) IN IF i \in DOMAIN src THEN src[i] ELSE "eof"

matchBracket(src, i, opening, closing) ==
    LET depth(k) == Len(SelectSeq(SubSeq(src, i, k), LAMBDA t : t = opening))
                      - Len(SelectSeq(SubSeq(src, i, k), LAMBDA t : t = closing))
    IN Min({k \in i..Len(src) : depth(k) = 0})

------------------------------------------------------------------------------
(* Expressions: operators, and the parentheses that the tree dropped *)

\* Members, indices, operands of unary operators bind above every operator.
memberPrec == 12

xsPrec(op) == CASE op = "=" -> 1 [] op = "<" -> 8 [] op = "-" -> 10 [] OTHER -> 0
isXsAssign(op) == op = "="

paren(out, minPrec, prec) == IF prec < minPrec THEN <<"(">> \o out \o <<")">> ELSE out

\* Parts with commas between them.
commas(parts) ==
    FoldLeft(LAMBDA out, p : IF out = <<>> THEN p ELSE out \o <<",">> \o p, <<>>, parts)

RECURSIVE expr(_, _)

list(exprs) == <<"(">> \o commas([i \in DOMAIN exprs |-> expr(exprs[i], 1)]) \o <<")">>

unary(e) ==
    IF e.value = "++post" THEN expr(e.children[1], memberPrec) \o <<"++">>
                          ELSE <<e.value>> \o expr(e.children[1], memberPrec)

\* Mutant: both operands at the power of their operator.
infixLoose(e, minPrec) ==
    paren(expr(e.children[1], xsPrec(e.value)) \o <<e.value>> \o expr(e.children[2], xsPrec(e.value)),
          minPrec, xsPrec(e.value))

\* The operand on the side that the operator does not group to binds stronger.
infix(e, minPrec) ==
    LET prec  == xsPrec(e.value)
        left  == IF isXsAssign(e.value) THEN prec + 1 ELSE prec
        right == IF isXsAssign(e.value) THEN prec ELSE prec + 1
    IN paren(expr(e.children[1], left) \o <<e.value>> \o expr(e.children[2], right), minPrec, prec)

binary(e, minPrec) ==
    CASE e.value = "."  -> paren(expr(e.children[1], memberPrec) \o <<".">>
                                   \o expr(e.children[2], memberPrec), minPrec, memberPrec)
      [] e.value = "[]" -> paren(expr(e.children[1], memberPrec) \o <<"[">>
                                   \o expr(e.children[2], 1) \o <<"]">>, minPrec, memberPrec)
      [] OTHER          -> infix(e, minPrec)

expr(e, minPrec) ==
    CASE e.kind \in {"literal", "ident"} -> <<e.value>>
      [] e.kind = "unary"  -> unary(e)
      [] e.kind = "call"   -> <<e.value>> \o list(e.children)
      [] e.kind = "vector" -> list(e.children)
      [] e.kind = "binary" -> binary(e, minPrec)

\* The first of some expressions: none, or its tokens.
firstOf(exprs) == IF exprs = <<>> THEN <<>> ELSE expr(exprs[1], 1)

------------------------------------------------------------------------------
(* Statements *)

Sections == {"condition", "action"}

sectionColon(src, s) == shape(src, s.start, {"{", ":"}) = ":"

\* The tokens of a statement up to and with the next colon.
label(src, s) == SubSeq(src, tokenAt(s.start), scanFirst(src, s.start, {":"}))

\* A declaration without its semicolon: its type from the source.
declText(src, s) ==
    cut(src, s.start, s.exprs[1].start)
      \o commas([i \in DOMAIN s.exprs |-> expr(s.exprs[i], 1)])

blockOpen(b) == IF b.kind = "block" THEN <<"{">> ELSE <<>>
closer(b)    == IF b.kind = "block" THEN <<"}">> ELSE <<>>

\* A for keeps no empty part: without a typed clause its first expression is
\* printed as the clause.
forHead(src, s) ==
    LET typed == Len(s.body) = 2 /\ s.body[1].kind = "decl"
        init  == IF typed THEN declText(src, s.body[1]) ELSE firstOf(s.exprs)
        rest  == IF typed \/ s.exprs = <<>> THEN s.exprs ELSE Tail(s.exprs)
    IN <<"for", "(">> \o init \o <<";">> \o firstOf(rest) \o <<";">>
         \o (IF Len(rest) > 1 THEN expr(rest[2], 1) ELSE <<>>) \o <<")">>

RECURSIVE stmts(_, _, _), stmt(_, _, _), stmtIf(_, _, _, _)

braced(src, head, body, level) ==
    line(level, Append(head, "{")) \o stmts(src, body, level + 1) \o line(level, <<"}">>)

\* The lines of a branch, but for the brace that closes it.
branch(src, b, level) ==
    IF b.kind = "block" THEN stmts(src, b.body, level + 1) ELSE stmt(src, b, level + 1)

\* A head and its branch, and what follows the branch on the line that closes
\* it.
tail(src, head, b, level, end) ==
    line(level, head \o blockOpen(b)) \o branch(src, b, level)
      \o (IF closer(b) \o end = <<>> THEN <<>> ELSE line(level, closer(b) \o end))

condition(s) == <<"(">> \o firstOf(s.exprs) \o <<")">>

\* An else shares the line of the brace before it, and an if goes on the line
\* of its else.
else(src, b, level, kw) ==
    CASE b.kind = "block" -> braced(src, kw, b.body, level)
      [] b.kind = "if"    -> stmtIf(src, b, level, kw)
      [] OTHER            -> line(level, kw) \o stmt(src, b, level + 1)

stmtIf(src, s, level, prefix) ==
    LET head == prefix \o <<"if">> \o condition(s)
        then == s.body[1]
    IN IF Len(s.body) < 2 THEN tail(src, head, then, level, <<>>)
       ELSE line(level, head \o blockOpen(then)) \o branch(src, then, level)
              \o else(src, s.body[2], level, Append(closer(then), "else"))

\* A section with a colon is a label: the statements after it are its siblings.
section(src, s, level) ==
    IF sectionColon(src, s) THEN line(level, label(src, s))
                            ELSE braced(src, <<s.kind>>, s.body, level)

stmt(src, s, level) ==
    CASE s.kind = "if"      -> stmtIf(src, s, level, <<>>)
      [] s.kind = "while"   -> tail(src, <<"while">> \o condition(s), s.body[1], level, <<>>)
      [] s.kind = "do"      -> tail(src, <<"do">>, s.body[1], level,
                                    <<"while">> \o condition(s) \o <<";">>)
      [] s.kind = "for"     -> tail(src, forHead(src, s), Last(s.body), level, <<>>)
      [] s.kind = "switch"  -> braced(src, <<"switch">> \o condition(s), s.body, level)
      [] s.kind = "case"    -> line(level, label(src, s)) \o stmts(src, s.body, level + 1)
      [] s.kind \in Sections -> section(src, s, level)
      [] s.kind = "block"   -> braced(src, <<>>, s.body, level)
      [] s.kind \in {"return", "break", "continue"} ->
           line(level, <<s.kind>> \o firstOf(s.exprs) \o <<";">>)
      [] s.kind = "decl"    -> line(level, declText(src, s) \o <<";">>)
      [] s.kind = "expr"    -> line(level, firstOf(s.exprs) \o <<";">>)

\* The statement after the label of a section hangs one level in.
hangs(src, body, i) ==
    /\ i > 1 /\ body[i].kind \notin Sections
    /\ body[i - 1].kind \in Sections /\ sectionColon(src, body[i - 1])

stmts(src, body, level) ==
    FlattenSeq([i \in DOMAIN body |->
                  stmt(src, body[i], level + (IF hangs(src, body, i) THEN 1 ELSE 0))])

------------------------------------------------------------------------------
(* Declarations *)

initValue(d) == IF d.body = <<>> THEN <<>>
                ELSE <<"=">> \o expr(d.body[1].exprs[1].children[2], 1)

\* The parenthesis after a head, from the source.
openParen(src, d)  == scanFirst(src, d.start, {"("})
closeParen(src, d) == matchBracket(src, openParen(src, d), "(", ")")
parameters(src, d) == SubSeq(src, openParen(src, d), closeParen(src, d))

\* A function or an event: what follows its parenthesis is a body or a semicolon.
headed(src, head, d) ==
    IF shape(src, d.start, {"(", ";"}) # "(" THEN line(0, Append(head, ";"))
    ELSE IF shape(src, 2 * closeParen(src, d) + 1, {"{", ";"}) = "{"
         THEN braced(src, head \o parameters(src, d), d.body, 0)
         ELSE line(0, head \o parameters(src, d) \o <<";">>)

extern(src, d) ==
    LET found == shape(src, d.start, {"(", "=", ";"})
        value == CASE found = "(" -> parameters(src, d) [] found = "=" -> initValue(d)
                   [] OTHER -> <<>>
    IN line(0, <<"extern">> \o d.type \o <<d.name>> \o value \o <<";">>)

rule(src, d) ==
    LET open == scanFirst(src, d.start, {"{"})
    IN braced(src, SubSeq(src, tokenAt(d.start), open - 1), d.body, 0)

\* Variables of one type are one declaration where a comma alone separates them.
varGroup(src, d, e) ==
    /\ d.kind = "variable" /\ e.kind = "variable" /\ d.type = e.type
    /\ cut(src, d.end, e.start) = <<",">>

groups(src, decls) ==
    FoldLeft(LAMBDA out, d : IF out # <<>> /\ varGroup(src, Last(Last(out)), d)
                             THEN Append(Front(out), Append(Last(out), d))
                             ELSE Append(out, <<d>>), <<>>, decls)

variables(group) ==
    line(0, group[1].type
              \o commas([i \in DOMAIN group |-> <<group[i].name>> \o initValue(group[i])]) \o <<";">>)

declGroup(src, group) ==
    LET d == group[1]
    IN CASE d.kind = "variable" -> variables(group)
         [] d.kind = "function" -> headed(src, d.type \o <<d.name>>, d)
         [] d.kind = "extern"   -> extern(src, d)
         [] d.kind = "rule"     -> rule(src, d)
         [] d.kind = "event"    -> headed(src, <<"event">>, d)
         [] d.kind = "include"  -> line(0, cut(src, d.start, d.end))

\* The page of a file without reports.
XS(src, file) ==
    FlattenSeq([i \in DOMAIN groups(src, file.decls) |-> declGroup(src, groups(src, file.decls)[i])])
=============================================================================
