------------------------------- MODULE XsFile -------------------------------
(***************************************************************************)
(* An XS file that is typed token by token, parsed after each one, and     *)
(* what the lookups answer about it at every position, against readings of *)
(* the same text by its parentheses and braces.                            *)
(***************************************************************************)
EXTENDS XsAnalysis

CONSTANTS Families,     \* what stands before, the words typed, how many
          Externals     \* the declarations of the files it includes

VARIABLES family, typed, file

vars == <<family, typed, file>>

text == family.before \o typed

Init == /\ family \in Families
        /\ typed = <<>>
        /\ file = XsParse(family.before)

Printer == INSTANCE XsFormat

keywords == {"if", "else", "while", "for", "do", "switch", "case", "default", "return"}
declWords == {"rule", "extern", "include", "event"}

occurring(tokens, t) == Len(SelectSeq(tokens, LAMBDA x : x = t))

\* The last token is one that the parser takes without a report although no
\* rule of the language puts it there: a block as a value, a second type, a
\* keyword as a name, anything as a member or a type, the call of an increment.
misplaced(tokens) ==
    LET last   == Last(tokens)
        before == tokens[Len(tokens) - 1]
        value  == \/ before \in {"=", "-", "<", "case", "return"}
                  \/ occurring(tokens, "(") > occurring(tokens, ")")
    IN \/ last = "{" /\ value
       \/ last \in typeWords /\ before \in typeWords
       \/ last \notin typeWords /\ before = "extern"
       \/ last \in declWords /\ before \notin {";", "}"}
       \/ last = "(" /\ before \in {"++", "else"}
       \/ before = "." /\ (kind(last) # "ident" \/ last \in typeWords \cup keywords)
       \/ last = "else" /\ before \notin {";", "}"}
       \/ last \in keywords /\ before \notin {";", "{", "}", ":", ")", "else", "do"}

\* What is typed so far may become a file without reports: every report is on
\* the end of the file, or on a type whose name is missing yet.
MayBecomeClean(f, tokens) ==
    \A i \in DOMAIN f.diags :
      \/ f.diags[i].start = startOf(Len(tokens) + 1)
      \/ f.diags[i].start = startOf(Len(tokens)) /\ Last(tokens) \in typeWords

\* A change, and the file parsed anew.  A family may follow only the texts
\* that can still become clean.
Type(t) ==
    /\ Len(typed) < family.length
    /\ typed' = Append(typed, t)
    /\ ~family.broken => ~misplaced(family.before \o typed')
    /\ file' = XsParse(family.before \o typed')
    /\ ~family.broken => MayBecomeClean(file', family.before \o typed')
    /\ UNCHANGED family

Next == \E t \in family.words : Type(t)
Spec == Init /\ [][Next]_vars

Cursors == 0..(2 * Len(text) + 3)

Unfinished == \A i \in DOMAIN file.diags : file.diags[i].start = startOf(Len(text) + 1)
Clean      == file.diags = <<>>

------------------------------------------------------------------------------
(* The text read by its brackets *)

word(i) == IF i \in DOMAIN text THEN text[i] ELSE "eof"

\* At each token, how many of the opening tokens up to it are not closed.
depths(opening, closing) ==
    LET step(t) == CASE t = opening -> 1 [] t = closing -> -1 [] OTHER -> 0
    IN FoldLeft(LAMBDA d, t : Append(d, (IF d = <<>> THEN 0 ELSE Last(d)) + step(t)), <<>>, text)

\* The tokens of the parentheses that open at i, with both parentheses.
inside(parens, i) == {k \in i..Len(text) : \A j \in i..k - 1 : parens[j] >= parens[i]}

\* Token i closes the condition of a statement.
closesHead(parens, i) ==
    \E j \in 2..i : /\ word(j) = "(" /\ word(j - 1) \in {"if", "while", "for"}
                    /\ parens[i] < parens[j] /\ i \in inside(parens, j)

\* A parenthesis after an operand opens the arguments of a call, unless it
\* opens the parameters of a declaration.
opensCall(parens, i) ==
    /\ word(i) = "("
    /\ \/ kind(word(i - 1)) \in {"number", "string"}
       \/ word(i - 1) = "]"
       \/ word(i - 1) = ")" /\ ~closesHead(parens, i - 1)
       \/ /\ kind(word(i - 1)) = "ident" /\ word(i - 1) \notin keywords \cup {"event"}
          /\ word(i - 2) \notin typeWords

inString(pos) ==
    \E i \in DOMAIN text : kind(text[i]) = "string" /\ startOf(i) <= pos /\ pos < endOf(i)

\* The innermost call around a position and the argument the position is in
\* are those the parentheses and commas of the text give, also while the call
\* is being typed (CallAt, ast.go:172-238; parseArgs, parse.go:1069-1124).
CallAtExact ==
    LET parens == depths("(", ")")
        opening == {i \in DOMAIN text : opensCall(parens, i)}
        calls  == UNION {{<<i, k>> : k \in inside(parens, i)} : i \in opening}
        openAt(pos) == {i \in opening :
                          /\ startOf(i) < pos
                          /\ \A c \in calls : c[1] = i /\ parens[c[2]] < parens[i] => pos < endOf(c[2])}
        commas(i, pos) == {c \in calls : /\ c[1] = i /\ text[c[2]] = "," /\ endOf(c[2]) <= pos
                                         /\ parens[c[2]] = parens[i]}
        agrees(pos, c, open) ==
            /\ c.onArg => /\ open # {}
                          /\ LET i == CHOOSE x \in open : \A y \in open : y <= x
                             IN c.lparen = startOf(i) /\ c.argIndex = Cardinality(commas(i, pos))
            /\ open # {} /\ ~inString(pos) /\ ~c.onArg => c.lparen >= pos
    IN Unfinished => \A pos \in Cursors : agrees(pos, CallAt(file, pos), openAt(pos))

------------------------------------------------------------------------------
(* Nodes *)

\* The selection grows: each range around a position contains the position and
\* the range before it, and is not that range again (EnclosingRanges,
\* ast.go:259-285, and selectionRange of the server).
ChainsGrow ==
    Unfinished => \A pos \in Cursors :
      LET chain == EnclosingRanges(file, pos)
      IN /\ \A i \in DOMAIN chain : contains(chain[i], pos)
         /\ \A i \in DOMAIN chain \ {1} : /\ rangeWithin(chain[i - 1], chain[i])
                                          /\ chain[i - 1] # chain[i]

------------------------------------------------------------------------------
(* Scopes *)

isName(i) == /\ kind(word(i)) = "ident" /\ word(i) \notin typeWords \cup keywords \cup declWords
             /\ word(i - 1) \notin {".", "include"}
             /\ ~(word(i) \in {"condition", "action"} /\ word(i + 1) \in {"{", ":"})

\* A name after a type declares, and so do the names after the commas of a list
\* that begins with a type; other names use what is declared.
inList(i) ==
    \E b \in 0..i - 2 : /\ b = 0 \/ word(b) \in {";", "{", "}"}
                        /\ word(b + 1) \in typeWords
                        /\ \A k \in b + 1..i - 1 : word(k) \notin {";", "{", "}"}
                        /\ depths("(", ")")[i] = depths("(", ")")[b + 1]
namesEvent(i) == word(i - 2) = "event" /\ word(i + 1) = ")"
declares(i) == isName(i) /\ \/ word(i - 1) \in typeWords \cup {"rule"}
                            \/ word(i - 1) = "," /\ inList(i)
                            \/ word(i - 1) = "(" /\ namesEvent(i)

\* The scopes of a text: how deep its braces and parentheses are.
Scopes == [braces |-> depths("{", "}"), parens |-> depths("(", ")")]

isParam(t, i) == declares(i) /\ t.braces[i] = 0 /\ t.parens[i] > 0 /\ ~namesEvent(i)

\* Token k ends what stands at the top level: a body or a signature.
endsTop(t, k) == t.braces[k] = 0 /\ word(k) \in {"}", ";"}

\* A loop variable, and the tokens that end its loop.
isLoopVar(d) == word(d - 2) = "(" /\ word(d - 3) = "for"
endsLoop(t, d, k) == /\ t.braces[k] = t.braces[d] /\ t.parens[k] < t.parens[d]
                     /\ word(k) \in {"}", ";"}

\* The statements of one case of a switch are a block, without braces.
endsCase(t, d, k) == t.braces[k] = t.braces[d] /\ word(k) \in {"case", "default"}

\* Token i is in the scope of declaration d: of its block, of its loop, of the
\* function it is a parameter of, or anywhere after a top-level one.
inScope(t, d, i) ==
    /\ d <= i
    /\ t.braces[d] > 0 => \A k \in d..i : t.braces[k] >= t.braces[d]
    /\ isLoopVar(d) => \A k \in d..i : ~endsLoop(t, d, k)
    /\ t.braces[d] > 0 => \A k \in d..i : ~endsCase(t, d, k)
    /\ isParam(t, d) => \A k \in d..i : ~endsTop(t, k)

\* The declaration that token i means: of those in scope the last one.
means(t, i) ==
    LET found == {d \in 1..i : declares(d) /\ word(d) = word(i) /\ inScope(t, d, i)}
    IN {d \in found : \A e \in found : e <= d}

\* Texts the parser takes without a report although no rule of the language
\* gives them: a parameter without a type or with the name of another one, a
\* misplaced token, a declaration as the whole body of a statement.
Ordinary(t) ==
    \A i \in DOMAIN text :
      /\ isName(i) /\ t.braces[i] = 0 /\ t.parens[i] > 0 => declares(i)
      /\ i > 1 => ~misplaced(SubSeq(text, 1, i))
      /\ declares(i) /\ t.braces[i] > 0 => word(i - 2) \notin {")", "else", "do"}
      /\ isParam(t, i) => \A d \in 1..i - 1 :
           isParam(t, d) /\ inScope(t, d, i) => word(d) # word(i)

\* A parameter of a function without a statement: the range of that function
\* ends at its name, and no lookup knows the parameter.
bodyless(t, i) ==
    /\ isParam(t, i)
    /\ \A k \in i..Len(text) :
         word(k) = "{" /\ inScope(t, i, k) /\ t.braces[k] = 1 => word(k + 1) \in {"}", "eof"}

\* A name means the last declaration of it whose block is still open, wherever
\* it is looked up from, and a rename edits exactly the names that mean the
\* same declaration (Definition and RenameSites, ast.go:425-508).
DefinitionExact ==
    LET t     == Scopes
        names == {i \in DOMAIN text : isName(i) /\ ~bodyless(t, i)}
        bound == UNION {{<<i, d>> : d \in means(t, i)} : i \in names}
        agrees(i, own, found, sites) ==
          LET meant == {b[2] : b \in own}
              same  == {b[1] : b \in {x \in bound : x[2] \in meant}}
          IN /\ {r.start : r \in found} = {startOf(d) : d \in meant}
             /\ {s.start : s \in sites} = {startOf(j) : j \in same}
             /\ {s.start : s \in {x \in sites : x.decl}} = {startOf(d) : d \in meant}
        known(sites) == {s \in sites : \E j \in names : s.start = startOf(j)}
    IN Unfinished /\ Ordinary(t) => \A i \in names :
         agrees(i, {b \in bound : b[1] = i}, Definition(file, startOf(i)),
                known(RenameSites(file, startOf(i))))

\* What a name means is offered where the name stands (VisibleAt,
\* ast.go:663-713, promises the scopes of Definition), except in rules and
\* events, whose locals are never offered; their names are no value.
OffersWhatResolves ==
    Unfinished /\ word(1) \notin {"rule", "event"} => \A i \in {j \in DOMAIN text : isName(j)} :
      \A r \in Definition(file, startOf(i)) :
        \E v \in VisibleAt(file, startOf(i)) :
          /\ v.start = r.start /\ v.name = word(i)
          /\ \/ v.kind \in {"rule", "event"}
             \/ offered(v, "file") \in XsAt(file, startOf(i), Externals)

------------------------------------------------------------------------------
(* Reports and tokens *)

Reports == AnalyzeXs(file, Externals)
Tokens  == TokensXs(file, Externals)

\* The type of a declaration: the last type word before it.
typeWordOf(d) == <<word(CHOOSE j \in 1..d : /\ word(j) \in typeWords
                                            /\ \A k \in j + 1..d : word(k) \notin typeWords)>>
typesAt(t, i) ==
    CASE kind(word(i)) = "string" -> {<<"string">>}
      [] kind(word(i)) = "number" -> {<<"int">>}
      [] OTHER -> {typeWordOf(d) : d \in means(t, i)}

\* Every callee is a name: of another one the tree keeps nothing (parsePostfix).
NamesCalled == \A c \in ToSet(file.calls) : c.callee # ""

\* One top-level declaration has the name.
singly(t, i) ==
    Cardinality({d \in DOMAIN text : /\ declares(d) /\ word(d) = word(i)
                                     /\ t.braces[d] = 0 /\ ~isParam(t, d)}) < 2

\* An undefined name has no declaration that reaches it and is not offered.
undefinedRightly(t, i) ==
    means(t, i) = {} /\ \A o \in XsAt(file, startOf(i), Externals) : o.name # word(i)

\* A value of one token has another type than the variable it is assigned to.
mistypedRightly(t, target, value, want) ==
    /\ singly(t, target) /\ means(t, target) # {} => typesAt(t, target) = {want}
    /\ singly(t, value) => \A got \in typesAt(t, value) : ~Coerce(want, got)

\* No report is wrong: the analyzer knows the names of a file as one set and the
\* types of a function in one scope, yet a name it calls undefined means nothing
\* where it stands, and a type it calls wrong is that of the declaration meant;
\* and a name that nothing declares is reported; only a constant of the
\* knowledge base is called undefined where it is called (AnalyzeXs, analyzer.go:273-322;
\* TypeEnv, types.go:39-158; "doubt means ... no false bad-type", 160-162).
ReportsJustified ==
    LET t == Scopes
        undefined(reports, i) == \E d \in reports : d.code = "undefined" /\ d.start = startOf(i)
        nowhere(i) == ~inKnowledge(word(i)) /\ word(i) \notin declared(file) \cup declNames(Externals)
        target(d)  == d.about \div 2
        assigned(d) == word(target(d) + 1) = "=" /\ d.end = d.start + 1
    IN Unfinished /\ Ordinary(t) /\ NamesCalled => \A reports \in {Reports} :
         /\ \A i \in DOMAIN text :
              /\ undefined(reports, i) /\ word(i) \notin Constants => undefinedRightly(t, i)
              /\ isName(i) /\ t.braces[i] > 0 /\ nowhere(i) => undefined(reports, i)
         /\ \A d \in {x \in reports : x.code = "type" /\ assigned(x)} :
              mistypedRightly(t, target(d), d.start \div 2, d.want)

\* The colours agree with the reports: a name is coloured once, as unknown if and
\* only if it is reported (constants that are called apart), and no colour runs into another one; only the name of
\* a variable that has a value is coloured twice, as a declaration and as a use
\* (TokensXs, tokens.go:48-84; encodeSemanticTokens, server.go:1527-1530, takes
\* tokens without overlaps).
TokensAgree ==
    LET t == Scopes
        valued(i) == t.braces[i] = 0 /\ word(i + 1) = "="
        unknown(tokens)   == {k.start : k \in {x \in tokens : x.type = "unknown"}}
        undefined(reports) == {d.start : d \in {x \in reports : x.code = "undefined"}}
        constants == {startOf(i) : i \in {j \in DOMAIN text : word(j) \in Constants}}
    IN Unfinished /\ Ordinary(t) /\ NamesCalled => \A tokens \in {Tokens} :
         /\ unknown(tokens) = undefined(Reports) \ constants
         /\ \A i \in DOMAIN text :
              isName(i) /\ t.braces[i] > 0 => Cardinality({k \in tokens : k.start = startOf(i)}) = 1
         /\ \A j, k \in tokens :
              \/ j.end <= k.start \/ k.end <= j.start \/ j = k
              \/ (j.start = k.start /\ valued(j.start \div 2))

------------------------------------------------------------------------------
(* The formatted page *)

\* A tree without its positions.
RECURSIVE exprShape(_), stmtShape(_)
exprShape(e) == [kind |-> e.kind, value |-> e.value,
                 children |-> [i \in DOMAIN e.children |-> exprShape(e.children[i])]]
stmtShape(s) == [kind |-> s.kind, exprs |-> [i \in DOMAIN s.exprs |-> exprShape(s.exprs[i])],
                 body |-> [i \in DOMAIN s.body |-> stmtShape(s.body[i])]]
treeShape(f) == [i \in DOMAIN f.decls |->
                   [kind |-> f.decls[i].kind, type |-> f.decls[i].type, name |-> f.decls[i].name,
                    params |-> f.decls[i].params,
                    body |-> [j \in DOMAIN f.decls[i].body |-> stmtShape(f.decls[i].body[j])]]]

\* The text with its open blocks closed.
closedText == LET open == Last(Scopes.braces)
              IN text \o [i \in 1..Max({open, 0}) |-> "}"]

\* Somewhere in a text a token of one set is followed by one of another.
follows(src, some, others) ==
    \E i \in 1..Len(src) - 1 : src[i] \in some /\ src[i + 1] \in others

\* Every loop and switch has its condition, for without it, it is printed as its
\* own bytes; and no type is a value.
RECURSIVE headless(_)
headless(stmts) ==
    \E s \in ToSet(stmts) : \/ s.kind \in {"while", "do", "switch"} /\ s.exprs = <<>>
                            \/ headless(s.body)

Formattable(src, f) ==
    /\ f.diags = <<>> /\ Ordinary(Scopes) /\ NamesCalled
    /\ \A d \in ToSet(f.decls) : ~headless(d.body)
    /\ \A i \in 2..Len(src) : src[i - 1] \in typeWords => kind(src[i]) = "ident"

pageOf(lines) == FlattenSeq([i \in DOMAIN lines |-> lines[i].tokens])

\* A text formatted, and its page formatted again; a file with reports is refused.
Formatted ==
    LET parsedAs(src, f) == [src |-> src, file |-> f,
                             lines |-> IF f.diags = <<>> THEN Printer!XS(src, f) ELSE <<>>]
        pass[n \in 1..2] ==
          LET source == IF n = 1 THEN closedText ELSE pageOf(pass[1].lines)
          IN CHOOSE r \in {parsedAs(source, f) : f \in {XsParse(source)}} : TRUE
    IN pass

\* The page has no reports and the tree of its text.
sameTree(once, again) == again.diags = <<>> /\ treeShape(again) = treeShape(once)

\* The formatted page has the tree of its text (the guarantee of
\* TestXS_StructureInvariant, xs_test.go:261-263).
TreeKept ==
    word(Len(text)) \in {";", "}"} => \A pass \in {Formatted} :
      Formattable(pass[1].src, pass[1].file) => sameTree(pass[1].file, pass[2].file)

\* The shapes the formatter is known to change: the block of a section after its
\* colon, and what follows a group that begins with an operator.
knownChanged(src) ==
    \/ follows(src, {":"}, {"{"})
    \/ follows(src, {"("}, unaryOps) /\ follows(src, {")"}, {"++", ".", "["})

\* Formatting keeps the tree and every name, value, operator and keyword in its
\* place, but for the variable of a condition that began with its operator; and
\* what is formatted is its own page (XS, xs.go:17-57; TestXS_IdempotentGolden).
FormatFaithful ==
    LET told(tokens) == SelectSeq(tokens, LAMBDA x : x \notin {"(", ")", ";", ","} \cup typeWords)
        faithful(once, again) ==
          /\ sameTree(once.file, again.file)
          /\ again.lines = once.lines
          /\ ~follows(once.src, {";"}, forCondOps) => told(again.src) = told(once.src)
    IN word(Len(text)) \in {";", "}"} => \A pass \in {Formatted} :
         Formattable(pass[1].src, pass[1].file) /\ ~knownChanged(pass[1].src) =>
           faithful(pass[1], pass[2])

brackets == {"(", ")", "[", "]", "{", "}"}

\* The reports of a broken statement without brackets cost nothing after the
\* semicolon and the brace that end it: the next declaration is found
\* (XsParse, parse.go:11-14; syncStmt, parse.go:1160-1187).
ErrorsContained ==
    LET more == XsParse(text \o <<";", "}", "int", "z", ";">>)
    IN family.broken /\ (\A i \in DOMAIN typed : typed[i] \notin brackets) =>
         \E d \in ToSet(more.decls) : d.kind = "variable" /\ d.name = "z"
=============================================================================
