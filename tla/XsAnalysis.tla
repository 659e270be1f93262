----------------------------- MODULE XsAnalysis -----------------------------
(***************************************************************************)
(* What the editor is told about the names and types of an XS file         *)
(* (src/internal/analysis: analyzer.go, types.go, tokens.go) and what it   *)
(* is offered (src/internal/complete): undefined symbols, wrong numbers of *)
(* arguments, incompatible types, semantic tokens, completion.  All of it  *)
(* reads one parsed file, the declarations of its include closure, and the *)
(* knowledge base.                                                         *)
(*                                                                         *)
(* A type is the sequence of its words; NoType is the unknown one.         *)
(***************************************************************************)
EXTENDS XsLookup

CONSTANTS Functions,    \* the knowledge base: name -> [params, returns]
          Constants     \* its constants

Builtins == {"true", "false", "vector", "null"}
Types    == {<<"int">>, <<"float">>, <<"bool">>, <<"string">>, <<"vector">>}

inKnowledge(name) == name \in Builtins \cup DOMAIN Functions \cup Constants

------------------------------------------------------------------------------
(* The names of a file: one flat set, whatever the scopes *)

declareItems(exprs) == {e.value : e \in declaredLocals([exprs |-> exprs])}

RECURSIVE localNames(_)
\* A for declares the variable that its clause assigns.
localNames(stmts) ==
    UNION {(IF st.kind \in {"decl", "for"} THEN declareItems(st.exprs) ELSE {})
             \cup localNames(st.body) : st \in ToSet(stmts)}

declNames(decls) == {d.name : d \in ToSet(decls)} \ {""}
declared(f) ==
    declNames(f.decls) \cup UNION {paramNames(d) \cup localNames(d.body) : d \in ToSet(f.decls)}

------------------------------------------------------------------------------
(* Types *)

baseType(t) == IF Len(t) > 1 /\ t[1] = "const" THEN Tail(t) ELSE t
Coerce(expected, actual) ==
    \/ baseType(expected) = baseType(actual)
    \/ baseType(actual) = <<"int">> /\ baseType(expected) = <<"float">>

\* Scopes: the root one, and in a function, rule or event one for all of it.
Declare(env, name, type) == [env EXCEPT ![Len(env)] = name :> type @@ @]

declType(d) == IF d.kind \in {"function", "extern", "variable"} THEN d.type ELSE NoType

\* The declarations of the file, the last one of a name; those of the closure
\* for the names that the file declares nowhere, the first one of a name.
declareAll(env, decls) ==
    FoldLeft(LAMBDA out, d : IF d.name = "" THEN out ELSE Declare(out, d.name, declType(d)),
             env, decls)
NewTypeEnv(f) == declareAll(<<<<>>>>, f.decls)
seedExternals(f, externals) ==
    declareAll(NewTypeEnv(f),
               SelectSeq(Reverse(externals), LAMBDA d : d.name \notin declared(f)))

Lookup(env, name) ==
    LET having == {i \in DOMAIN env : name \in DOMAIN env[i]}
    IN IF having = {} THEN NoType ELSE env[CHOOSE i \in having : \A j \in having : j <= i][name]

\* Mutant: a local leaves what the name was in the scopes around it.
declareLocalsNot(env, exprs) == env

\* The parser keeps no type of a local: its name is known, its type is not.
declareLocals(env, exprs) ==
    IF Len(env) < 2 THEN env
    ELSE [env EXCEPT ![2] = [n \in declareItems(exprs) |-> NoType] @@ @]

literalType(value) == CASE kind(value) = "string" -> <<"string">>
                        [] kind(value) = "number" -> <<"int">>
                        [] OTHER -> NoType
identType(env, name) == CASE name \in {"true", "false"} -> <<"bool">>
                          [] name = "vector" -> <<"vector">>
                          [] name = "null" -> NoType
                          [] OTHER -> Lookup(env, name)

\* Of the types of the two operands.
arithmetic(op, both) ==
    IF NoType \in both THEN NoType
    ELSE IF <<"vector">> \in both
      THEN IF op \in {"+", "-", "*"} THEN <<"vector">> ELSE NoType
    ELSE IF <<"float">> \in both THEN <<"float">>
    ELSE IF both = {<<"int">>} THEN <<"int">> ELSE NoType

RECURSIVE InferType(_, _)
binaryType(env, e) ==
    CASE e.value = "." -> IF e.children[2].value \in {"x", "y", "z"} THEN <<"float">> ELSE NoType
      [] e.value \in forCondOps -> <<"bool">>
      [] e.value = "-" -> arithmetic("-", {InferType(env, c) : c \in ToSet(e.children)})
      [] OTHER -> NoType
InferType(env, e) ==
    CASE e.kind = "vector"  -> <<"vector">>
      [] e.kind = "literal" -> literalType(e.value)
      [] e.kind = "ident"   -> identType(env, e.value)
      [] e.kind = "call" /\ e.value \in DOMAIN Functions -> Functions[e.value].returns
      [] e.kind = "call" /\ e.value \notin DOMAIN Functions -> Lookup(env, e.value)
      [] e.kind = "unary" /\ e.children # <<>> -> InferType(env, e.children[1])
      [] e.kind = "binary" -> binaryType(env, e)
      [] OTHER -> NoType

------------------------------------------------------------------------------
(* The checks: a report is its code, its range, and what it names *)

Diag(code, range, about, want) ==
    [code |-> code, start |-> range.start, end |-> range.end, about |-> about, want |-> want]

\* A value whose type is known and does not fit; doubt is no report.
mistyped(env, want, value, about) ==
    {Diag("type", value, about, want) :
       got \in {t \in {InferType(env, value)} :
                  want \in Types /\ t # NoType /\ ~Coerce(want, t)}}

checkAssign(env, e) ==
    mistyped(env, Lookup(env, e.children[1].value), e.children[2], e.children[1].start)
checkIdent(names, e) ==
    IF e.value \in names \/ inKnowledge(e.value) THEN {}
    ELSE {Diag("undefined", e, e.start, NoType)}

\* A callee that is no name is one that nobody declares.
\* A function of the knowledge base is checked, whoever else declares it.
checkKnown(env, e, fn) ==
    (IF Len(e.children) \in fn.required..Len(fn.params) THEN {}
     ELSE {Diag("arity", e, e.start, NoType)})
      \cup UNION {mistyped(env, fn.params[i], e.children[i], e.start) :
                    i \in DOMAIN e.children \cap DOMAIN fn.params}
checkCall(names, env, e) ==
    CASE e.value \in DOMAIN Functions -> checkKnown(env, e, Functions[e.value])
      [] e.value \in (names \cup Builtins) \ DOMAIN Functions -> {}
      [] OTHER -> {Diag("undefined", e, IF e.value = "" THEN 0 ELSE e.start, NoType)}

isMember(e) == e.kind = "binary" /\ e.value = "."
assigns(e)  == e.kind = "binary" /\ e.value = "=" /\ e.children[1].kind = "ident"

RECURSIVE checkExpr(_, _, _)
checkExpr(names, env, e) ==
    IF isMember(e) THEN checkExpr(names, env, e.children[1])
    ELSE (CASE e.kind = "call"  -> checkCall(names, env, e)
            [] e.kind = "ident" -> checkIdent(names, e)
            [] assigns(e)       -> checkAssign(env, e)
            [] OTHER            -> {})
           \cup UNION {checkExpr(names, env, c) : c \in ToSet(e.children)}

\* The walk: the scopes so far, and the reports.
Walk(env, diags) == [env |-> env, diags |-> diags]

RECURSIVE walkStmts(_, _, _, _)
checked(walk, st, names, fnType) ==
    [walk EXCEPT !.diags = @ \cup UNION {
       (IF st.kind = "return" /\ st.exprs # <<>> THEN mistyped(env, fnType, st.exprs[1], st.start)
        ELSE {})
         \cup UNION {checkExpr(names, env, e) : e \in ToSet(st.exprs)} : env \in {walk.env}}]
declaring(walk, st) ==
    IF st.kind \in {"decl", "for"} THEN [walk EXCEPT !.env = declareLocals(@, st.exprs)] ELSE walk
walkStmts(walk, stmts, names, fnType) ==
    FoldLeft(LAMBDA acc, st : walkStmts(checked(declaring(acc, st), st, names, fnType),
                                        st.body, names, fnType),
             walk, stmts)

\* The scope of a function, a rule or an event.
Push(env, d) == FoldLeft(LAMBDA out, p : Declare(out, p.name, p.type), Append(env, <<>>), d.params)

analyzeDecl(env, d, names) ==
    walkStmts(Walk(IF d.kind \in {"function", "rule", "event"} THEN Push(env, d) ELSE env, {}),
              d.body, names, IF d.kind = "function" THEN d.type ELSE NoType).diags

AnalyzeXs(f, externals) ==
    UNION {UNION {analyzeDecl(env, d, names) : d \in ToSet(f.decls)} :
             env \in {seedExternals(f, externals)}, names \in {declared(f) \cup declNames(externals)}}

------------------------------------------------------------------------------
(* Semantic tokens *)

Token(start, end, type) == [start |-> start, end |-> end, type |-> type]
xsNameType(name, names) == IF name \in names \/ inKnowledge(name) THEN "known" ELSE "unknown"

\* The callee is taken for the first token of its call.
RECURSIVE tokenExpr(_, _), tokenStmts(_, _)
\* Mutant: a member is coloured like a name.
tokenExprAll(e, names) ==
    (CASE e.kind = "call"  -> {Token(e.start, e.start + (IF e.value = "" THEN 0 ELSE 1),
                                     xsNameType(e.value, names))}
       [] e.kind = "ident" -> {Token(e.start, e.end, xsNameType(e.value, names))}
       [] OTHER            -> {})
      \cup UNION {tokenExpr(c, names) : c \in ToSet(e.children)}

tokenExpr(e, names) ==
    IF isMember(e) THEN tokenExpr(e.children[1], names)
    ELSE (CASE e.kind = "call"  -> {Token(e.start, e.start + (IF e.value = "" THEN 0 ELSE 1),
                                          xsNameType(e.value, names))}
            [] e.kind = "ident" -> {Token(e.start, e.end, xsNameType(e.value, names))}
            [] OTHER            -> {})
           \cup UNION {tokenExpr(c, names) : c \in ToSet(e.children)}
tokenStmts(stmts, names) ==
    UNION {UNION {tokenExpr(e, names) : e \in ToSet(st.exprs)} \cup tokenStmts(st.body, names) :
             st \in ToSet(stmts)}

TokensXs(f, externals) ==
    {Token(s.start, s.end, "kind") : s \in Symbols(f)}
      \cup UNION {UNION {tokenStmts(d.body, names) : d \in ToSet(f.decls)} :
                    names \in {declared(f) \cup declNames(externals)}}

------------------------------------------------------------------------------
(* Completion *)

\* What XsAt offers: rules and events cannot be named in an expression; what a
\* source declares hides what the knowledge base has of that name.
Offer(name, k, source) == [name |-> name, kind |-> k, source |-> source]
offered(d, source) == Offer(d.name, IF d.kind = "extern" THEN "function" ELSE d.kind, source)
XsAt(f, pos, externals) ==
    LET silent == \E i \in DOMAIN f.strings : contains(f.strings[i], pos)
        own    == {offered(v, "file") : v \in {x \in VisibleAt(f, pos) : x.kind \notin {"rule", "event"}}}
        others == {offered(d, "closure") :
                     d \in {x \in ToSet(externals) : x.kind \in {"function", "extern", "variable"}}}
        hidden == {o.name : o \in own \cup others}
    IN IF silent THEN {}
       ELSE own \cup others \cup {Offer(n, "function", "kb") : n \in DOMAIN Functions \ hidden}
                            \cup {Offer(n, "constant", "kb") : n \in Constants \ hidden}
=============================================================================
