-------------------------------- MODULE Language -------------------------------
(***************************************************************************)
(* What the programs mean, independently of how the compiler goes about    *)
(* it: how a syntax tree is written down, when it is well typed, what      *)
(* calling one of its functions returns, and what running a module of      *)
(* basic blocks returns.  The correctness of the compiler is stated        *)
(* against these definitions.                                              *)
(***************************************************************************)
EXTENDS Ast, Integers, SequencesExt

(***************************************************************************)
(* Writing a program down, with no more parentheses than needed.           *)
(***************************************************************************)
Levels == <<{"Or"}, {"And"}, {"Eq", "Ne"}, {"Lt", "Gt", "Le", "Ge"},
            {"Plus", "Minus"}, {"Mul", "Div"}>>
Level(op) == CHOOSE i \in DOMAIN Levels : op \in Levels[i]
Prefix == 7
Term == 8

Spelling(op) == CASE op = "Mul" -> "Asterisk" [] op = "Div" -> "Slash"
                  [] op = "Not" -> "Bang" [] OTHER -> op
T1(k) == <<Tok(k)>>
Id(n) == IF n = "self" THEN T1("Self") ELSE <<Lit("Id", n)>>
Parens(ts) == T1("LParen") \o ts \o T1("RParen")
Braces(ts) == T1("LBrace") \o ts \o T1("RBrace")
CommaList(parts) ==
  FlattenSeq([i \in DOMAIN parts |-> IF i = 1 THEN parts[1] ELSE T1("Comma") \o parts[i]])
OrderOf(map) == SetToSeq(DOMAIN map)
TypeName(t) == Id(t.n)

RECURSIVE Write(_, _), WriteStmt(_)

\* An expression where nothing binding less tightly than the level may stand.
Write(level, e) ==
  LET atLeast(own, ts) == IF own < level THEN Parens(ts) ELSE ts
  IN CASE e.k = "num" -> <<Lit("Num", e.v)>>
       [] e.k = "bool" -> T1(IF e.v = "true" THEN "True" ELSE "False")
       [] e.k = "null" -> T1("Null")
       [] e.k = "var" -> Id(e.n)
       [] e.k = "un" -> atLeast(Prefix, T1(Spelling(e.op)) \o Write(Term, e.e))
       [] e.k = "bin" -> atLeast(Level(e.op),
            Write(Level(e.op), e.l) \o T1(Spelling(e.op)) \o Write(Level(e.op) + 1, e.r))
       [] e.k = "mem" -> Write(Term, e.t) \o T1("Dot") \o Id(e.m)
       [] e.k = "call" -> Write(Term, e.f)
            \o Parens(CommaList([i \in DOMAIN e.as |-> Write(1, e.as[i])]))
       [] e.k = "new" -> TypeName(e.ty) \o Braces(CommaList(
            [i \in DOMAIN OrderOf(e.fs) |->
               T1("Dot") \o Id(OrderOf(e.fs)[i]) \o T1("Assign") \o Write(1, e.fs[OrderOf(e.fs)[i]])]))

WriteStmts(ss) == Braces(FlattenSeq([i \in DOMAIN ss |-> WriteStmt(ss[i])]))
WriteVar(d) == T1("Var") \o Id(d.n) \o TypeName(d.t) \o T1("Assign") \o Write(1, d.e) \o T1("Semicolon")

\* x = x + e is written x += e.
WriteAssignment(s) ==
  IF s.r.k = "bin" /\ s.r.op \in {"Plus", "Minus", "Mul", "Div"} /\ s.r.l = s.l
  THEN Write(1, s.l) \o T1(s.r.op \o "Assign") \o Write(1, s.r.r)
  ELSE Write(1, s.l) \o T1("Assign") \o Write(1, s.r)

WriteStmt(s) ==
  CASE s.k = "decl" -> WriteVar(s.d)
    [] s.k = "asg" -> WriteAssignment(s) \o T1("Semicolon")
    [] s.k = "expr" -> Write(1, s.e) \o T1("Semicolon")
    [] s.k = "ret" -> T1("Return") \o (IF s.e = <<>> THEN <<>> ELSE Write(1, s.e[1])) \o T1("Semicolon")
    [] s.k = "block" -> WriteStmts(s.ss)
    [] s.k = "while" -> T1("While") \o Parens(Write(1, s.c)) \o WriteStmts(s.b)
    [] s.k = "if" -> T1("If") \o Parens(Write(1, s.c)) \o WriteStmts(s.t)
         \o (IF s.f = <<>> THEN <<>> ELSE T1("Else") \o WriteStmt(s.f[1]))

WriteFunction(name, d) ==
  T1("Fun") \o Id(name)
    \o Parens(CommaList([i \in DOMAIN d.ps |->
         IF d.ps[i].n = "self" THEN T1("Self") ELSE Id(d.ps[i].n) \o TypeName(d.ps[i].t)]))
    \o TypeName(d.r) \o WriteStmts(d.b)

WriteStruct(d) ==
  T1("Struct") \o Id(d.n) \o Braces(
    FlattenSeq([i \in DOMAIN d.fs |-> T1("Var") \o Id(d.fs[i].n) \o TypeName(d.fs[i].t) \o T1("Semicolon")])
    \o FlattenSeq([i \in DOMAIN OrderOf(d.ms) |-> WriteFunction(OrderOf(d.ms)[i], d.ms[OrderOf(d.ms)[i]])]))

WriteProgram(p) ==
  FlattenSeq([i \in DOMAIN OrderOf(p.ss) |-> WriteStruct(p.ss[OrderOf(p.ss)[i]])])
    \o FlattenSeq([i \in DOMAIN OrderOf(p.gs) |-> WriteVar(p.gs[OrderOf(p.gs)[i]])])
    \o FlattenSeq([i \in DOMAIN OrderOf(p.fns) |-> WriteFunction(OrderOf(p.fns)[i], p.fns[OrderOf(p.fns)[i]])])

(***************************************************************************)
(* The characters of a lexeme, and a text with something behind each one.  *)
(* Two words need a blank between them.                                    *)
(***************************************************************************)
Characters(l) ==
  CASE l.k \in {"Id", "Num"} -> <<l.v>>
    [] l.k = "Dot" -> <<".">> [] l.k = "Comma" -> <<",">> [] l.k = "Semicolon" -> <<";">>
    [] l.k = "LParen" -> <<"(">> [] l.k = "RParen" -> <<")">>
    [] l.k = "LBrace" -> <<"{">> [] l.k = "RBrace" -> <<"}">>
    [] l.k = "Assign" -> <<"=">> [] l.k = "Bang" -> <<"!">>
    [] l.k = "Eq" -> <<"=", "=">> [] l.k = "Ne" -> <<"!", "=">>
    [] l.k = "Lt" -> <<"<">> [] l.k = "Le" -> <<"<", "=">>
    [] l.k = "Gt" -> <<">">> [] l.k = "Ge" -> <<">", "=">>
    [] l.k = "Plus" -> <<"+">> [] l.k = "PlusAssign" -> <<"+", "=">>
    [] l.k = "Minus" -> <<"-">> [] l.k = "MinusAssign" -> <<"-", "=">>
    [] l.k = "Asterisk" -> <<"*">> [] l.k = "MulAssign" -> <<"*", "=">>
    [] l.k = "Slash" -> <<"/">> [] l.k = "DivAssign" -> <<"/", "=">>
    [] l.k = "And" -> <<"&", "&">> [] l.k = "Or" -> <<"|", "|">>
    [] l.k = "Var" -> <<"var">> [] l.k = "Fun" -> <<"fun">> [] l.k = "Struct" -> <<"struct">>
    [] l.k = "Self" -> <<"self">> [] l.k = "Return" -> <<"return">> [] l.k = "If" -> <<"if">>
    [] l.k = "Else" -> <<"else">> [] l.k = "While" -> <<"while">> [] l.k = "True" -> <<"true">>
    [] l.k = "False" -> <<"false">> [] l.k = "Null" -> <<"null">>

Punctuation == {"Dot", "Comma", "Semicolon", "LParen", "RParen", "LBrace", "RBrace",
                "Assign", "Bang", "Eq", "Ne", "Lt", "Le", "Gt", "Ge", "Plus", "PlusAssign",
                "Minus", "MinusAssign", "Asterisk", "MulAssign", "Slash", "DivAssign", "And", "Or"}

Text(ls, Behind(_)) == FlattenSeq([i \in DOMAIN ls |-> Characters(ls[i]) \o Behind(i)])

Dense(ls) ==
  Text(ls, LAMBDA i : IF i < Len(ls) /\ {ls[i].k, ls[i + 1].k} \cap Punctuation = {}
                      THEN <<" ">> ELSE <<>>)
Spaced(ls) == Text(ls, LAMBDA i : <<" ">>)
Comment == <<"/", "/", "x", ";">>

\* A comment behind the k-th lexeme and its line's end, if there is one.
Commented(ls, k, lineEnd) ==
  Text(ls, LAMBDA i : IF i = k THEN <<" ">> \o Comment \o lineEnd ELSE <<"\n">>)

(***************************************************************************)
(* Typing.  An expression has a set of types: none if it is ill typed,     *)
(* all the structs if it is null.                                          *)
(***************************************************************************)
Structs(p) == {Ref(s) : s \in DOMAIN p.ss}
FieldTypes(p, t, m) ==
  IF t \notin Structs(p) THEN {}
  ELSE {p.ss[t.n].fs[i].t : i \in {i \in DOMAIN p.ss[t.n].fs : p.ss[t.n].fs[i].n = m}}
ParamTypes(ps) == [i \in DOMAIN ps |-> ps[i].t]

RECURSIVE Types(_, _, _), WellTypedStmts(_, _, _, _, _)

\* The parameter and return types a callee is known with.
Callable(p, env, f) ==
  CASE f.k = "var" -> {[ps |-> t.ps, r |-> t.r] :
                         t \in {t \in {env[n] : n \in DOMAIN env \cap {f.n}} : t.k = "fn"}}
    [] f.k = "mem" -> {[ps |-> ParamTypes(Tail(d.ps)), r |-> d.r] : d \in
                         {p.ss[t.n].ms[f.m] : t \in {t \in Types(p, env, f.t) \cap Structs(p) :
                            f.m \in DOMAIN p.ss[t.n].ms /\ FieldTypes(p, t, f.m) = {}}}}
    [] OTHER -> {}

Types(p, env, e) ==
  LET has(x, t) == t \in Types(p, env, x)
  IN CASE e.k = "num" -> {intType}
       [] e.k = "bool" -> {boolType}
       [] e.k = "null" -> Structs(p)
       [] e.k = "var" -> {t \in {env[n] : n \in DOMAIN env \cap {e.n}} : t.k # "fn"}
       [] e.k = "un" -> {t \in {IF e.op = "Minus" THEN intType ELSE boolType} : has(e.e, t)}
       [] e.k = "mem" -> UNION {FieldTypes(p, t, e.m) : t \in
                                  IF e.t.k = "null" THEN {} ELSE Types(p, env, e.t)}
       [] e.k = "new" ->
            {t \in {e.ty} \cap Structs(p) :
               /\ DOMAIN e.fs = {p.ss[t.n].fs[i].n : i \in DOMAIN p.ss[t.n].fs}
               /\ \A n \in DOMAIN e.fs : \E ft \in FieldTypes(p, t, n) : has(e.fs[n], ft)}
       [] e.k = "call" ->
            {c.r : c \in {c \in Callable(p, env, e.f) :
               Len(c.ps) = Len(e.as) /\ \A i \in DOMAIN e.as : has(e.as[i], c.ps[i])}}
       [] e.k = "bin" /\ e.op \in {"Plus", "Minus", "Mul", "Div"} ->
            {t \in {intType} : has(e.l, intType) /\ has(e.r, intType)}
       [] e.k = "bin" /\ e.op \in {"Lt", "Gt", "Le", "Ge"} ->
            {t \in {boolType} : has(e.l, intType) /\ has(e.r, intType)}
       [] e.k = "bin" /\ e.op \in {"And", "Or"} ->
            {t \in {boolType} : has(e.l, boolType) /\ has(e.r, boolType)}
       [] e.k = "bin" /\ e.op \in {"Eq", "Ne"} ->
            {t \in {boolType} : \/ \E x \in {intType, boolType} : has(e.l, x) /\ has(e.r, x)
                            \/ /\ "null" \in {e.l.k, e.r.k}
                               /\ Types(p, env, e.l) \cap Types(p, env, e.r) \cap Structs(p) # {}}

RECURSIVE IsPlace(_)
IsPlace(e) == e.k = "var" \/ (e.k = "mem" /\ IsPlace(e.t))

(***************************************************************************)
(* Statements are typed strictly, or only as far as the compiler promises  *)
(* to look: not strictly, the sides of an assignment need not agree, null  *)
(* may be returned for any type, the name of a function may stand for a    *)
(* value, and a variable that starts as null has any struct type, but is   *)
(* not in scope afterwards.                                                *)
(***************************************************************************)
Known(p, env, e) == e.k = "null" \/ Types(p, env, e) # {} \/ Callable(p, env, e) # {}

WellTypedStmts(p, strict, env, r, ss) ==
  \/ ss = <<>>
  \/ LET s == ss[1]
         lax == ~strict
         block(body) == WellTypedStmts(p, strict, env, r, body)
         guarded == boolType \in Types(p, env, s.c)
         null == s.k = "decl" /\ s.d.e.k = "null"
         bound == IF s.k = "decl" /\ ~(lax /\ null) THEN (s.d.n :> s.d.t) @@ env ELSE env
     IN /\ CASE s.k = "decl" ->
                   s.d.t \in Types(p, env, s.d.e) \/ (lax /\ null /\ s.d.t.k = "ref")
             [] s.k = "asg" ->
                  /\ IsPlace(s.l) /\ Types(p, env, s.l) # {} /\ Known(p, env, s.r)
                  /\ lax \/ Types(p, env, s.l) \cap Types(p, env, s.r) # {}
             [] s.k = "expr" -> IF lax THEN Known(p, env, s.e) ELSE Types(p, env, s.e) # {}
             [] s.k = "ret" /\ s.e = <<>> -> r = voidType
             [] s.k = "ret" /\ s.e # <<>> ->
                  r \in Types(p, env, s.e[1]) \/ (lax /\ s.e[1].k = "null")
             [] s.k = "block" -> block(s.ss)
             [] s.k = "while" -> guarded /\ block(s.b)
             [] s.k = "if" -> guarded /\ block(s.t) /\ (s.f = <<>> \/ block(s.f))
        /\ WellTypedStmts(p, strict, bound, r, Tail(ss))

Typed(p, strict) ==
  LET top == [n \in DOMAIN p.fns |-> FnType(p.fns[n])] @@ [n \in DOMAIN p.gs |-> p.gs[n].t]
      params(ps, self) == [n \in {ps[i].n : i \in DOMAIN ps} |->
        IF n = "self" THEN self ELSE ps[CHOOSE i \in DOMAIN ps : ps[i].n = n].t]
      body(d, self) == WellTypedStmts(p, strict, params(d.ps, self) @@ top, d.r, d.b)
  IN /\ \A n \in DOMAIN p.gs : p.gs[n].t \in Types(p, top, p.gs[n].e)
     /\ \A n \in DOMAIN p.fns : ~isInstanceMethod(p.fns[n]) /\ body(p.fns[n], NoType)
     /\ \A s \in DOMAIN p.ss : \A m \in DOMAIN p.ss[s].ms : body(p.ss[s].ms[m], Ref(s))

WellTyped(p) == Typed(p, TRUE)

(***************************************************************************)
(* Running.  Values are integers: a boolean is 0 or 1, null is 0, anything *)
(* that has a place is that place's address in the memory h.  A run ends   *)
(* "ok", "ret" with a value, "stuck", or "fuel" after too many steps.      *)
(***************************************************************************)
Number(s) == CASE s \in {"0", "false"} -> 0 [] s \in {"1", "true"} -> 1 [] s = "2" -> 2 [] s = "3" -> 3
Truth(b) == IF b THEN 1 ELSE 0
Apply(op, x, y) ==
  CASE op = "Plus" -> x + y [] op = "Minus" -> x - y [] op = "Mul" -> x * y
    [] op = "Eq" -> Truth(x = y) [] op = "Ne" -> Truth(x # y) [] op = "Lt" -> Truth(x < y)
    [] op = "Gt" -> Truth(x > y) [] op = "Le" -> Truth(x <= y) [] op = "Ge" -> Truth(x >= y)
    [] OTHER -> 0

End(st, v, h) == [st |-> st, v |-> v, h |-> h]
Stuck == End("stuck", 0, <<>>)
NoFuel == End("fuel", 0, <<>>)

RECURSIVE Eval(_, _, _, _, _), EvalAll(_, _, _, _, _, _), Exec(_, _, _, _, _), Invoke(_, _, _, _, _)

\* Calls the function d: its parameters live in memory like any variable.
Invoke(p, n, h, d, args) ==
  IF n = 0 THEN NoFuel
  ELSE LET env == [x \in {d.ps[i].n : i \in DOMAIN d.ps} |->
                     Len(h) + CHOOSE i \in DOMAIN d.ps : d.ps[i].n = x]
           r == Exec(p, n - 1, env, h \o args, d.b)
       IN IF r.st \in {"ok", "ret"} THEN End("ok", r.v, r.h) ELSE r

EvalAll(p, n, env, h, es, vs) ==
  IF es = <<>> THEN End("ok", vs, h)
  ELSE Then(Eval(p, n, env, h, es[1]), LAMBDA r :
         EvalAll(p, n, env, r.h, Tail(es), Append(vs, r.v)))

\* An object is a record of its struct's name and its fields.
Eval(p, n, env, h, e) ==
  CASE e.k \in {"num", "bool"} -> End("ok", Number(e.v), h)
    [] e.k = "null" -> End("ok", 0, h)
    [] e.k = "var" -> End("ok", h[env[e.n]], h)
    [] e.k = "bin" -> Then(EvalAll(p, n, env, h, <<e.l, e.r>>, <<>>), LAMBDA r :
         End("ok", Apply(e.op, r.v[1], r.v[2]), r.h))
    [] e.k = "mem" -> Then(Eval(p, n, env, h, e.t), LAMBDA r :
         IF r.v = 0 THEN Stuck ELSE End("ok", r.h[r.v].f[e.m], r.h))
    [] e.k = "new" ->
         LET names == OrderOf(e.fs)
         IN Then(EvalAll(p, n, env, h, [i \in DOMAIN names |-> e.fs[names[i]]], <<>>), LAMBDA r :
              End("ok", Len(r.h) + 1,
                  Append(r.h, [s |-> e.ty.n,
                               f |-> [x \in DOMAIN e.fs |-> r.v[CHOOSE i \in DOMAIN names : names[i] = x]]])))
    [] e.k = "call" /\ e.f.k = "var" ->
         Then(EvalAll(p, n, env, h, e.as, <<>>), LAMBDA r : Invoke(p, n, r.h, p.fns[e.f.n], r.v))
    [] e.k = "call" /\ e.f.k = "mem" ->
         Then(EvalAll(p, n, env, h, <<e.f.t>> \o e.as, <<>>), LAMBDA r :
           IF r.v[1] = 0 THEN Stuck ELSE Invoke(p, n, r.h, p.ss[r.h[r.v[1]].s].ms[e.f.m], r.v))

Exec(p, n, env, h, ss) ==
  IF ss = <<>> THEN End("ok", 0, h)
  ELSE LET s == ss[1]
           go(newEnv, newH) == Exec(p, n, newEnv, newH, Tail(ss))
           after(r) == IF r.st = "ok" THEN go(env, r.h) ELSE r
           eval(e) == Eval(p, n, env, h, e)
       IN CASE s.k = "decl" -> Then(eval(s.d.e), LAMBDA r :
                 go((s.d.n :> Len(r.h) + 1) @@ env, Append(r.h, r.v)))
            [] s.k = "asg" /\ s.l.k = "var" -> Then(eval(s.r), LAMBDA r :
                 go(env, [r.h EXCEPT ![env[s.l.n]] = r.v]))
            [] s.k = "asg" /\ s.l.k = "mem" ->
                 Then(EvalAll(p, n, env, h, <<s.l.t, s.r>>, <<>>), LAMBDA r :
                   IF r.v[1] = 0 THEN Stuck ELSE go(env, [r.h EXCEPT ![r.v[1]].f[s.l.m] = r.v[2]]))
            [] s.k = "expr" -> after(eval(s.e))
            [] s.k = "ret" -> IF s.e = <<>> THEN End("ret", 0, h)
                 ELSE Then(eval(s.e[1]), LAMBDA r : End("ret", r.v, r.h))
            [] s.k = "block" -> after(Exec(p, n, env, h, s.ss))
            [] s.k = "if" -> Then(eval(s.c), LAMBDA r :
                 after(Exec(p, n, env, r.h, IF r.v = 1 THEN s.t ELSE s.f)))
            [] s.k = "while" -> Then(eval(s.c), LAMBDA r :
                 IF r.v = 0 THEN go(env, r.h)
                 ELSE IF n = 0 THEN NoFuel
                 ELSE LET b == Exec(p, n, env, r.h, s.b)
                      IN IF b.st = "ok" THEN Exec(p, n - 1, env, b.h, ss) ELSE b)

(***************************************************************************)
(* Running a module m of basic blocks: a slot is one cell of memory, an    *)
(* object one for each field.                                              *)
(***************************************************************************)
Undefined == -1

RECURSIVE RunIr(_, _, _, _, _, _, _, _), CallIr(_, _, _, _, _)

CallIr(m, n, h, name, args) ==
  IF n = 0 THEN NoFuel
  ELSE IF name \notin DOMAIN m THEN Stuck
  ELSE RunIr(m, n - 1, h, m[name], args, Empty, m[name].done[1], 1)

\* From the i-th instruction of a block on, with the results so far in regs.
RunIr(m, n, h, fn, args, regs, bb, i) ==
  IF i > Len(fn.bbs[bb]) THEN Stuck
  ELSE LET I == fn.bbs[bb][i]
           value(x) == CASE x.k = "imm" -> Number(x.v)
                         [] x.k = "ins" -> IF x.v \in DOMAIN regs THEN regs[x.v] ELSE Undefined
                         [] x.k = "arg" -> args[CHOOSE j \in DOMAIN fn.sig.ps : fn.sig.ps[j].n = x.v]
                         [] OTHER -> 0
           X(j) == value(I.xs[j])
           next(v, newH) == RunIr(m, n, newH, fn, args, (I.id :> v) @@ regs, bb, i + 1)
           jump(to) == IF n = 0 THEN NoFuel ELSE RunIr(m, n - 1, h, fn, args, regs, to, 1)
           allocate(cells) == next(Len(h) + 1, h \o [j \in 1 .. cells |-> Undefined])
       IN CASE I.op = "alloca" -> allocate(1)
            [] I.op = "new" -> allocate(Len(I.x[1]))
            [] I.op = "gfp" -> next(IF X(1) = 0 THEN 0 ELSE X(1) + I.x[2] - 1, h)
            [] I.op = "load" -> IF X(1) \in DOMAIN h THEN next(h[X(1)], h) ELSE Stuck
            [] I.op = "store" -> IF X(1) \in DOMAIN h THEN next(0, [h EXCEPT ![X(1)] = X(2)]) ELSE Stuck
            [] I.op = "call" ->
                 LET r == CallIr(m, n, h, I.x[1], [j \in DOMAIN I.xs |-> X(j)])
                 IN IF r.st = "ok" THEN next(r.v, r.h) ELSE r
            [] I.op = "ret" -> End("ok", IF I.xs = <<>> THEN 0 ELSE X(1), h)
            [] I.op = "goto" -> jump(I.x[1])
            [] I.op = "br" -> jump(IF X(1) = 1 THEN I.x[1] ELSE I.x[2])
            [] OTHER -> next(Apply(I.op, X(1), X(2)), h)
=============================================================================
