--------------------------------- MODULE Sema ----------------------------------
(***************************************************************************)
(* The semantic analysis.  A visit takes a context c and a node and gives  *)
(* the node with its type pointers set:                                    *)
(*   c.file    the declarations, among them what was visited before        *)
(*   c.sc      the scopes, innermost first                                 *)
(*   c.fn      the function whose body is visited                          *)
(*   c.ub      what the build makes of a null type pointer that is         *)
(*             dereferenced: "crash" where the library asserts, "error"    *)
(*             where the comparison just fails                             *)
(* Visits of statements return the scopes they leave behind as well.       *)
(***************************************************************************)
EXTENDS Ast

pushScope(sc) == <<Empty>> \o sc
addOrShadow(sc, name, type) == [sc EXCEPT ![1] = (name :> type) @@ @]
Binding(sc, name) == {i \in DOMAIN sc : name \in DOMAIN sc[i]}
lookup(sc, name) ==
  sc[CHOOSE i \in Binding(sc, name) : \A j \in Binding(sc, name) : i <= j][name]

SemaError == Stop("error")
isTypeRef(t) == t.k = "ref"

\* Compares two types through their pointers.
Match(c, a, b) ==
  IF NoType \in {a, b} THEN Stop(c.ub) ELSE Require(a = b, "error")

\* A null takes the type its place expects; anything else is left to be visited.
inferTypeIfNull(e, expected) ==
  IF isTypeRef(expected) THEN Ok([e EXCEPT !.ty = expected]) ELSE SemaError

RECURSIVE isAssignable(_)
isAssignable(e) ==
  /\ e.k = "var" \/ (e.k = "mem" /\ isAssignable(e.t))
  /\ e.ty # voidType /\ e.ty.k # "fn"

fieldType(decl, name) ==
  LET i == CHOOSE i \in DOMAIN decl.fs : decl.fs[i].n = name IN decl.fs[i].t
hasField(decl, name) == \E i \in DOMAIN decl.fs : decl.fs[i].n = name

(***************************************************************************)
(* The operand types of a binary operator; null has none, and compares     *)
(* only with a struct or another null.                                     *)
(***************************************************************************)
CheckOperands(c, op, l, r) ==
  CASE op \in {"Eq", "Ne"} /\ "null" \in {l.k, r.k} ->
         Require(\A x \in {l, r} : x.k = "null" \/ isTypeRef(x.ty), "error")
    [] op \in {"Eq", "Ne"} /\ "null" \notin {l.k, r.k} ->
         Require(l.ty \in {boolType, intType} /\ l.ty = r.ty, "error")
    [] op \in {"And", "Or"} ->
         Then(Match(c, l.ty, boolType), LAMBDA x : Match(c, r.ty, boolType))
    [] OTHER -> Then(Match(c, l.ty, intType), LAMBDA x : Match(c, r.ty, intType))

ResultType(op) == IF op \in {"Plus", "Minus", "Mul", "Div"} THEN intType ELSE boolType

RECURSIVE visit(_, _), Initialise(_, _, _), Arguments(_, _, _, _)

VisitUnary(c, e) ==
  LET expected == IF e.op = "Minus" THEN intType ELSE boolType
  IN Then(visit(c, e.e), LAMBDA s :
     Then(Match(c, s.v.ty, expected), LAMBDA x :
       Ok([e EXCEPT !.e = s.v, !.ty = s.v.ty])))

VisitBinary(c, e) ==
  Then(visit(c, e.l), LAMBDA l :
  Then(visit(c, e.r), LAMBDA r :
  Then(CheckOperands(c, e.op, l.v, r.v), LAMBDA x :
    Ok([e EXCEPT !.l = l.v, !.r = r.v, !.ty = ResultType(e.op)]))))

VisitVarRef(c, e) ==
  IF Binding(c.sc, e.n) = {} THEN SemaError ELSE Ok([e EXCEPT !.ty = lookup(c.sc, e.n)])

VisitMemberRef(c, e) ==
  Then(visit(c, e.t), LAMBDA t :
    IF ~isTypeRef(t.v.ty) \/ t.v.ty.n \notin DOMAIN c.file.ss THEN SemaError
    ELSE LET decl == c.file.ss[t.v.ty.n]
             member(type) == Ok([e EXCEPT !.t = t.v, !.ty = type])
         IN CASE hasField(decl, e.m) -> member(fieldType(decl, e.m))
              [] ~hasField(decl, e.m) /\ e.m \in DOMAIN decl.ms ->
                   member(FnType(decl.ms[e.m]))
              [] OTHER -> SemaError)

\* The arguments from the i-th on against the parameters of the callee.
Arguments(c, params, args, i) ==
  IF i > Len(args) THEN Ok(args)
  ELSE Then(IF args[i].k = "null" THEN inferTypeIfNull(args[i], params[i])
            ELSE Then(visit(c, args[i]), LAMBDA a :
                 Then(Match(c, params[i], a.v.ty), LAMBDA x : a)),
            LAMBDA a : Arguments(c, params, [args EXCEPT ![i] = a.v], i + 1))

(***************************************************************************)
(* A call through a member: the object becomes the first argument and the  *)
(* callee a reference to the mangled name, which has to be in scope.       *)
(***************************************************************************)
ResolveMethod(c, e, callee) ==
  LET method == c.file.ss[callee.t.ty.n].ms[callee.m]
  IN Then(visit(c, VarRefExpr(method.n)), LAMBDA ref :
       Ok([e EXCEPT !.f = [ref.v EXCEPT !.ty = FnType(method)],
                    !.as = <<callee.t>> \o @]))

VisitCall(c, e) ==
  Then(visit(c, e.f), LAMBDA f :
  Then(IF f.v.ty.k = "fn" THEN Ok(NoType)
       ELSE Stop(IF f.v.ty = NoType THEN c.ub ELSE "error"), LAMBDA x :
  Then(IF f.v.k = "mem" THEN ResolveMethod(c, e, f.v) ELSE Ok([e EXCEPT !.f = f.v]),
       LAMBDA call :
  Then(Require(Len(call.v.as) = Len(call.v.f.ty.ps), "error"), LAMBDA y :
  Then(Arguments(c, call.v.f.ty.ps, call.v.as, 1), LAMBDA args :
    Ok([call.v EXCEPT !.as = args.v, !.ty = call.v.f.ty.r]))))))

\* The initialisers of the i-th field of the struct and those after it.
Initialise(c, e, i) ==
  LET decl == c.file.ss[e.ty.n]
  IN IF i > Len(decl.fs) THEN Ok(e)
     ELSE LET f == decl.fs[i]
          IN IF f.n \notin DOMAIN e.fs THEN SemaError
             ELSE Then(IF e.fs[f.n].k = "null" THEN inferTypeIfNull(e.fs[f.n], f.t)
                       ELSE Then(visit(c, e.fs[f.n]), LAMBDA v :
                            Then(Match(c, f.t, v.v.ty), LAMBDA x : v)),
                       LAMBDA v : Initialise(c, [e EXCEPT !.fs[f.n] = v.v], i + 1))

\* An unknown struct is an exception of the map that nobody catches.
VisitStructInit(c, e) ==
  IF e.ty.n \notin DOMAIN c.file.ss THEN Stop("crash")
  ELSE IF \E n \in DOMAIN e.fs : ~hasField(c.file.ss[e.ty.n], n) THEN SemaError
       ELSE Initialise(c, e, 1)

visit(c, e) ==
  CASE e.k = "un" -> VisitUnary(c, e)
    [] e.k = "bin" -> VisitBinary(c, e)
    [] e.k = "num" -> Ok([e EXCEPT !.ty = intType])
    [] e.k = "bool" -> Ok([e EXCEPT !.ty = boolType])
    [] e.k = "null" -> Ok(e)
    [] e.k = "var" -> VisitVarRef(c, e)
    [] e.k = "mem" -> VisitMemberRef(c, e)
    [] e.k = "call" -> VisitCall(c, e)
    [] e.k = "new" -> VisitStructInit(c, e)

-------------------------------------------------------------------------------

Stmt(v, sc) == [st |-> "ok", v |-> v, sc |-> sc]

VisitVarDeclUnchecked(c, d) ==
  Then(visit(c, d.e), LAMBDA e : Stmt([d EXCEPT !.e = e.v], addOrShadow(c.sc, d.n, d.t)))

\* The declaration with its initialiser checked.  One initialised with null is
\* left before its name enters the scope.
VisitVarDecl(c, d) ==
  IF d.e.k = "null"
  THEN Then(inferTypeIfNull(d.e, d.t), LAMBDA e : Stmt([d EXCEPT !.e = e.v], c.sc))
  ELSE Then(visit(c, d.e), LAMBDA e :
       Then(Match(c, e.v.ty, d.t), LAMBDA x :
         Stmt([d EXCEPT !.e = e.v], addOrShadow(c.sc, d.n, d.t))))

\* A null that is returned takes the return type, whatever that is.
VisitRet(c, s) ==
  IF s.e = <<>> THEN Then(Match(c, voidType, c.fn.r), LAMBDA x : Stmt(s, c.sc))
  ELSE Then(visit(c, s.e[1]), LAMBDA e :
         LET typed == IF e.v.ty = NoType THEN [e.v EXCEPT !.ty = c.fn.r] ELSE e.v
         IN Then(Match(c, typed.ty, c.fn.r), LAMBDA x : Stmt([s EXCEPT !.e = <<typed>>], c.sc)))

\* The sides of an assignment are checked each by itself.
VisitAssignment(c, s) ==
  Then(visit(c, s.l), LAMBDA l :
  Then(visit(c, s.r), LAMBDA r :
  Then(IF l.v.ty = NoType THEN Stop(c.ub) ELSE Require(isAssignable(l.v), "error"),
       LAMBDA x : Stmt([s EXCEPT !.l = l.v, !.r = r.v], c.sc))))

RECURSIVE VisitStmt(_, _), VisitStmts(_, _, _)

\* The statements from the i-th on, each in the scope the one before it leaves.
VisitStmts(c, ss, i) ==
  IF i > Len(ss) THEN Stmt(ss, c.sc)
  ELSE Then(VisitStmt(c, ss[i]), LAMBDA s :
         VisitStmts([c EXCEPT !.sc = s.sc], [ss EXCEPT ![i] = s.v], i + 1))

\* A block in a scope of its own.
VisitCompound(c, ss) ==
  Then(VisitStmts([c EXCEPT !.sc = pushScope(@)], ss, 1), LAMBDA r : Stmt(r.v, c.sc))

Condition(c, e) ==
  Then(visit(c, e), LAMBDA r : Then(Match(c, r.v.ty, boolType), LAMBDA x : r))

VisitCond(c, s) ==
  Then(Condition(c, s.c), LAMBDA cond :
  Then(VisitCompound(c, s.t), LAMBDA t :
  Then(IF s.f = <<>> THEN Ok(<<>>)
       ELSE Then(VisitStmt(c, s.f[1]), LAMBDA f : Ok(<<f.v>>)), LAMBDA f :
    Stmt(CondStmt(cond.v, t.v, f.v), c.sc))))

VisitWhile(c, s) ==
  Then(Condition(c, s.c), LAMBDA cond :
  Then(VisitCompound(c, s.b), LAMBDA b : Stmt(WhileStmt(cond.v, b.v), c.sc)))

VisitStmt(c, s) ==
  CASE s.k = "ret" -> VisitRet(c, s)
    [] s.k = "expr" -> Then(visit(c, s.e), LAMBDA e : Stmt(ExprStmt(e.v), c.sc))
    [] s.k = "asg" -> VisitAssignment(c, s)
    [] s.k = "decl" -> Then(VisitVarDecl(c, s.d), LAMBDA d : Stmt(DeclStmt(d.v), d.sc))
    [] s.k = "block" -> Then(VisitCompound(c, s.ss), LAMBDA b : Stmt(CompoundStmt(b.v), c.sc))
    [] s.k = "if" -> VisitCond(c, s)
    [] s.k = "while" -> VisitWhile(c, s)

-------------------------------------------------------------------------------

WithSelfForgotten(decl, struct) == decl

\* The parameter self gets the type of the struct.
WithSelf(decl, struct) == [decl EXCEPT !.ps[1].t = Ref(struct)]

RECURSIVE BindParams(_, _)
BindParams(sc, params) ==
  IF params = <<>> THEN sc
  ELSE BindParams(addOrShadow(sc, params[1].n, params[1].t), Tail(params))

(***************************************************************************)
(* The body of a function, whose own name enters the scope it is declared  *)
(* in; that is what makes a method known by its mangled name.              *)
(***************************************************************************)
VisitFunction(c, decl) ==
  LET sc == addOrShadow(c.sc, decl.n, FnType(decl))
      inner == [c EXCEPT !.sc = BindParams(pushScope(sc), decl.ps), !.fn = decl]
  IN Then(VisitCompound(inner, decl.b), LAMBDA b : Stmt([decl EXCEPT !.b = b.v], sc))

\* A method of a struct, or a function outside of any.
VisitMethod(c, struct, name) ==
  LET decl == WithSelf(c.file.ss[struct].ms[name], struct)
  IN VisitFunction([c EXCEPT !.file.ss[struct].ms[name] = decl], decl)

VisitTopLevel(c, decl) ==
  IF isInstanceMethod(decl) THEN SemaError ELSE VisitFunction(c, decl)

\* Functions first, then globals; a name is in only one of the two.
fillTopLevelScope(file) ==
  <<[n \in DOMAIN file.gs |-> file.gs[n].t] @@ [n \in DOMAIN file.fns |-> FnType(file.fns[n])]>>

\* What the translation is given: methods join the functions under their mangled
\* names unless a function has that name.
TranslationUnit(file) ==
  LET methods == {file.ss[p[1]].ms[p[2]] : p \in
                    {p \in (DOMAIN file.ss) \X UNION {DOMAIN file.ss[s].ms : s \in DOMAIN file.ss} :
                       p[2] \in DOMAIN file.ss[p[1]].ms}}
  IN [gs |-> file.gs, ss |-> file.ss,
      fns |-> file.fns @@ [n \in {m.n : m \in methods} |-> CHOOSE m \in methods : m.n = n]]
=============================================================================
