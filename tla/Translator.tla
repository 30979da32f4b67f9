------------------------------- MODULE Translator ------------------------------
(***************************************************************************)
(* The translation of the checked syntax tree to basic blocks.  The        *)
(* builder record b also carries                                           *)
(*   unit    the translation unit                                          *)
(*   names   namedValues_, from names to a value and the type it holds     *)
(*   params  the parameter names of curFunction_                           *)
(* A visit of an expression returns [b, v], one of a reference [b, v, ty]. *)
(* IR types are strings; a struct type is the sequence of its fields'.     *)
(***************************************************************************)
EXTENDS Builder

\* Any type that is neither primitive nor a function is a pointer, also none.
translateType(t) ==
  CASE t.k = "prim" -> t.n
    [] t.k = "fn" -> "fn"
    [] OTHER -> "ptr"

structFields(b, t) == b.unit.ss[t.n].fs
isStruct(b, t) == t.k = "ref" /\ t.n \in DOMAIN b.unit.ss
translateStructType(b, t) ==
  [i \in DOMAIN structFields(b, t) |-> translateType(structFields(b, t)[i].t)]

findFieldIdx(b, t, name) == {i \in DOMAIN structFields(b, t) : structFields(b, t)[i].n = name}

Signature(decl) ==
  [n |-> decl.n, r |-> translateType(decl.r),
   ps |-> [i \in DOMAIN decl.ps |-> Param(decl.ps[i].n, translateType(decl.ps[i].t))]]

\* The address of a field.  Looking up what is no field of a known struct throws.
FieldPtr(b, target, t, name) ==
  IF ~isStruct(b, t) \/ target.ty # "ptr" THEN [b |-> Crash(b), v |-> nullPtr, ty |-> "ptr"]
  ELSE IF findFieldIdx(b, t, name) = {} THEN [b |-> Crash(b), v |-> nullPtr, ty |-> "ptr"]
       ELSE LET sty == translateStructType(b, t)
                idx == CHOOSE i \in findFieldIdx(b, t, name) : TRUE
            IN Emit(b, "gfp", "ptr", <<target>>, <<sty, idx>>) @@ [ty |-> sty[idx]]

Store(b, ty, dest, src) == Emit(b, "store", "void", <<dest, src>>, <<ty>>).b

RECURSIVE visit(_, _), unrollRefToPtr(_, _), Args(_, _, _, _), Fields(_, _, _, _)

(***************************************************************************)
(* Where a reference is stored.  A member of a member is reached by a load *)
(* of the outer one; the value of a name is taken as the object itself,    *)
(* which it is for an argument and not for a local variable.               *)
(***************************************************************************)
unrollRefToPtr(b, e) ==
  CASE e.k = "var" ->
         IF e.n \in DOMAIN b.names
         THEN [b |-> b, v |-> b.names[e.n].v, ty |-> b.names[e.n].ty]
         ELSE [b |-> Crash(b), v |-> nullPtr, ty |-> "ptr"]
    [] e.k = "mem" ->
         LET r == unrollRefToPtr(b, e.t)
             target == IF e.t.k = "mem" THEN Emit(r.b, "load", r.ty, <<r.v>>, <<>>) ELSE r
         IN FieldPtr(target.b, target.v, e.t.ty, e.m)
    [] OTHER -> visit(b, e) @@ [ty |-> translateType(e.ty)]

\* An argument is its own value, also where a local variable hides it.
VisitVarRef(b, e) ==
  IF \E i \in DOMAIN b.params : b.params[i] = e.n
  THEN [b |-> b, v |-> fnArgRef(b.fn, CHOOSE i \in DOMAIN b.params : b.params[i] = e.n)]
  ELSE LET r == unrollRefToPtr(b, e) IN Emit(r.b, "load", r.ty, <<r.v>>, <<>>)

VisitMemberRef(b, e) ==
  LET r == unrollRefToPtr(b, e) IN Emit(r.b, "load", r.ty, <<r.v>>, <<>>)

VisitUnary(b, e) ==
  LET r == visit(b, e.e)
  IN Emit(r.b, IF e.op = "Minus" THEN "neg" ELSE "not", r.v.ty, <<r.v>>, <<>>)

VisitStrictUntyped(b, e) ==
  LET l == visit(b, e.l)
      r == visit(l.b, e.r)
  IN Emit(r.b, e.op, l.v.ty, <<l.v, r.v>>, <<>>)

VisitStrict(b, e) ==
  LET l == visit(b, e.l)
      r == visit(l.b, e.r)
  IN Emit(r.b, e.op, IF e.op \in CmpInstr THEN "bool" ELSE l.v.ty, <<l.v, r.v>>, <<>>)

(***************************************************************************)
(* && and ||: the result goes through a slot, and the value of the         *)
(* expression is the slot itself.  The block that stores the left          *)
(* operand's verdict and the one that evaluates the right operand are      *)
(* joined by gotos; the goto after the right operand of && is added to the *)
(* block it began in.                                                      *)
(***************************************************************************)
VisitAnd(b, e) ==
  With(visit(b, e.l), LAMBDA l :
  With(Emit(l.b, "alloca", "ptr", <<>>, <<"bool">>), LAMBDA slot :
  With(startBb(finishBb(slot.b)), LAMBDA onTrue :
  With(visit(onTrue, e.r), LAMBDA r :
  With(startBb(finishBb(Store(r.b, "bool", slot.v, r.v))), LAMBDA onFalse :
  With(startBbAndLink(Store(onFalse, "bool", slot.v, boolImm("false"))), LAMBDA next :
    [b |-> addInstr(addGoto(next, onTrue.cur, next.cur), slot.b.cur,
                    brInstr(l.v, onTrue.cur, onFalse.cur)),
     v |-> slot.v]))))))

VisitOr(b, e) ==
  With(visit(b, e.l), LAMBDA l :
  With(Emit(l.b, "alloca", "ptr", <<>>, <<"bool">>), LAMBDA slot :
  With(startBb(finishBb(slot.b)), LAMBDA onTrue :
  With(startBb(finishBb(Store(onTrue, "bool", slot.v, boolImm("true")))), LAMBDA onFalse :
  With(visit(onFalse, e.r), LAMBDA r :
  With(startBbAndLink(Store(r.b, "bool", slot.v, r.v)), LAMBDA next :
    [b |-> addInstr(addGoto(next, onTrue.cur, next.cur), slot.b.cur,
                    brInstr(l.v, onTrue.cur, onFalse.cur)),
     v |-> slot.v]))))))

\* The values of the arguments from the i-th on, evaluated in order.
Args(b, args, i, vs) ==
  IF i > Len(args) THEN [b |-> b, vs |-> vs]
  ELSE LET r == visit(b, args[i]) IN Args(r.b, args, i + 1, Append(vs, r.v))

VisitCall(b, e) ==
  LET r == Args(b, e.as, 1, <<>>)
  IN IF e.f.k # "var" \/ e.f.n \notin DOMAIN b.sigs THEN [b |-> Crash(r.b), v |-> nullPtr]
     ELSE Emit(r.b, "call", b.sigs[e.f.n].r, r.vs, <<e.f.n>>)

(***************************************************************************)
(* The initialisers are stored in the order of a hash map, which the model *)
(* takes to be that of the declaration.                                    *)
(***************************************************************************)
Fields(b, e, i, obj) ==
  IF i > Len(structFields(b, e.ty)) THEN b
  ELSE LET name == structFields(b, e.ty)[i].n
           r == visit(b, e.fs[name])
           p == FieldPtr(r.b, obj, e.ty, name)
       IN Fields(Store(p.b, p.ty, p.v, r.v), e, i + 1, obj)

VisitStructInit(b, e) ==
  LET obj == Emit(b, "new", "ptr", <<>>, <<translateStructType(b, e.ty)>>)
  IN [b |-> Fields(obj.b, e, 1, obj.v), v |-> obj.v]

visit(b, e) ==
  CASE e.k = "num" -> [b |-> b, v |-> intImm(e.v)]
    [] e.k = "bool" -> [b |-> b, v |-> boolImm(e.v)]
    [] e.k = "null" -> [b |-> b, v |-> nullPtr]
    [] e.k = "var" -> VisitVarRef(b, e)
    [] e.k = "mem" -> VisitMemberRef(b, e)
    [] e.k = "un" -> VisitUnary(b, e)
    [] e.k = "bin" /\ e.op = "And" -> VisitAnd(b, e)
    [] e.k = "bin" /\ e.op = "Or" -> VisitOr(b, e)
    [] e.k = "bin" /\ e.op \notin {"And", "Or"} -> VisitStrict(b, e)
    [] e.k = "call" -> VisitCall(b, e)
    [] e.k = "new" -> VisitStructInit(b, e)

-------------------------------------------------------------------------------

RECURSIVE VisitStmt(_, _), VisitStmts(_, _)

\* The name is bound before its initialiser is translated.
VisitVarDecl(b, d) ==
  LET ty == translateType(d.t)
      slot == Emit(b, "alloca", "ptr", <<>>, <<ty>>)
      r == visit([slot.b EXCEPT !.names = (d.n :> [v |-> slot.v, ty |-> ty]) @@ @], d.e)
  IN Store(r.b, ty, slot.v, r.v)

\* The statements of a block, whose names stay bound after it.
VisitStmts(b, ss) == IF ss = <<>> THEN b ELSE VisitStmts(VisitStmt(b, ss[1]), Tail(ss))

\* The arms of an if joined: a first block of the true arm without a terminator
\* is taken as the sign that control goes on behind the statement.
Join(b, trueBlock, falseBlock, innerTail) ==
  IF hasTerminator(b, trueBlock) THEN b
  ELSE LET b1 == startBbAndLink(b)
           b2 == addGoto(addGoto(b1, trueBlock, b1.cur), innerTail, b1.cur)
       IN IF falseBlock # 0 /\ ~hasTerminator(b2, falseBlock)
          THEN addGoto(b2, falseBlock, b1.cur) ELSE b2

FallThroughLinks(b) == startBbAndLink(b)

\* The block that an if without a false block goes to.
FallThrough(b) ==
  IF b.cur # 0 /\ ~hasTerminator(b, b.cur) THEN startBbAndLink(b) ELSE startBb(finishBb(b))

\* The else branch, if there is one: the block it begins in and the one it ends in.
ElseArm(b, f) ==
  IF f = <<>> THEN [b |-> b, block |-> 0, tail |-> 0]
  ELSE With(startBb(finishBb(b)), LAMBDA b1 :
       With(VisitStmt(b1, f[1]), LAMBDA b2 :
         [b |-> finishBb(b2), block |-> b1.cur, tail |-> b2.cur]))

VisitCond(b, s) ==
  With(visit(b, s.c), LAMBDA c :
  With(startBb(finishBb(c.b)), LAMBDA onTrue :
  With(ElseArm(VisitStmts(onTrue, s.t), s.f), LAMBDA arm :
  With(Join(arm.b, onTrue.cur, arm.block, arm.tail), LAMBDA b1 :
  With(IF arm.block = 0 /\ ~hasTerminator(arm.b, onTrue.cur) THEN b1.cur ELSE arm.block,
       LAMBDA falseBlock :
  With(IF falseBlock = 0 THEN FallThrough(b1) ELSE b1, LAMBDA b2 :
    addInstr(b2, c.b.cur,
             brInstr(c.v, onTrue.cur, IF falseBlock = 0 THEN b2.cur ELSE falseBlock))))))))

VisitWhile(b, s) ==
  With(startBbAndLink(b), LAMBDA header :
  With(visit(header, s.c), LAMBDA c :
  With(startBb(finishBb(c.b)), LAMBDA body :
  With(VisitStmts(body, s.b), LAMBDA b1 :
  With(startBb(finishBb(addGoto(b1, b1.cur, header.cur))), LAMBDA next :
    addInstr(next, c.b.cur, brInstr(c.v, body.cur, next.cur)))))))

VisitRet(b, s) ==
  IF s.e = <<>> THEN addInstr(b, b.cur, retInstr(<<>>))
  ELSE LET r == visit(b, s.e[1]) IN addInstr(r.b, r.b.cur, retInstr(<<r.v>>))

VisitAssignment(b, s) ==
  LET dest == unrollRefToPtr(b, s.l)
      src == visit(dest.b, s.r)
  IN Store(src.b, dest.ty, dest.v, src.v)

VisitStmt(b, s) ==
  CASE s.k = "decl" -> VisitVarDecl(b, s.d)
    [] s.k = "block" -> VisitStmts(b, s.ss)
    [] s.k = "if" -> VisitCond(b, s)
    [] s.k = "while" -> VisitWhile(b, s)
    [] s.k = "ret" -> VisitRet(b, s)
    [] s.k = "expr" -> visit(b, s.e).b
    [] s.k = "asg" -> VisitAssignment(b, s)

\* Only a void function gets the return it lacks.
VisitFunction(b, decl) ==
  LET sig == b.sigs[decl.n]
      bound == [p \in {sig.ps[i].n : i \in DOMAIN sig.ps} |->
                  LET i == CHOOSE i \in DOMAIN sig.ps : sig.ps[i].n = p
                  IN [v |-> fnArgRef(sig, i), ty |-> sig.ps[i].t]]
      start == startFunction([b EXCEPT !.names = bound @@ @,
                                !.params = [i \in DOMAIN decl.ps |-> decl.ps[i].n]], sig)
  IN With(VisitStmts(startBb(start), decl.b), LAMBDA body :
     With(IF body.cur # 0 /\ ~hasTerminator(body, body.cur) /\ sig.r = "void"
          THEN addInstr(body, body.cur, retInstr(<<>>)) ELSE body, LAMBDA ended :
       [finishFunction(IF ended.cur = 0 THEN ended ELSE finishBb(ended))
          EXCEPT !.names = b.names, !.params = <<>>]))

(***************************************************************************)
(* Before the functions: the globals are declared, in a function that      *)
(* returns without evaluating their initialisers, and every signature is   *)
(* known.                                                                  *)
(***************************************************************************)
GlobalInit(b) ==
  LET sig == [n |-> "_Rglobal_init", ps |-> <<>>, r |-> "void"]
      b1 == startBb(startFunction(addFunctionSignature(b, sig.n, sig), sig))
      gs == [g \in DOMAIN b.unit.gs |-> translateType(b.unit.gs[g].t)]
      b2 == [b1 EXCEPT !.gs = gs, !.names = [g \in DOMAIN gs |-> [v |-> GlobalPtr(g), ty |-> gs[g]]]]
  IN finishFunction(finishBb(addInstr(b2, b2.cur, retInstr(<<>>))))

Prologue(unit) ==
  LET b == NewBuilder @@ [unit |-> unit, names |-> Empty, params |-> <<>>]
      b1 == IF DOMAIN unit.gs = {} THEN b ELSE GlobalInit(b)
  IN [b1 EXCEPT !.sigs = @ @@ [f \in {unit.fns[n].n : n \in DOMAIN unit.fns} |->
                     Signature(CHOOSE d \in {unit.fns[n] : n \in DOMAIN unit.fns} : d.n = f)]]
=============================================================================
