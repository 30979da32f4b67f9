------------------------------- MODULE MCCompiler ------------------------------
(***************************************************************************)
(* Programs for the model checker, in families that each aim at one part   *)
(* of the compiler.  All of them have an entry function f.                 *)
(***************************************************************************)
EXTENDS Compiler

V(n) == VarRefExpr(n)
N(n) == NumLitExpr(n)
B(op, l, r) == BinaryExpr(op, l, r)
Dot(t, m) == MemberRefExpr(t, m)
Call(f, as) == CallExpr(f, as)
Let(n, t, e) == DeclStmt(VarDecl(n, t, e))
Set(l, r) == AssignmentStmt(l, r)
Return(e) == RetStmt(<<e>>)

\* A file with one function, and one with a struct besides.
Fun(n, ps, r, b) == FunctionDecl(n, ps, r, b)
Named(ds) == [n \in {d.n : d \in ds} |-> CHOOSE d \in ds : d.n = n]
Only(ps, r, b) == File(Empty, Named({Fun("f", ps, r, b)}), Empty)
PInt == <<Param("p", intType)>>

(***************************************************************************)
(* Expressions: every way to nest two or three operators of different and  *)
(* equal precedence.                                                       *)
(***************************************************************************)
Ops == {"Plus", "Minus", "Mul", "Lt", "Eq", "And", "Or"}
Leaf(i) == <<V("p"), N("1"), N("2"), V("p")>>[i]
Nested == {B(o1, B(o2, Leaf(1), Leaf(2)), Leaf(3)) : o1, o2 \in Ops}
  \cup {B(o1, Leaf(1), B(o2, Leaf(2), Leaf(3))) : o1, o2 \in Ops}
  \cup {B(o1, B(o2, Leaf(1), Leaf(2)), B(o3, Leaf(3), Leaf(4))) : o1, o2, o3 \in Ops}
Expressional == {Only(PInt, t, <<Return(e)>>) : e \in Nested, t \in {intType, boolType}}

(***************************************************************************)
(* Control flow: blocks of assignments and returns, the ifs and whiles     *)
(* over them, and those inside another statement.                          *)
(***************************************************************************)
Step == Set(V("x"), B("Plus", V("x"), N("1")))
Below == B("Lt", V("x"), N("2"))
Both == B("And", Below, B("Lt", V("p"), N("1")))
Plain == {<<>>, <<Step>>, <<Return(V("x"))>>, <<Step, Return(V("x"))>>, <<Return(V("x")), Step>>}
Compound == {CondStmt(Below, t, <<>>) : t \in Plain}
  \cup {CondStmt(c, t, <<CompoundStmt(f)>>) : t, f \in Plain, c \in {Below, Both}}
  \cup {WhileStmt(Below, b) : b \in Plain}
Deep == {CondStmt(Below, <<s>>, <<CompoundStmt(<<Step>>)>>) : s \in Compound}
  \cup {CondStmt(Below, <<s>>, <<>>) : s \in Compound}
  \cup {CondStmt(Below, <<Step>>, <<s>>) : s \in {s \in Compound : s.k = "if"}}
  \cup {CondStmt(Below, <<Return(V("x"))>>, <<s>>) : s \in {s \in Compound : s.k = "if"}}
  \cup {WhileStmt(Below, <<s, Step>>) : s \in Compound}
Bodies == {<<Let("x", intType, V("p")), s>> \o rest :
             s \in Compound \cup Deep, rest \in {<<>>, <<Return(V("x"))>>}}
Controlled == {Only(PInt, intType, b) : b \in Bodies}

(***************************************************************************)
(* Types: every expression of a list, right or wrong, in every place that  *)
(* expects a type.  The file also has a struct with a method, a function   *)
(* over it and a global.                                                   *)
(***************************************************************************)
NewS(x, n) == StructInitExpr("S", [x |-> x, n |-> n])
Method(s, n, ps, r, b) == Fun(mangleMethodName(s, n), <<Param("self", NoType)>> \o ps, r, b)
FieldsS == <<Param("x", intType), Param("n", Ref("S"))>>
Get == Method("S", "get", <<>>, intType, <<Return(Dot(V("self"), "x"))>>)
StructS(ms) == StructDecl("S", FieldsS, ms)
G(b) == Fun("g", <<Param("s", Ref("S"))>>, intType, b)
Global == VarDecl("glob", intType, N("1"))
OnlyS(ms) == [S |-> StructS(ms)]

Objects ==
  {V("p"), V("s"), V("g"), V("q"), V("glob"), N("1"), BoolLitExpr("true"), NullExpr,
   Dot(V("s"), "x"), Dot(V("s"), "n"), Dot(Dot(V("s"), "n"), "x"), Dot(V("s"), "get"),
   Dot(V("s"), "y"), Dot(V("p"), "x"), Dot(NullExpr, "x"), Dot(NewS(V("p"), NullExpr), "x"),
   Call(Dot(V("s"), "get"), <<>>), Call(Dot(V("s"), "get"), <<N("1")>>),
   Call(Dot(NewS(V("p"), NullExpr), "get"), <<>>), Call(Dot(Dot(V("s"), "n"), "get"), <<>>),
   Call(V("g"), <<V("s")>>), Call(V("g"), <<NullExpr>>), Call(V("g"), <<V("p")>>),
   Call(V("g"), <<>>), Call(V("p"), <<>>), Call(NullExpr, <<>>), Call(V("f"), <<V("p")>>),
   Call(V("g"), <<NewS(V("p"), NewS(N("2"), NullExpr))>>),
   NewS(V("p"), NullExpr), NewS(NullExpr, NullExpr), NewS(V("p"), V("p")),
   StructInitExpr("S", [x |-> V("p")]), StructInitExpr("Z", Empty),
   StructInitExpr("S", [x |-> V("p"), n |-> NullExpr, z |-> N("1")]),
   B("Eq", V("s"), NullExpr), B("Eq", V("s"), V("s")), B("Ne", NullExpr, NullExpr),
   B("Eq", V("p"), NullExpr), B("Plus", V("p"), NullExpr), B("Lt", V("s"), V("p"))}

Uses(e) ==
  {<<Return(e)>>, <<Let("y", intType, e), Return(V("y"))>>,
   <<Let("y", Ref("S"), e), Return(V("p"))>>, <<Let("y", Ref("S"), e), Return(Dot(V("y"), "x"))>>,
   <<ExprStmt(e), Return(V("p"))>>, <<Set(e, N("2")), Return(V("p"))>>,
   <<Set(Dot(V("s"), "n"), e), Return(V("p"))>>,
   <<CondStmt(e, <<Return(N("1"))>>, <<>>), Return(N("2"))>>}
InF(uses) == Fun("f", PInt, intType, <<Let("s", Ref("S"), NewS(V("p"), NullExpr))>> \o uses)
InG(uses) == G(uses)
Typing ==
  {File([glob |-> Global], [f |-> InF(u), g |-> G(<<Return(Dot(V("s"), "x"))>>)], OnlyS([get |-> Get])) :
     u \in UNION {Uses(e) : e \in Objects}}

(***************************************************************************)
(* Effects: a function over a struct that is its parameter, with every     *)
(* two statements of a list, called by f.                                  *)
(***************************************************************************)
SX == Dot(V("s"), "x")
SNX == Dot(Dot(V("s"), "n"), "x")
Effects ==
  {Set(SX, B("Plus", SX, N("1"))), Set(SNX, SX), Set(SX, SNX), Set(Dot(V("s"), "n"), V("s")),
   Set(Dot(V("s"), "n"), NewS(SX, NullExpr)), ExprStmt(Call(Dot(Dot(V("s"), "n"), "set"), <<SX>>)),
   CondStmt(B("Lt", SX, N("2")), <<Set(SX, N("2"))>>, <<CompoundStmt(<<Set(SNX, N("1"))>>)>>),
   WhileStmt(B("Lt", SX, N("3")), <<Set(SX, B("Plus", SX, N("2"))), Set(SNX, SX)>>)}
SetX == Method("S", "set", <<Param("v", intType)>>, voidType, <<Set(Dot(V("self"), "x"), V("v"))>>)
Effective ==
  {File(Empty,
     [f |-> Fun("f", PInt, intType, <<Return(Call(V("g"), <<NewS(V("p"), NewS(N("1"), NullExpr))>>))>>),
      g |-> G(<<a, b, Return(B("Plus", B("Mul", N("3"), SX), SNX))>>)],
     OnlyS([set |-> SetX])) : a, b \in Effects}

(***************************************************************************)
(* Declarations: methods that call methods, names that hide or repeat      *)
(* others, variables without a value and parameters that are written.      *)
(***************************************************************************)
Twice == Method("S", "twice", <<>>, intType,
                <<Return(B("Plus", Call(Dot(V("self"), "get"), <<>>), Dot(V("self"), "x")))>>)
Self(n) == Method("S", n, <<>>, intType, <<Return(Call(Dot(V("self"), n), <<>>))>>)
OfR == StructDecl("R", <<Param("s", Ref("S"))>>,
         [get |-> Method("R", "get", <<>>, intType, <<Return(Call(Dot(Dot(V("self"), "s"), "get"), <<>>))>>)])
UseR == Fun("f", PInt, intType,
          <<Return(Call(Dot(StructInitExpr("R", [s |-> NewS(V("p"), NullExpr)]), "get"), <<>>))>>)
FBody(b) == [f |-> Fun("f", PInt, intType, b)]
Twice2 == Call(Dot(NewS(V("p"), NullExpr), "twice"), <<>>)
NoSelf == Fun(mangleMethodName("S", "get"), PInt, intType, <<Return(V("p"))>>)
Hide(in) == <<Let("y", intType, N("1")), CompoundStmt(<<Let(in, intType, N("2"))>>), Return(V("y"))>>
Declarative ==
  {File(Empty, FBody(<<Return(Twice2)>>), OnlyS([get |-> Get, twice |-> Twice])),
   File(Empty, FBody(<<Return(N("1"))>>), OnlyS([get |-> Self("get")])),
   File(Empty, [f |-> UseR], [S |-> StructS([get |-> Get]), R |-> OfR]),
   File(Empty, FBody(<<Return(N("1"))>>), OnlyS([get |-> NoSelf])),
   File(Empty, FBody(<<Return(N("1"))>>), OnlyS([x |-> [Get EXCEPT !.n = mangleMethodName("S", "x")]])),
   File(Empty, FBody(<<Return(N("1"))>>), [S |-> StructDecl("S", <<FieldsS[1], FieldsS[1]>>, Empty)]),
   File([f |-> VarDecl("f", intType, N("1"))], FBody(<<Return(N("1"))>>), Empty),
   File([a |-> VarDecl("a", intType, V("b")), b |-> VarDecl("b", intType, N("1"))],
        FBody(<<Return(V("a"))>>), Empty),
   File([a |-> VarDecl("a", Ref("S"), NullExpr)], FBody(<<Return(V("p"))>>), OnlyS(Empty)),
   File([a |-> VarDecl("a", intType, BoolLitExpr("true"))], FBody(<<Return(V("p"))>>), Empty),
   Only(<<Param("p", intType), Param("p", intType)>>, intType, <<Return(N("1"))>>),
   Only(<<Param("self", NoType)>>, intType, <<Return(N("1"))>>),
   Only(PInt, voidType, <<RetStmt(<<>>)>>), Only(PInt, voidType, <<>>),
   Only(PInt, intType, <<RetStmt(<<>>)>>), Only(PInt, voidType, <<Return(N("1"))>>),
   Only(PInt, Ref("S"), <<Return(NullExpr)>>), Only(PInt, intType, <<Return(NullExpr)>>),
   Only(PInt, intType, <<Set(V("p"), N("1")), Return(V("p"))>>),
   Only(PInt, intType, <<Let("z", Ref("Z"), NullExpr), Return(N("1"))>>)}
  \cup {Only(PInt, intType, Hide(n)) : n \in {"y", "z", "p"}}
  \cup {Only(PInt, intType, <<CompoundStmt(<<Let("z", intType, N("2"))>>), Return(V("z"))>>)}
  \cup {Only(PInt, intType, <<Let("z", intType, V("z")), Return(V("z"))>>)}

Prefixed == {Only(PInt, t, <<Return(UnaryExpr(op, e))>>) :
               t \in {intType, boolType}, op \in {"Not", "Minus"}, e \in {V("p"), Below}}
MCPrograms == Expressional \cup Controlled \cup Typing \cup Effective \cup Declarative \cup Prefixed

Conditional == {Only(PInt, voidType, <<CondStmt(B("Lt", V("p"), N("1")), t, f)>>) :
                  t \in {<<>>, <<RetStmt(<<>>)>>}, f \in {<<>>, <<CompoundStmt(<<>>)>>}}

(***************************************************************************)
(* Every program is written densely; the ones with declarations of all     *)
(* kinds also with a blank behind every lexeme, and with a comment behind  *)
(* any of their first five lexemes or at the end.                          *)
(***************************************************************************)
MCTexts(p) ==
  LET ls == WriteProgram(p)
  IN {Dense(ls)} \cup
     IF p \notin Declarative \cup Prefixed THEN {}
     ELSE {Spaced(ls), Commented(ls, Len(ls), <<>>)} \cup {Commented(ls, k, <<"\n">>) : k \in 0 .. 5}
DenseOnly(p) == {Dense(WriteProgram(p))}

MCInputs == {<<0>>, <<1>>, <<2>>}
=============================================================================
