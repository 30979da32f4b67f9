---------------------------------- MODULE Ast ----------------------------------
(***************************************************************************)
(* The data the phases of the compiler hand to each other: lexemes, types  *)
(* and the nodes of the abstract syntax tree, as records.  Spans are left  *)
(* out, they only serve messages.  A phase that may stop returns a record  *)
(* with a field st: "ok"; "error", a frontend::Error the driver reports;   *)
(* "crash", a failed assert, a null dereference or an exception nobody     *)
(* catches; or "diverge", a loop that never ends.                          *)
(***************************************************************************)
EXTENDS Naturals, Sequences, FiniteSets, TLC

Tok(k) == [k |-> k, v |-> ""]
Lit(k, v) == [k |-> k, v |-> v]

Peek(ts) == IF ts = <<>> THEN "Eof" ELSE ts[1].k
Advance(ts) == IF ts = <<>> THEN ts ELSE Tail(ts)

(***************************************************************************)
(* Types.  NoType is the null pointer every node starts with.              *)
(***************************************************************************)
NoType == [k |-> "none"]
voidType == [k |-> "prim", n |-> "void"]
boolType == [k |-> "prim", n |-> "bool"]
intType == [k |-> "prim", n |-> "int"]
Ref(name) == [k |-> "ref", n |-> name]
Fn(params, rettype) == [k |-> "fn", ps |-> params, r |-> rettype]

typeFromString(s) ==
  IF s \in {"void", "bool", "int"} THEN [k |-> "prim", n |-> s] ELSE Ref(s)

(***************************************************************************)
(* Expressions: ty is the type pointer that the semantic analysis sets.    *)
(***************************************************************************)
UnaryExpr(op, e) == [k |-> "un", op |-> op, e |-> e, ty |-> NoType]
BinaryExpr(op, l, r) == [k |-> "bin", op |-> op, l |-> l, r |-> r, ty |-> NoType]
NumLitExpr(v) == [k |-> "num", v |-> v, ty |-> NoType]
BoolLitExpr(v) == [k |-> "bool", v |-> v, ty |-> NoType]
NullExpr == [k |-> "null", ty |-> NoType]
VarRefExpr(name) == [k |-> "var", n |-> name, ty |-> NoType]
MemberRefExpr(t, member) == [k |-> "mem", t |-> t, m |-> member, ty |-> NoType]
CallExpr(callee, args) == [k |-> "call", f |-> callee, as |-> args, ty |-> NoType]
StructInitExpr(name, fields) == [k |-> "new", fs |-> fields, ty |-> Ref(name)]

(***************************************************************************)
(* Statements.  A CompoundStmt is its sequence of statements where the     *)
(* code holds it by value; an optional part is a sequence of length 0 or 1.*)
(***************************************************************************)
CompoundStmt(ss) == [k |-> "block", ss |-> ss]
CondStmt(c, onTrue, onFalse) == [k |-> "if", c |-> c, t |-> onTrue, f |-> onFalse]
WhileStmt(c, body) == [k |-> "while", c |-> c, b |-> body]
RetStmt(value) == [k |-> "ret", e |-> value]
ExprStmt(e) == [k |-> "expr", e |-> e]
AssignmentStmt(l, r) == [k |-> "asg", l |-> l, r |-> r]
DeclStmt(d) == [k |-> "decl", d |-> d]

(***************************************************************************)
(* Declarations.  The maps of the code are functions from names.           *)
(***************************************************************************)
VarDecl(name, type, value) == [n |-> name, t |-> type, e |-> value]
Param(name, type) == [n |-> name, t |-> type]
FunctionDecl(name, params, rettype, body) ==
  [n |-> name, ps |-> params, r |-> rettype, b |-> body]
StructDecl(name, fields, methods) == [n |-> name, fs |-> fields, ms |-> methods]
File(globals, functions, structs) == [gs |-> globals, fns |-> functions, ss |-> structs]

Empty == [x \in {} |-> x]

FnType(decl) == Fn([i \in DOMAIN decl.ps |-> decl.ps[i].t], decl.r)
isInstanceMethod(decl) == decl.ps # <<>> /\ decl.ps[1].n = "self"

mangleMethodName(structName, methodName) ==
  "_R" \o ToString(Len(structName)) \o structName
       \o ToString(Len(methodName)) \o methodName

(***************************************************************************)
(* Outcomes and their sequencing: a phase stops at its first failure.      *)
(* With names a value for what follows.                                    *)
(***************************************************************************)
Ok(v) == [st |-> "ok", v |-> v]
Stop(st) == [st |-> st, v |-> NoType]
Then(r, F(_)) == IF r.st = "ok" THEN F(r) ELSE r
With(x, F(_)) == F(x)
Require(cond, st) == IF cond THEN Ok(NoType) ELSE Stop(st)
=============================================================================
