-------------------------------- MODULE Parser ---------------------------------
(***************************************************************************)
(* The recursive-descent parser with an operator-precedence core.  Every   *)
(* operator takes the lexemes that are left and returns a record [st, v,   *)
(* ts]: the outcome, the node and the lexemes that follow it.              *)
(***************************************************************************)
EXTENDS Ast

At(v, ts) == [st |-> "ok", v |-> v, ts |-> ts]
SyntaxError == Stop("error")

get(tok, ts) ==
  IF Peek(ts) = tok THEN At(ts[1].v, Tail(ts)) ELSE SyntaxError

unaryOpFromToken == [Bang |-> "Not", Minus |-> "Minus"]

binaryOpFromToken ==
  [Plus |-> "Plus", Minus |-> "Minus", Asterisk |-> "Mul", Slash |-> "Div",
   Eq |-> "Eq", Ne |-> "Ne", Lt |-> "Lt", Gt |-> "Gt", Le |-> "Le", Ge |-> "Ge",
   And |-> "And", Or |-> "Or"]

\* The precedence of an operator; all of them are left associative.
binaryOpInfo(op) ==
  CASE op = "Or" -> 1
    [] op = "And" -> 2
    [] op \in {"Eq", "Ne"} -> 3
    [] op \in {"Lt", "Gt", "Le", "Ge"} -> 4
    [] op \in {"Plus", "Minus"} -> 5
    [] op \in {"Mul", "Div"} -> 6

assignmentOp == [PlusAssign |-> "Plus", MinusAssign |-> "Minus",
                 MulAssign |-> "Mul", DivAssign |-> "Div"]

RECURSIVE parseExpr(_), ExprLoop(_, _, _), parseTerm(_), PrefixOps(_, _),
          Postfix(_, _), parseStructInitFields(_, _), ExprList(_, _)

(***************************************************************************)
(* What ends one round of parseManyUntil: after an item comes the          *)
(* separator, possibly with nothing behind it, or the end.                 *)
(***************************************************************************)
AfterItem(items, ts, end, More(_, _)) ==
  CASE Peek(ts) = "Comma" -> More(items, Tail(ts))
    [] Peek(ts) = end -> At(items, Tail(ts))
    [] OTHER -> SyntaxError

\* The arguments of a call, up to the closing parenthesis.
ExprList(args, ts) ==
  IF Peek(ts) = "RParen" THEN At(args, Tail(ts))
  ELSE Then(parseExpr(ts), LAMBDA e :
         AfterItem(Append(args, e.v), e.ts, "RParen",
                   LAMBDA all, rest : ExprList(all, rest)))

\* The initialisers of a struct, a map from field names to expressions.
parseStructInitFields(fields, ts) ==
  IF Peek(ts) = "RBrace" THEN At(fields, Tail(ts))
  ELSE Then(get("Dot", ts), LAMBDA a :
       Then(get("Id", a.ts), LAMBDA name :
       Then(get("Assign", name.ts), LAMBDA b :
       Then(parseExpr(b.ts), LAMBDA e :
         IF name.v \in DOMAIN fields THEN SyntaxError
         ELSE AfterItem(fields @@ (name.v :> e.v), e.ts, "RBrace",
                        LAMBDA all, rest : parseStructInitFields(all, rest))))))

\* The prefix operators before a term; each is accepted once.
PrefixOps(ops, ts) ==
  IF Peek(ts) \notin DOMAIN unaryOpFromToken THEN At(ops, ts)
  ELSE LET op == unaryOpFromToken[Peek(ts)]
       IN IF \E i \in DOMAIN ops : ops[i] = op THEN SyntaxError
          ELSE PrefixOps(Append(ops, op), Tail(ts))

\* A name, a literal, an initialised struct or an expression in parentheses.
Primary(ts) ==
  LET l == IF ts = <<>> THEN Tok("Eof") ELSE ts[1]
      rest == Advance(ts)
  IN CASE l.k = "Id" /\ Peek(rest) = "LBrace" ->
            Then(parseStructInitFields(Empty, Tail(rest)), LAMBDA r :
              At(StructInitExpr(l.v, r.v), r.ts))
       [] l.k = "Id" /\ Peek(rest) # "LBrace" -> At(VarRefExpr(l.v), rest)
       [] l.k = "Self" -> At(VarRefExpr("self"), rest)
       [] l.k = "Num" -> At(NumLitExpr(l.v), rest)
       [] l.k = "True" -> At(BoolLitExpr("true"), rest)
       [] l.k = "False" -> At(BoolLitExpr("false"), rest)
       [] l.k = "Null" -> At(NullExpr, rest)
       [] l.k = "LParen" ->
            Then(parseExpr(rest), LAMBDA e :
            Then(get("RParen", e.ts), LAMBDA r : At(e.v, r.ts)))
       [] OTHER -> SyntaxError

\* Member accesses and calls, applied from the left.
Postfix(term, ts) ==
  CASE Peek(ts) = "Dot" ->
         Then(get("Id", Tail(ts)), LAMBDA m : Postfix(MemberRefExpr(term, m.v), m.ts))
    [] Peek(ts) = "LParen" ->
         Then(ExprList(<<>>, Tail(ts)), LAMBDA r : Postfix(CallExpr(term, r.v), r.ts))
    [] OTHER -> At(term, ts)

(***************************************************************************)
(* The loop that wraps a term in its prefix operators does not advance its *)
(* iterator: with one operator or more it never ends.                      *)
(***************************************************************************)
ApplyPrefixOps(ops, term) == IF ops = <<>> THEN term ELSE Stop("diverge")

parseTerm(ts) ==
  Then(PrefixOps(<<>>, ts), LAMBDA ops :
  Then(Primary(ops.ts), LAMBDA p :
  Then(Postfix(p.v, p.ts), LAMBDA term : ApplyPrefixOps(ops.v, term))))

\* Replaces the two topmost terms by their combination under the top operator.
ReduceTerms(terms, ops) ==
  LET n == Len(terms)
  IN Append(SubSeq(terms, 1, n - 2),
            BinaryExpr(ops[Len(ops)], terms[n - 1], terms[n]))

Pop(s) == SubSeq(s, 1, Len(s) - 1)

BindsTighter(top, next) == binaryOpInfo(top) > binaryOpInfo(next)

\* Whether the operator on the stack is reduced before the next one is read.
Binds(top, next) == binaryOpInfo(top) >= binaryOpInfo(next)

\* One round of parseExpr with a term on top of the stack of terms.
ExprLoop(terms, ops, ts) ==
  LET tok == Peek(ts)
      shift == Then(parseTerm(Tail(ts)), LAMBDA t :
                 ExprLoop(Append(terms, t.v), Append(ops, binaryOpFromToken[tok]), t.ts))
      reduce == ExprLoop(ReduceTerms(terms, ops), Pop(ops), ts)
  IN IF tok \notin DOMAIN binaryOpFromToken
     THEN IF ops = <<>> THEN At(terms[1], ts) ELSE reduce
     ELSE IF ops = <<>> THEN shift
          ELSE IF Binds(ops[Len(ops)], binaryOpFromToken[tok]) THEN reduce ELSE shift

parseExpr(ts) == Then(parseTerm(ts), LAMBDA t : ExprLoop(<<t.v>>, <<>>, t.ts))

-------------------------------------------------------------------------------

parseVarDecl(ts) ==
  Then(get("Var", ts), LAMBDA a :
  Then(get("Id", a.ts), LAMBDA name :
  Then(get("Id", name.ts), LAMBDA type :
  Then(get("Assign", type.ts), LAMBDA b :
  Then(parseExpr(b.ts), LAMBDA e :
  Then(get("Semicolon", e.ts), LAMBDA c :
    At(VarDecl(name.v, typeFromString(type.v), e.v), c.ts)))))))

RECURSIVE parseStmt(_), parseCompoundStmt(_), Stmts(_, _), parseCondStmt(_)

\* The statements of a block up to its brace; stray semicolons are skipped.
Stmts(ss, ts) ==
  CASE Peek(ts) = "Semicolon" -> Stmts(ss, Tail(ts))
    [] Peek(ts) = "RBrace" -> At(ss, Tail(ts))
    [] OTHER -> Then(parseStmt(ts), LAMBDA s : Stmts(Append(ss, s.v), s.ts))

parseCompoundStmt(ts) == Then(get("LBrace", ts), LAMBDA r : Stmts(<<>>, r.ts))

\* The parenthesised condition of an if or a while and the block after it.
Guarded(keyword, ts) ==
  Then(get(keyword, ts), LAMBDA a :
  Then(get("LParen", a.ts), LAMBDA b :
  Then(parseExpr(b.ts), LAMBDA c :
  Then(get("RParen", c.ts), LAMBDA d :
  Then(parseCompoundStmt(d.ts), LAMBDA body : At(<<c.v, body.v>>, body.ts))))))

\* The part of an if after its else.
ElsePart(ts) ==
  CASE Peek(ts) = "If" -> parseCondStmt(ts)
    [] Peek(ts) = "LBrace" ->
         Then(parseCompoundStmt(ts), LAMBDA b : At(CompoundStmt(b.v), b.ts))
    [] OTHER -> SyntaxError

parseCondStmt(ts) ==
  Then(Guarded("If", ts), LAMBDA g :
    IF Peek(g.ts) = "Else"
    THEN Then(ElsePart(Tail(g.ts)), LAMBDA f :
           At(CondStmt(g.v[1], g.v[2], <<f.v>>), f.ts))
    ELSE At(CondStmt(g.v[1], g.v[2], <<>>), g.ts))

parseWhileStmt(ts) ==
  Then(Guarded("While", ts), LAMBDA g : At(WhileStmt(g.v[1], g.v[2]), g.ts))

\* An assignment with an operator becomes one whose right side repeats the left.
parseExprOrAssignment(ts) ==
  Then(parseExpr(ts), LAMBDA l :
    LET tok == Peek(l.ts)
    IN CASE tok = "Semicolon" -> At(ExprStmt(l.v), Tail(l.ts))
         [] tok \in DOMAIN assignmentOp \cup {"Assign"} ->
              Then(parseExpr(Tail(l.ts)), LAMBDA r :
              Then(get("Semicolon", r.ts), LAMBDA s :
                At(AssignmentStmt(l.v, IF tok = "Assign" THEN r.v
                                       ELSE BinaryExpr(assignmentOp[tok], l.v, r.v)),
                   s.ts)))
         [] OTHER -> SyntaxError)

parseRetStmt(ts) ==
  IF Peek(ts) = "Semicolon" THEN At(RetStmt(<<>>), Tail(ts))
  ELSE Then(parseExpr(ts), LAMBDA e :
       Then(get("Semicolon", e.ts), LAMBDA s : At(RetStmt(<<e.v>>), s.ts)))

parseStmt(ts) ==
  CASE Peek(ts) = "LBrace" ->
         Then(parseCompoundStmt(ts), LAMBDA b : At(CompoundStmt(b.v), b.ts))
    [] Peek(ts) = "If" -> parseCondStmt(ts)
    [] Peek(ts) = "While" -> parseWhileStmt(ts)
    [] Peek(ts) = "Return" -> parseRetStmt(Tail(ts))
    [] Peek(ts) = "Var" -> Then(parseVarDecl(ts), LAMBDA d : At(DeclStmt(d.v), d.ts))
    [] OTHER -> parseExprOrAssignment(ts)

-------------------------------------------------------------------------------

RECURSIVE Params(_, _), Members(_, _, _, _), Decls(_, _)

(***************************************************************************)
(* The parameters after self, up to the closing parenthesis.  The name     *)
(* self is not among those a parameter may not repeat, but no identifier   *)
(* can be spelled like the keyword.                                        *)
(***************************************************************************)
Params(ps, ts) ==
  IF Peek(ts) = "RParen" THEN At(ps, Tail(ts))
  ELSE Then(get("Id", ts), LAMBDA name :
       Then(get("Id", name.ts), LAMBDA type :
         IF \E i \in DOMAIN ps : ps[i].n = name.v THEN SyntaxError
         ELSE AfterItem(Append(ps, Param(name.v, typeFromString(type.v))), type.ts,
                        "RParen", LAMBDA all, rest : Params(all, rest))))

\* The parameter self, whose type is filled in later, and a comma if there is one.
SelfParam(ts) ==
  IF Peek(ts) # "Self" THEN At(<<>>, ts)
  ELSE At(<<Param("self", NoType)>>,
          IF Peek(Tail(ts)) = "Comma" THEN Tail(Tail(ts)) ELSE Tail(ts))

parseFunctionDecl(ts) ==
  Then(get("Fun", ts), LAMBDA a :
  Then(get("Id", a.ts), LAMBDA name :
  Then(get("LParen", name.ts), LAMBDA b :
  Then(SelfParam(b.ts), LAMBDA self :
  Then(Params(self.v, self.ts), LAMBDA ps :
  Then(get("Id", ps.ts), LAMBDA type :
  Then(parseCompoundStmt(type.ts), LAMBDA body :
    At(FunctionDecl(name.v, ps.v, typeFromString(type.v), body.v), body.ts))))))))

parseField(ts) ==
  Then(get("Id", ts), LAMBDA name :
  Then(get("Id", name.ts), LAMBDA type :
  Then(get("Semicolon", type.ts), LAMBDA s :
    At(Param(name.v, typeFromString(type.v)), s.ts))))

\* The members of a struct; a method is stored under its own name, but carries
\* its mangled one.
Members(struct, fields, methods, ts) ==
  LET taken == DOMAIN methods \cup {fields[i].n : i \in DOMAIN fields}
  IN CASE Peek(ts) = "RBrace" -> At(StructDecl(struct, fields, methods), Tail(ts))
       [] Peek(ts) = "Fun" ->
            Then(parseFunctionDecl(ts), LAMBDA d :
              IF ~isInstanceMethod(d.v) \/ d.v.n \in taken THEN SyntaxError
              ELSE Members(struct, fields,
                     methods @@ (d.v.n :> [d.v EXCEPT !.n = mangleMethodName(struct, @)]),
                     d.ts))
       [] Peek(ts) = "Var" ->
            Then(parseField(Tail(ts)), LAMBDA f :
              IF f.v.n \in taken THEN SyntaxError
              ELSE Members(struct, Append(fields, f.v), methods, f.ts))
       [] OTHER -> SyntaxError

parseStructDecl(ts) ==
  Then(get("Struct", ts), LAMBDA a :
  Then(get("Id", a.ts), LAMBDA name :
  Then(get("LBrace", name.ts), LAMBDA b : Members(name.v, <<>>, Empty, b.ts))))

\* The declarations of a file; a name is declared once among all of them.
Decls(file, ts) ==
  LET fresh(d) == d.v.n \notin DOMAIN file.gs \cup DOMAIN file.fns \cup DOMAIN file.ss
      declare(d, new) == IF fresh(d) THEN Decls(new, d.ts) ELSE SyntaxError
  IN CASE Peek(ts) = "Eof" -> At(file, ts)
       [] Peek(ts) = "Fun" ->
            Then(parseFunctionDecl(ts), LAMBDA d :
              declare(d, [file EXCEPT !.fns = @ @@ (d.v.n :> d.v)]))
       [] Peek(ts) = "Var" ->
            Then(parseVarDecl(ts), LAMBDA d :
              declare(d, [file EXCEPT !.gs = @ @@ (d.v.n :> d.v)]))
       [] Peek(ts) = "Struct" ->
            Then(parseStructDecl(ts), LAMBDA d :
              declare(d, [file EXCEPT !.ss = @ @@ (d.v.n :> d.v)]))
       [] OTHER -> SyntaxError

parse(ts) == Decls(File(Empty, Empty, Empty), ts)
=============================================================================
