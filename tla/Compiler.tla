-------------------------------- MODULE Compiler -------------------------------
(***************************************************************************)
(* What the compiler promises.  Each property has a premise that names the *)
(* programs it speaks about; what is left out of a premise is a construct  *)
(* the compiler is known to get wrong (see the README).                    *)
(***************************************************************************)
EXTENDS Driver, Language

(***************************************************************************)
(* Looking into a program.                                                 *)
(***************************************************************************)
RECURSIVE Within(_), StmtsIn(_)

\* An expression and the expressions in it.
Within(e) ==
  {e} \cup UNION {Within(x) : x \in
    CASE e.k = "un" -> {e.e}
      [] e.k = "bin" -> {e.l, e.r}
      [] e.k = "mem" -> {e.t}
      [] e.k = "call" -> {e.f} \cup Range(e.as)
      [] e.k = "new" -> Range(e.fs)
      [] OTHER -> {}}

\* The statements of a block and those nested in them.
StmtsIn(ss) ==
  Range(ss) \cup UNION {StmtsIn(inner) : inner \in UNION {
    CASE s.k = "block" -> {s.ss}
      [] s.k = "while" -> {s.b}
      [] s.k = "if" -> {s.t, s.f}
      [] OTHER -> {} : s \in Range(ss)}}

ExprsIn(ss) ==
  UNION {UNION {Within(e) : e \in
    CASE s.k = "decl" -> {s.d.e}
      [] s.k = "asg" -> {s.l, s.r}
      [] s.k = "expr" -> {s.e}
      [] s.k = "ret" -> Range(s.e)
      [] s.k \in {"if", "while"} -> {s.c}
      [] OTHER -> {}} : s \in StmtsIn(ss)}

MethodsOf(p) == {p.ss[q[1]].ms[q[2]] : q \in Methods(p)}
Functions(p) == Range(p.fns) \cup MethodsOf(p)
Expressions(p) == UNION {ExprsIn(d.b) : d \in Functions(p)} \cup UNION {Within(g.e) : g \in Range(p.gs)}
DeclsIn(d) == {s.d : s \in {s \in StmtsIn(d.b) : s.k = "decl"}}
Assignments(p) == UNION {{s \in StmtsIn(d.b) : s.k = "asg"} : d \in Functions(p)}
ParamNames(d) == {d.ps[i].n : i \in DOMAIN d.ps}
ShortCircuit(e) == e.k = "bin" /\ e.op \in {"And", "Or"}
Analysed == phase \in {"translate", "done"} \/ (phase = "crash" /\ ir # T!NewBuilder)

-------------------------------------------------------------------------------
\* Reading.

\* A comment that is not the last thing in the text, and half an operator.
CommentInside(text) ==
  \E i, j \in DOMAIN text : i < j /\ SubSeq(text, i, i + 1) = <<"/", "/">> /\ text[j] = "\n"

\* The lexemes of a text are those it was written from, however it is spaced
\* (lexer.cpp, lex and nextLexeme); but a comment only does at the very end: at
\* the end of its line the lexer throws.
LexesBack ==
  [][phase = "lex" =>
       IF CommentInside(input) THEN phase' = "lexer threw"
       ELSE phase' = "parse" /\ input' = WriteProgram(source)]_vars

-------------------------------------------------------------------------------
\* Parsing.

\* The names of a file are declared once: among all declarations, among the
\* members of a struct and among the parameters of a function; the functions of
\* a struct take self.
Declarable(p) ==
  /\ Cardinality(DOMAIN p.gs) + Cardinality(DOMAIN p.fns) + Cardinality(DOMAIN p.ss)
       = Cardinality(DOMAIN p.gs \cup DOMAIN p.fns \cup DOMAIN p.ss)
  /\ \A d \in Functions(p) : Cardinality(ParamNames(d)) = Len(d.ps)
  /\ \A s \in Range(p.ss) :
       LET fields == {s.fs[i].n : i \in DOMAIN s.fs}
       IN Cardinality(fields) = Len(s.fs) /\ fields \cap DOMAIN s.ms = {}
  /\ \A d \in MethodsOf(p) : isInstanceMethod(d)

Negates(p) == \E e \in Expressions(p) : e.k = "un"

\* Parsing what a tree is written as gives that tree back: precedence,
\* associativity, postfix chains, else branches and compound assignments
\* (parser.cpp, parse and everything below it).  It fails just where a name is
\* declared twice or a method lacks self, and never ends just where there is a
\* prefix operator.
ParsesBack ==
  [][phase = "parse" =>
       CASE Declarable(source) /\ ~Negates(source) -> phase' = "sema" /\ file' = source
         [] Declarable(source) /\ Negates(source) -> phase' = "diverge"
         [] ~Declarable(source) -> phase' = "syntax error"
                                  \/ (Negates(source) /\ phase' = "diverge")]_vars

-------------------------------------------------------------------------------
\* The analysis.

\* A local variable that is initialised with null never enters its scope.
NullLocals(p) == {d \in UNION {DeclsIn(f) : f \in Functions(p)} : d.e.k = "null"}

\* Some method that has been visited calls one that has not.
CalledTooEarly ==
  \E q \in todo, d \in MethodsOf(source) :
    /\ q.k = "method"
    /\ \E e \in ExprsIn(d.b) : e.k = "call" /\ e.f.k = "mem" /\ e.f.m = q.n

\* A well-typed program is accepted, unless it uses a null-initialised local
\* variable or a method body calls a method the analysis has yet to visit
\* (sema.cpp, Sema::run and the visits it makes).
ValidAccepted ==
  (phase = "rejected" \/ (phase = "crash" /\ ~Analysed)) /\ WellTyped(source)
    => NullLocals(source) # {} \/ CalledTooEarly

\* What the analysis accepts is well typed as far as it looks (see Typed).
AcceptedValid == Analysed => Typed(source, FALSE)

-------------------------------------------------------------------------------
\* The translation.

(***************************************************************************)
(* How statements leave the builder: "straight", in the block it was in;   *)
(* "branched", in another one, the first being terminated; "returns", in a *)
(* block with a terminator; "ended", in no block; "bad", never right.      *)
(***************************************************************************)
ExprShape(es) ==
  LET all == UNION {Within(e) : e \in es}
  IN CASE \E e \in all : e.k = "bin" /\ e.op = "And" /\ \E x \in Within(e.r) : ShortCircuit(x) -> "bad"
       [] \E e \in all : e.k = "bin" /\ e.op \in {"Eq", "Ne"}
                           /\ ShortCircuit(e.l) # ShortCircuit(e.r) -> "bad"
       [] OTHER -> IF \E e \in all : ShortCircuit(e) THEN "branched" ELSE "straight"

InOrder(first, second) ==
  CASE "bad" \in {first, second} -> "bad"
    [] first \in {"returns", "ended"} -> "bad"
    [] first = "branched" /\ second = "straight" -> "branched"
    [] OTHER -> second

Falls(shape) == shape \in {"straight", "branched"}

IfShape(onTrue, onFalse) ==
  CASE onFalse = "absent" -> IF onTrue \in {"branched", "returns"} THEN "branched" ELSE "bad"
    [] onFalse # "absent" /\ onTrue = "straight" -> IF Falls(onFalse) THEN "branched" ELSE "bad"
    [] onFalse # "absent" /\ onTrue = "returns" -> IF onFalse = "returns" THEN "ended" ELSE "bad"
    [] OTHER -> "bad"

RECURSIVE Shape(_)
StmtShape(s) ==
  CASE s.k = "decl" -> ExprShape({s.d.e})
    [] s.k = "asg" -> ExprShape({s.l, s.r})
    [] s.k = "expr" -> ExprShape({s.e})
    [] s.k = "ret" -> InOrder(ExprShape(Range(s.e)), "returns")
    [] s.k = "block" -> Shape(s.ss)
    [] s.k = "while" -> InOrder(ExprShape({s.c}), IF Falls(Shape(s.b)) THEN "branched" ELSE "bad")
    [] s.k = "if" -> InOrder(ExprShape({s.c}),
                             IfShape(Shape(s.t), IF s.f = <<>> THEN "absent" ELSE Shape(s.f)))
Shape(ss) == FoldLeft(LAMBDA shape, s : InOrder(shape, StmtShape(s)), "straight", ss)

\* A function whose control flow the translation gets right.
Handled(d) ==
  IF d.r = voidType THEN Shape(d.b) # "bad" ELSE Shape(d.b) \in {"returns", "ended"}

\* Every block ends in its only terminator, which leads to blocks of the function.
WellFormed(fn) ==
  \A k \in DOMAIN fn.done :
    LET bb == fn.bbs[fn.done[k]]
        ends == {i \in DOMAIN bb : bb[i].op \in T!Terminators}
    IN /\ ends = {Len(bb)} \ {0} /\ bb # <<>>
       /\ Range(bb[Len(bb)].x) \subseteq Range(fn.done)

\* The translation of a well-typed program fails, or leaves a function with
\* blocks that do not end in exactly one jump, just where the shape of a
\* function says so (ast2ir.cpp, the visits of the statements and of && and ||).
FlowTranslatedExactly ==
  Analysed /\ WellTyped(source) =>
    /\ phase = "crash" => \E d \in Functions(source) : ~Handled(d)
    /\ \A d \in Functions(source) :
         phase # "crash" /\ d.n \in DOMAIN ir.fns => (WellFormed(ir.fns[d.n]) <=> Handled(d))

\* Whatever the program, as long as no assert fails: each block that the visitors
\* start is in the function once, in its turn, jumps stay inside their function,
\* and every instruction is in one place (builder.cpp, startBb to finishFunction,
\* under the nesting of ast2ir.cpp).
ModuleAssembled == phase \in {"translate", "done"} => T!Assembled(ir)

\* The type the operands of an instruction have to have, operand by operand.
Expected(m, fn, i) ==
  CASE i.op \in T!ArithInstr \cup {"Lt", "Gt", "Le", "Ge"} -> <<{"int"}, {"int"}>>
    [] i.op \in {"Eq", "Ne"} -> <<{i.xs[2].ty}, {i.xs[1].ty}>>
    [] i.op \in {"load", "gfp"} -> <<{"ptr"}>>
    [] i.op = "store" -> <<{"ptr"}, {i.x[1]}>>
    [] i.op = "br" -> <<{"bool"}>>
    [] i.op = "ret" -> IF fn.sig.r = "void" THEN <<>> ELSE <<{fn.sig.r}>>
    [] i.op = "call" -> [k \in DOMAIN m[i.x[1]].sig.ps |-> {m[i.x[1]].sig.ps[k].t}]
    [] OTHER -> <<>>

WellTypedInstr(m, fn, i) ==
  /\ Len(i.xs) = Len(Expected(m, fn, i))
  /\ \A k \in DOMAIN i.xs : i.xs[k].ty \in Expected(m, fn, i)[k]

\* && and || yield an address where a boolean is due, and an assignment to a
\* parameter stores through its value.
WritesParam(d) == \E s \in StmtsIn(d.b) : s.k = "asg" /\ s.l.k = "var" /\ s.l.n \in ParamNames(d)
TranslatedTyped(d) == ~WritesParam(d) /\ \A e \in ExprsIn(d.b) : ~ShortCircuit(e)

\* A well-typed program without those becomes a module whose instructions get
\* operands of the types they are made for, and calls the arguments that the
\* signature asks for (ast2ir.cpp, the visits of the expressions; instr.hpp).
InstructionsWellTyped ==
  phase = "done" /\ WellTyped(source) /\ (\A d \in Functions(source) : TranslatedTyped(d)) =>
    \A n \in DOMAIN ir.fns : LET fn == ir.fns[n] IN
      \A k \in DOMAIN fn.bbs : \A j \in DOMAIN fn.bbs[k] : WellTypedInstr(ir.fns, fn, fn.bbs[k][j])

-------------------------------------------------------------------------------
\* The meaning of the whole.

\* A body whose values the translation keeps: besides, no member of a variable
\* that is not a parameter, no variable that hides another, no global.
KeepsValues(p, d) ==
  LET es == ExprsIn(d.b)
      names == [x \in DeclsIn(d) |-> x.n]
  IN /\ TranslatedTyped(d)
     /\ \A e \in es : e.k = "mem" /\ e.t.k = "var" => e.t.n \in ParamNames(d)
     /\ \A e \in es : e.k = "var" => e.n \notin DOMAIN p.gs
     /\ Cardinality({s \in StmtsIn(d.b) : s.k = "decl"}) = Cardinality(Range(names))
     /\ Range(names) \cap ParamNames(d) = {}

CONSTANTS Entry,   \* the function that is called
          Inputs,  \* the arguments it is called with
          Fuel     \* the steps a run may take

\* Running the module gives what the program means: for every argument, the
\* value that the entry function returns in the source it returns in the
\* translation (ast2ir.cpp as a whole).
SameResult ==
  phase = "done" /\ WellTyped(source) /\ (\A d \in Functions(source) : Handled(d) /\ KeepsValues(source, d)) =>
    \A args \in Inputs :
      LET r == Invoke(source, Fuel, <<>>, source.fns[Entry], args)
          t == CallIr(ir.fns, 4 * Fuel, <<>>, Entry, args)
      IN r.st = "ok" => t.st = "ok" /\ (source.fns[Entry].r # voidType => t.v = r.v)

\* A well-typed program is compiled to the end, whatever it is made of.
ValidCompiles == WellTyped(source) => phase # "crash"
=============================================================================
