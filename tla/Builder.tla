-------------------------------- MODULE Builder --------------------------------
(***************************************************************************)
(* The builder of the intermediate representation.  A builder is a record: *)
(*   st     "ok", or "crash" once an assert failed or a null was used      *)
(*   bbs    the basic blocks of the function, sequences of instructions;   *)
(*          a block is named by its place in bbs, 0 is the null pointer    *)
(*   done   the blocks added to the function, in that order                *)
(*   cur    the current block, bb_                                         *)
(*   n      how many instructions were made                                *)
(*   fn     the signature of the current function, NoFn where none is      *)
(*   sigs, gs, fns   the module: signatures, globals and functions         *)
(* The translator keeps its own fields in the same record.  After a crash  *)
(* a builder only carries the outcome on; what it holds means nothing.     *)
(***************************************************************************)
EXTENDS Ast

NoFn == [n |-> "", ps |-> <<>>, r |-> "void"]

Crash(b) == [b EXCEPT !.st = "crash"]

\* Values: an immediate, null, an argument, a global or an instruction's result.
Value(k, v, ty) == [k |-> k, v |-> v, ty |-> ty]
intImm(v) == Value("imm", v, "int")
boolImm(v) == Value("imm", v, "bool")
nullPtr == Value("null", "", "ptr")
fnArgRef(sig, i) == Value("arg", sig.ps[i].n, sig.ps[i].t)
GlobalPtr(name) == Value("glob", name, "ptr")

\* Instructions: xs are the operands, x what else the instruction holds.
Instr(op, ty, xs, x) == [op |-> op, ty |-> ty, xs |-> xs, x |-> x]
Terminators == {"goto", "br", "ret"}
ArithInstr == {"Plus", "Minus", "Mul", "Div"}
CmpInstr == {"Eq", "Ne", "Lt", "Gt", "Le", "Ge"}

\* What the constructors of the instructions assert of their operands.
OperandsOk(i) ==
  CASE i.op = "not" -> i.xs[1].ty = "bool"
    [] i.op = "neg" -> i.xs[1].ty = "int"
    [] i.op \in ArithInstr \cup CmpInstr -> i.xs[1].ty = i.xs[2].ty
    [] OTHER -> TRUE

hasTerminator(b, bb) == \E i \in DOMAIN b.bbs[bb] : b.bbs[bb][i].op \in Terminators

\* Appends to a block whatever it ends with; through a null pointer it crashes.
addInstr(b, bb, i) == IF bb = 0 THEN Crash(b) ELSE [b EXCEPT !.bbs[bb] = Append(@, i)]

gotoInstr(dest) == Instr("goto", "void", <<>>, <<dest>>)
brInstrSwapped(cond, onTrue, onFalse) ==
  Instr("br", "void", <<cond>>, <<onFalse, onTrue>>)
brInstr(cond, onTrue, onFalse) == Instr("br", "void", <<cond>>, <<onTrue, onFalse>>)
retInstr(value) == Instr("ret", "void", value, <<>>)

addGoto(b, bb, dest) == addInstr(b, bb, gotoInstr(dest))

(***************************************************************************)
(* Makes an instruction, adds it to the current block and returns the      *)
(* builder with the value of the instruction.                              *)
(***************************************************************************)
Emit(b, op, ty, xs, x) ==
  LET i == [op |-> op, ty |-> ty, xs |-> xs, x |-> x, id |-> b.n + 1]
      b1 == addInstr([b EXCEPT !.n = @ + 1], b.cur, i)
  IN [b |-> IF OperandsOk(i) THEN b1 ELSE Crash(b1), v |-> Value("ins", b.n + 1, ty)]

startBb(b) ==
  IF b.cur # 0 THEN Crash(b)
  ELSE [b EXCEPT !.bbs = Append(@, <<>>), !.cur = Len(b.bbs) + 1]

finishBb(b) ==
  IF b.cur = 0 \/ b.fn = NoFn THEN Crash(b)
  ELSE [b EXCEPT !.done = Append(@, b.cur), !.cur = 0]

LinkWithoutFinish(b) ==
  IF b.cur = 0 THEN startBb(b)
  ELSE LET b1 == startBb([b EXCEPT !.cur = 0]) IN addGoto(b1, b.cur, b1.cur)

\* The block before is linked even where it already ends in a terminator.
startBbAndLink(b) ==
  IF b.cur = 0 THEN startBb(b)
  ELSE LET b1 == startBb(finishBb(b)) IN addGoto(b1, b.cur, b1.cur)

\* What is entered under a name first stays.
Entered(map, name, value) ==
  [x \in DOMAIN map \cup {name} |-> IF x \in DOMAIN map THEN map[x] ELSE value]

addFunctionSignature(b, name, sig) == [b EXCEPT !.sigs = Entered(@, name, sig)]
addGlobal(b, name, ty) == [b EXCEPT !.gs = Entered(@, name, ty)]

startFunction(b, sig) ==
  IF b.fn # NoFn THEN Crash(b) ELSE [b EXCEPT !.fn = sig, !.bbs = <<>>, !.done = <<>>]

finishFunction(b) ==
  IF b.fn = NoFn THEN Crash(b)
  ELSE [b EXCEPT !.fn = NoFn,
          !.fns = Entered(@, b.fn.n, [sig |-> b.fn, bbs |-> b.bbs, done |-> b.done])]

NewBuilder ==
  [st |-> "ok", bbs |-> <<>>, done |-> <<>>, cur |-> 0, n |-> 0, fn |-> NoFn,
   sigs |-> Empty, gs |-> Empty, fns |-> Empty]

(***************************************************************************)
(* What holds of a builder however it is used.                             *)
(***************************************************************************)

\* Every jump leads to one of the blocks.
JumpsInside(bbs) ==
  \A k \in DOMAIN bbs : \A j \in DOMAIN bbs[k] :
    LET i == bbs[k][j]
    IN i.op \in {"goto", "br"} => \A t \in DOMAIN i.x : i.x[t] \in DOMAIN bbs

\* The numbers of the instructions are their own.
Numbered(b) ==
  \A k, l \in DOMAIN b.bbs : \A i \in DOMAIN b.bbs[k], j \in DOMAIN b.bbs[l] :
    LET x == b.bbs[k][i]
        y == b.bbs[l][j]
    IN x.op \notin Terminators /\ y.op \notin Terminators =>
         /\ x.id \in 1 .. b.n
         /\ x.id = y.id => k = l /\ i = j

\* Every block that was started is the current one or in the function, once and
\* in its turn, and a function that is finished holds all it can jump to.
Assembled(b) ==
  /\ b.done = [i \in 1 .. Len(b.done) |-> i]
  /\ \/ b.cur = 0 /\ Len(b.bbs) = Len(b.done)
     \/ b.cur = Len(b.bbs) /\ Len(b.bbs) = Len(b.done) + 1
  /\ JumpsInside(b.bbs)
  /\ Numbered(b)
  /\ \A k \in DOMAIN b.bbs : \A j \in DOMAIN b.bbs[k] : OperandsOk(b.bbs[k][j])
  /\ \A f \in DOMAIN b.fns : LET fn == b.fns[f]
       IN /\ fn.done = [i \in DOMAIN fn.bbs |-> i]
          /\ JumpsInside(fn.bbs)
=============================================================================
