------------------------------ MODULE BuilderProofs ------------------------------
(***************************************************************************)
(* What the builder keeps, whoever uses it.  A client calls its operations *)
(* in any order, with any instructions, and adds jumps to and from any     *)
(* blocks of the function under construction, as the visitors of the       *)
(* translator do when they come back to a block they have left.  Two       *)
(* things are asked of it: blocks are started inside a function, and a     *)
(* function is finished when no block is open.                             *)
(***************************************************************************)
EXTENDS Builder, Integers, TLAPS, SequenceTheorems

CONSTANTS
  Operand,  \* values
  Detail    \* what else an instruction holds: types, indices, names

Name == STRING \ {""}
Type == {"void", "bool", "int", "ptr", "fn"}
Signature == [n : Name, ps : Seq([n : Name, t : Type]), r : Type]

VARIABLE builder

vars == <<builder>>

Op == {"alloca", "new", "load", "store", "gfp", "call", "not", "neg"}
      \cup ArithInstr \cup CmpInstr

Plain == [op : Op, ty : Type, xs : Seq(Operand), x : Seq(Detail), id : Nat]
Jump == [op : Terminators, ty : Type, xs : Seq(Operand), x : Seq(Nat)]
Block == Seq(Plain \cup Jump)

Partial(S, T) == UNION {[D -> T] : D \in SUBSET S}

Typed(b) ==
  b \in [st : {"ok", "crash"}, bbs : Seq(Block), done : Seq(Nat), cur : Nat, n : Nat,
         fn : Signature \cup {NoFn}, sigs : Partial(Name, Signature),
         gs : Partial(Name, Type),
         fns : Partial(Name, [sig : Signature, bbs : Seq(Block), done : Seq(Nat)])]

\* A block that may be jumped to, or written to.  A visitor may also have a null
\* pointer for the block it wants to end.
Open(bb) == builder.fn # NoFn /\ bb \in DOMAIN builder.bbs

Declare ==
  \/ \E s \in Signature : builder' = addFunctionSignature(builder, s.n, s)
  \/ \E n \in Name, t \in Type : builder' = addGlobal(builder, n, t)

StartFunction == \E s \in Signature : builder' = startFunction(builder, s)
FinishFunction == builder.cur = 0 /\ builder' = finishFunction(builder)
StartBb == builder.fn # NoFn /\ builder' = startBb(builder)
StartBbAndLink == builder.fn # NoFn /\ builder' = startBbAndLink(builder)
FinishBb == builder' = finishBb(builder)

AddToCurBb ==
  /\ builder.fn # NoFn
  /\ \E op \in Op, t \in Type, xs \in Seq(Operand), x \in Seq(Detail) :
       builder' = Emit(builder, op, t, xs, x).b

AddJump ==
  \E bb \in Nat : (bb = 0 \/ Open(bb)) /\
    \/ \E to \in Nat : Open(to) /\ builder' = addGoto(builder, bb, to)
    \/ \E cond \in Operand, t, f \in Nat : Open(t) /\ Open(f) /\
         builder' = addInstr(builder, bb, brInstr(cond, t, f))
    \/ \E value \in {<<>>} \cup {<<v>> : v \in Operand} :
         builder' = addInstr(builder, bb, retInstr(value))

Init == builder = NewBuilder

Next ==
  /\ builder.st = "ok"
  /\ \/ Declare \/ StartFunction \/ FinishFunction
     \/ StartBb \/ StartBbAndLink \/ FinishBb
     \/ AddToCurBb \/ AddJump

Spec == Init /\ [][Next]_vars

\* The inductive invariant.
Kept(b) ==
  /\ Typed(b)
  /\ b.st = "ok" => Assembled(b) /\ (b.fn = NoFn => b.cur = 0)
Inv == Kept(builder)

-----------------------------------------------------------------------------
(* Types and signatures, and the maps they are entered in.                 *)

(* Instructions that compute nothing have a type as well.                  *)
LEMMA VoidIsType == "void" \in Type
BY DEF Type

(* A signature has a name, and so is not the lack of one.                  *)
LEMMA SignatureNames == NoFn \notin Signature /\ \A s \in Signature : s.n \in Name
BY DEF Signature, Name, NoFn

(* Entering a name in a partial map.                                       *)
LEMMA EnteredOnce ==
  ASSUME NEW S, NEW T, NEW f \in Partial(S, T), NEW k \in S, NEW v \in T
  PROVE  Entered(f, k, v) \in Partial(S, T)
<1> DEFINE g == Entered(f, k, v)
<1>1. PICK D \in SUBSET S : f \in [D -> T]
  BY DEF Partial
<1>2. g = [y \in D \cup {k} |-> IF y \in D THEN f[y] ELSE v]
  BY <1>1 DEF Entered
<1>3. g \in [D \cup {k} -> T] /\ D \cup {k} \in SUBSET S
  BY <1>1, <1>2
<1>4. QED
  BY <1>3 DEF Partial

-----------------------------------------------------------------------------
(* The instructions of the blocks after one has been added.                *)

Added(bbs, bb, i) == [bbs EXCEPT ![bb] = Append(@, i)]

(* An instruction of the new blocks is an old one in its old place, or the *)
(* new one at the end of its block.                                        *)
LEMMA AddedAt ==
  ASSUME NEW bbs \in Seq(Block), NEW bb \in DOMAIN bbs, NEW i \in Plain \cup Jump
  PROVE  /\ Added(bbs, bb, i) \in Seq(Block)
         /\ DOMAIN Added(bbs, bb, i) = DOMAIN bbs
         /\ Len(Added(bbs, bb, i)) = Len(bbs)
         /\ \A k \in DOMAIN bbs : \A j \in DOMAIN Added(bbs, bb, i)[k] :
              \/ j \in DOMAIN bbs[k] /\ Added(bbs, bb, i)[k][j] = bbs[k][j]
              \/ k = bb /\ j = Len(bbs[bb]) + 1 /\ Added(bbs, bb, i)[k][j] = i
<1> DEFINE new == Added(bbs, bb, i)
<1>1. bbs[bb] \in Block
  OBVIOUS
<1>2. Append(bbs[bb], i) \in Block
  BY <1>1 DEF Block
<1>3. new \in Seq(Block) /\ DOMAIN new = DOMAIN bbs /\ Len(new) = Len(bbs)
  BY <1>2 DEF Added
<1>4. ASSUME NEW k \in DOMAIN bbs, k # bb PROVE new[k] = bbs[k]
  BY <1>4 DEF Added
<1>5. new[bb] = Append(bbs[bb], i)
  BY DEF Added
<1>6. ASSUME NEW j \in DOMAIN new[bb]
      PROVE  \/ j \in DOMAIN bbs[bb] /\ new[bb][j] = bbs[bb][j]
             \/ j = Len(bbs[bb]) + 1 /\ new[bb][j] = i
  BY <1>1, <1>5, <1>6 DEF Block
<1>7. QED
  BY <1>3, <1>4, <1>6

(* Adding an instruction keeps jumps inside if its own, if it is one, are. *)
LEMMA AddedInside ==
  ASSUME NEW bbs \in Seq(Block), NEW bb \in DOMAIN bbs, NEW i \in Plain \cup Jump,
         JumpsInside(bbs),
         i.op \in {"goto", "br"} => \A t \in DOMAIN i.x : i.x[t] \in DOMAIN bbs
  PROVE  JumpsInside(Added(bbs, bb, i))
<1> DEFINE new == Added(bbs, bb, i)
<1>1. ASSUME NEW k \in DOMAIN bbs, NEW j \in DOMAIN new[k], new[k][j].op \in {"goto", "br"},
             NEW t \in DOMAIN new[k][j].x
      PROVE  new[k][j].x[t] \in DOMAIN bbs
  <2>1. CASE j \in DOMAIN bbs[k] /\ new[k][j] = bbs[k][j]
    BY <1>1, <2>1 DEF JumpsInside
  <2>2. CASE new[k][j] = i
    BY <1>1, <2>2
  <2>3. QED
    BY <2>1, <2>2, AddedAt
<1>2. DOMAIN new = DOMAIN bbs
  BY AddedAt
<1>3. QED
  BY <1>1, <1>2 DEF JumpsInside

(* A block without instructions, added at the end.                         *)
LEMMA StartedAt ==
  ASSUME NEW bbs \in Seq(Block)
  PROVE  /\ Append(bbs, <<>>) \in Seq(Block)
         /\ Len(Append(bbs, <<>>)) = Len(bbs) + 1
         /\ DOMAIN Append(bbs, <<>>) = DOMAIN bbs \cup {Len(bbs) + 1}
         /\ \A k \in DOMAIN bbs : Append(bbs, <<>>)[k] = bbs[k]
         /\ DOMAIN Append(bbs, <<>>)[Len(bbs) + 1] = {}
<1>1. <<>> \in Block
  BY DEF Block
<1>2. QED
  BY <1>1

(* A new block has nothing that could jump outside, and is one more place  *)
(* to jump to.                                                             *)
LEMMA StartedInside ==
  ASSUME NEW bbs \in Seq(Block), JumpsInside(bbs)
  PROVE  JumpsInside(Append(bbs, <<>>))
<1> DEFINE new == Append(bbs, <<>>)
<1>1. ASSUME NEW k \in DOMAIN new, NEW j \in DOMAIN new[k], new[k][j].op \in {"goto", "br"},
             NEW t \in DOMAIN new[k][j].x
      PROVE  new[k][j].x[t] \in DOMAIN new
  <2>1. k \in DOMAIN bbs /\ new[k] = bbs[k]
    BY <1>1, StartedAt
  <2>2. QED
    BY <1>1, <2>1, StartedAt DEF JumpsInside
<1>2. QED
  BY <1>1 DEF JumpsInside

-----------------------------------------------------------------------------
(* The operations.                                                         *)

(* Adding an instruction to a block: one that is numbered gets a number    *)
(* that was not in use.                                                    *)
LEMMA InstrAdded ==
  ASSUME NEW b, Kept(b), b.st = "ok", NEW bb \in DOMAIN b.bbs, NEW i \in Plain \cup Jump,
         OperandsOk(i),
         i.op \in {"goto", "br"} => \A t \in DOMAIN i.x : i.x[t] \in DOMAIN b.bbs,
         NEW m \in Nat, m >= b.n, i.op \notin Terminators => i.id = m /\ m > b.n,
         NEW c, c = [b EXCEPT !.n = m, !.bbs = Added(b.bbs, bb, i)]
  PROVE  Kept(c)
<1> DEFINE new == Added(b.bbs, bb, i)
<1>1. Typed(b) /\ Assembled(b) /\ (b.fn = NoFn => b.cur = 0)
  BY DEF Kept
<1>2. b.bbs \in Seq(Block) /\ b.n \in Nat
  BY <1>1 DEF Typed
<1>3. /\ new \in Seq(Block) /\ DOMAIN new = DOMAIN b.bbs /\ Len(new) = Len(b.bbs)
      /\ \A k \in DOMAIN b.bbs : \A j \in DOMAIN new[k] :
              \/ j \in DOMAIN b.bbs[k] /\ new[k][j] = b.bbs[k][j]
              \/ k = bb /\ j = Len(b.bbs[bb]) + 1 /\ new[k][j] = i
  BY <1>2, AddedAt
<1>4. JumpsInside(new)
  BY <1>1, <1>2, AddedInside DEF Assembled
<1>5. /\ c.bbs = new /\ c.n = m /\ c.st = b.st /\ c.done = b.done /\ c.cur = b.cur
      /\ c.fn = b.fn /\ c.fns = b.fns
  BY <1>1 DEF Typed
<1> HIDE DEF new
<1>6. Typed(c)
  <2>1. c = [b EXCEPT !.n = m, !.bbs = new]
    BY DEF new
  <2>2. QED
    BY <1>1, <1>3, <2>1 DEF Typed
<1>7. \A k \in DOMAIN c.bbs : \A j \in DOMAIN c.bbs[k] : OperandsOk(c.bbs[k][j])
  BY <1>1, <1>3, <1>5 DEF Assembled
<1>8. Numbered(c)
  <2>1. ASSUME NEW k \in DOMAIN new, NEW j \in DOMAIN new[k], new[k][j].op \notin Terminators
        PROVE  /\ new[k][j].id \in 1 .. m
               /\ \/ j \in DOMAIN b.bbs[k] /\ new[k][j] = b.bbs[k][j] /\ new[k][j].id <= b.n
                  \/ k = bb /\ j = Len(b.bbs[bb]) + 1 /\ new[k][j].id = m /\ m > b.n
    <3>1. CASE j \in DOMAIN b.bbs[k] /\ new[k][j] = b.bbs[k][j]
      <4>1. new[k][j].id \in 1 .. b.n
        BY <1>1, <1>3, <2>1, <3>1 DEF Assembled, Numbered
      <4>2. QED
        BY <1>2, <3>1, <4>1
    <3>2. CASE k = bb /\ j = Len(b.bbs[bb]) + 1 /\ new[k][j] = i
      BY <1>2, <2>1, <3>2
    <3>3. QED
      BY <1>3, <2>1, <3>1, <3>2
  <2>2. ASSUME NEW k \in DOMAIN new, NEW l \in DOMAIN new,
               NEW p \in DOMAIN new[k], NEW q \in DOMAIN new[l],
               new[k][p].op \notin Terminators, new[l][q].op \notin Terminators,
               new[k][p].id = new[l][q].id
        PROVE  k = l /\ p = q
    <3>1. CASE new[k][p].id <= b.n
      <4>1. /\ p \in DOMAIN b.bbs[k] /\ new[k][p] = b.bbs[k][p]
            /\ q \in DOMAIN b.bbs[l] /\ new[l][q] = b.bbs[l][q]
        BY <1>2, <2>1, <2>2, <3>1
      <4>2. QED
        BY <1>1, <1>3, <2>2, <4>1 DEF Assembled, Numbered
    <3>2. CASE ~(new[k][p].id <= b.n)
      BY <2>1, <2>2, <3>2
    <3>3. QED
      BY <3>1, <3>2
  <2>3. QED
    BY <1>5, <2>1, <2>2 DEF Numbered
<1>9. Assembled(c)
  BY <1>1, <1>3, <1>4, <1>5, <1>7, <1>8 DEF Assembled
<1>10. QED
  BY <1>1, <1>5, <1>6, <1>9 DEF Kept

(* A jump is added under any number.                                       *)
LEMMA JumpAdded ==
  ASSUME NEW b, Kept(b), b.st = "ok", NEW bb \in DOMAIN b.bbs, NEW i \in Jump,
         i.op \in {"goto", "br"} => \A t \in DOMAIN i.x : i.x[t] \in DOMAIN b.bbs
  PROVE  Kept(addInstr(b, bb, i))
<1>1. Typed(b)
  BY DEF Kept
<1>2. b.n \in Nat /\ DOMAIN b.bbs = 1 .. Len(b.bbs) /\ bb # 0
  BY <1>1 DEF Typed
<1>3. OperandsOk(i)
  BY DEF OperandsOk, Jump, Terminators, ArithInstr, CmpInstr
<1>4. addInstr(b, bb, i) = [b EXCEPT !.n = b.n, !.bbs = Added(b.bbs, bb, i)]
  BY <1>1, <1>2 DEF addInstr, Added, Typed
<1>5. i \in Plain \cup Jump /\ i.op \in Terminators /\ b.n >= b.n
  BY <1>2 DEF Jump
<1>6. QED
  BY <1>2, <1>3, <1>4, <1>5, InstrAdded

(* The jumps of the three kinds.                                           *)
LEMMA Jumps ==
  /\ \A to \in Nat : gotoInstr(to) \in Jump /\ gotoInstr(to).x = <<to>>
  /\ \A cond \in Operand, t, f \in Nat :
        brInstr(cond, t, f) \in Jump /\ brInstr(cond, t, f).x = <<t, f>>
  /\ \A value \in {<<>>} \cup {<<v>> : v \in Operand} :
        retInstr(value) \in Jump /\ retInstr(value).op = "ret"
<1>1. ASSUME NEW to \in Nat PROVE gotoInstr(to) \in Jump /\ gotoInstr(to).x = <<to>>
  BY VoidIsType DEF gotoInstr, Instr, Jump, Terminators
<1>2. ASSUME NEW cond \in Operand, NEW t \in Nat, NEW f \in Nat
      PROVE  brInstr(cond, t, f) \in Jump /\ brInstr(cond, t, f).x = <<t, f>>
  BY VoidIsType DEF brInstr, Instr, Jump, Terminators
<1>3. ASSUME NEW value \in {<<>>} \cup {<<v>> : v \in Operand}
      PROVE  retInstr(value) \in Jump /\ retInstr(value).op = "ret"
  <2>1. value \in Seq(Operand)
    <3>1. CASE value = <<>>
      BY <3>1
    <3>2. ASSUME NEW v \in Operand, value = <<v>> PROVE value \in Seq(Operand)
      BY <3>2
    <3>3. QED
      BY <1>3, <3>1, <3>2
  <2>2. <<>> \in Seq(Nat)
    OBVIOUS
  <2>3. QED
    BY <2>1, <2>2, VoidIsType DEF retInstr, Instr, Jump, Terminators
<1>4. QED
  BY <1>1, <1>2, <1>3

(* A crash is remembered.                                                  *)
LEMMA Crashed ==
  ASSUME NEW b, Typed(b)
  PROVE  Kept(Crash(b)) /\ Typed(Crash(b)) /\ Crash(b).st = "crash"
BY DEF Crash, Typed, Kept

(* finishBb adds the open block, which comes next in the function.         *)
LEMMA FinishedBb ==
  ASSUME NEW b, Kept(b), b.st = "ok"
  PROVE  /\ Kept(finishBb(b))
         /\ b.cur # 0 /\ b.fn # NoFn =>
              LET c == finishBb(b)
              IN c.st = "ok" /\ c.cur = 0 /\ c.bbs = b.bbs /\ c.fn = b.fn /\ c.n = b.n
<1>1. Typed(b) /\ Assembled(b)
  BY DEF Kept
<1>2. CASE b.cur = 0 \/ b.fn = NoFn
  BY <1>1, <1>2, Crashed DEF finishBb
<1>3. CASE b.cur # 0 /\ b.fn # NoFn
  <2> DEFINE c == finishBb(b)
             all == Append(b.done, b.cur)
  <2>a. all \in Seq(Nat) /\ Len(all) = Len(b.done) + 1
    BY <1>1 DEF Typed
  <2>1. c = [b EXCEPT !.done = all, !.cur = 0]
    BY <1>1, <1>3 DEF finishBb, Typed
  <2>2. /\ c.st = "ok" /\ c.cur = 0 /\ c.bbs = b.bbs /\ c.fn = b.fn /\ c.n = b.n
        /\ c.fns = b.fns /\ c.done = all
    BY <1>1, <2>1 DEF Typed
  <2>3. Typed(c)
    <3> HIDE DEF all, c
    <3>1. QED
      BY <1>1, <2>1, <2>a DEF Typed
  <2>4. b.done \in Seq(Nat) /\ b.cur = Len(b.done) + 1 /\ Len(b.bbs) = b.cur
    BY <1>1, <1>3 DEF Assembled, Typed
  <2>5. all = [i \in 1 .. Len(all) |-> i]
    <3>1. \A i \in 1 .. Len(b.done) : b.done[i] = i
      BY <1>1 DEF Assembled
    <3>2. \A i \in 1 .. Len(b.done) + 1 : Append(b.done, b.cur)[i] = i
      BY <2>4, <3>1
    <3>3. QED
      BY <2>4, <3>2
  <2> HIDE DEF c, all
  <2>6. Numbered(c)
    BY <1>1, <2>2 DEF Assembled, Numbered
  <2>7. Assembled(c)
    BY <1>1, <2>a, <2>2, <2>4, <2>5, <2>6 DEF Assembled
  <2>8. Kept(c)
    BY <1>3, <2>2, <2>3, <2>7 DEF Kept
  <2>9. QED
    BY <2>2, <2>8 DEF c
<1>4. QED
  BY <1>2, <1>3

(* startBb opens a block behind all the others.                            *)
LEMMA StartedBb ==
  ASSUME NEW b, Kept(b), b.st = "ok", b.fn # NoFn
  PROVE  /\ Kept(startBb(b))
         /\ b.cur = 0 =>
              LET c == startBb(b)
              IN /\ c.st = "ok" /\ c.fn = b.fn /\ c.cur = Len(b.bbs) + 1
                 /\ DOMAIN c.bbs = DOMAIN b.bbs \cup {c.cur}
<1>1. Typed(b) /\ Assembled(b)
  BY DEF Kept
<1>2. CASE b.cur # 0
  BY <1>1, <1>2, Crashed DEF startBb
<1>3. CASE b.cur = 0
  <2> DEFINE c == startBb(b)
             new == Append(b.bbs, <<>>)
  <2>1. c = [b EXCEPT !.bbs = new, !.cur = Len(b.bbs) + 1]
    BY <1>1, <1>3 DEF startBb, Typed
  <2>2. /\ c.st = "ok" /\ c.fn = b.fn /\ c.cur = Len(b.bbs) + 1 /\ c.bbs = new
        /\ c.n = b.n /\ c.fns = b.fns /\ c.done = b.done
    BY <1>1, <2>1 DEF Typed
  <2>3. b.bbs \in Seq(Block) /\ Len(b.bbs) \in Nat
    BY <1>1 DEF Typed
  <2>4. /\ new \in Seq(Block)
        /\ Len(new) = Len(b.bbs) + 1
        /\ DOMAIN new = DOMAIN b.bbs \cup {Len(b.bbs) + 1}
        /\ \A k \in DOMAIN b.bbs : new[k] = b.bbs[k]
        /\ DOMAIN new[Len(b.bbs) + 1] = {}
        /\ JumpsInside(new)
    BY <1>1, <2>3, StartedAt, StartedInside DEF Assembled
  <2> HIDE DEF new
  <2>5. Typed(c)
    <3>1. Len(b.bbs) + 1 \in Nat
      BY <2>3
    <3>2. QED
      BY <1>1, <2>1, <2>4, <3>1 DEF Typed
  <2> HIDE DEF c
  <2>6. \A k \in DOMAIN c.bbs : \A j \in DOMAIN c.bbs[k] :
          k \in DOMAIN b.bbs /\ c.bbs[k] = b.bbs[k]
    BY <2>2, <2>4
  <2>7. Numbered(c)
    BY <1>1, <2>2, <2>6 DEF Assembled, Numbered
  <2>8. \A k \in DOMAIN c.bbs : \A j \in DOMAIN c.bbs[k] : OperandsOk(c.bbs[k][j])
    BY <1>1, <2>6 DEF Assembled
  <2>9. Assembled(c)
    BY <1>1, <1>3, <2>2, <2>3, <2>4, <2>7, <2>8 DEF Assembled
  <2>10. Kept(c)
    BY <2>2, <2>5, <2>9 DEF Kept
  <2>11. QED
    BY <2>2, <2>4, <2>10 DEF c
<1>4. QED
  BY <1>2, <1>3

(* startBbAndLink goes back to the block before, after adding it.          *)
LEMMA StartedBbAndLink ==
  ASSUME NEW b, Kept(b), b.st = "ok", b.fn # NoFn
  PROVE  Kept(startBbAndLink(b))
<1>1. CASE b.cur = 0
  BY <1>1, StartedBb DEF startBbAndLink
<1>2. CASE b.cur # 0
  <2>1. Typed(b) /\ Assembled(b)
    BY DEF Kept
  <2>2. b.cur \in DOMAIN b.bbs
    BY <1>2, <2>1 DEF Typed, Assembled
  <2>3. PICK f : f = finishBb(b)
    OBVIOUS
  <2>4. Kept(f) /\ f.st = "ok" /\ f.cur = 0 /\ f.bbs = b.bbs /\ f.fn # NoFn
    BY <1>2, <2>3, FinishedBb
  <2>5. PICK s : s = startBb(f)
    OBVIOUS
  <2>6. Kept(s) /\ s.st = "ok" /\ s.cur = Len(b.bbs) + 1 /\ DOMAIN s.bbs = DOMAIN b.bbs \cup {s.cur}
    BY <2>4, <2>5, StartedBb
  <2>7. Len(b.bbs) \in Nat
    BY <2>1 DEF Typed
  <2>8. /\ gotoInstr(s.cur) \in Jump
        /\ \A t \in DOMAIN gotoInstr(s.cur).x : gotoInstr(s.cur).x[t] \in DOMAIN s.bbs
    BY <2>6, <2>7, Jumps
  <2>9. Kept(addGoto(s, b.cur, s.cur))
    BY <2>2, <2>6, <2>8, JumpAdded DEF addGoto
  <2>10. QED
    BY <1>2, <2>3, <2>5, <2>9 DEF startBbAndLink
<1>3. QED
  BY <1>1, <1>2

(* An instruction that computes something gets the next number, and fails  *)
(* the assert of its constructor or has operands that pass it.             *)
LEMMA Emitted ==
  ASSUME NEW b, Kept(b), b.st = "ok",
         NEW op \in Op, NEW ty \in Type, NEW xs \in Seq(Operand), NEW x \in Seq(Detail)
  PROVE  Kept(Emit(b, op, ty, xs, x).b)
<1> DEFINE i == [op |-> op, ty |-> ty, xs |-> xs, x |-> x, id |-> b.n + 1]
           b0 == [b EXCEPT !.n = b.n + 1]
           b1 == addInstr(b0, b.cur, i)
<1>1. Typed(b) /\ Assembled(b) /\ b.n \in Nat /\ b.n + 1 \in Nat
  BY DEF Kept, Typed
<1>2. i \in Plain /\ i.op = op /\ i.id = b.n + 1
  BY <1>1 DEF Plain
<1>3. op \notin Terminators /\ op \notin {"goto", "br"}
  BY DEF Op, Terminators, ArithInstr, CmpInstr
<1> HIDE DEF i
<1>4. Emit(b, op, ty, xs, x).b = IF OperandsOk(i) THEN b1 ELSE Crash(b1)
  BY <1>1 DEF Emit, Typed, i
<1>5. Typed(b0) /\ b0.bbs = b.bbs
  BY <1>1 DEF Typed
<1>6. CASE b.cur = 0
  <2>1. b1 = Crash(b0)
    BY <1>6 DEF addInstr
  <2>2. Kept(b1) /\ Kept(Crash(b1))
    BY <1>5, <2>1, Crashed
  <2>3. QED
    BY <1>4, <2>2
<1>7. CASE b.cur # 0
  <2>1. b.cur \in DOMAIN b.bbs
    BY <1>1, <1>7 DEF Assembled, Typed
  <2>2. b1 = [b EXCEPT !.n = b.n + 1, !.bbs = Added(b.bbs, b.cur, i)]
    BY <1>1, <1>5, <1>7 DEF addInstr, Added, Typed
  <2>3. CASE OperandsOk(i)
    <3>1. i \in Plain \cup Jump /\ b.n + 1 >= b.n /\ b.n + 1 > b.n
      BY <1>1, <1>2
    <3>2. Kept(b1)
      BY <1>1, <1>2, <1>3, <2>1, <2>2, <2>3, <3>1, InstrAdded
    <3>3. QED
      BY <1>4, <2>3, <3>2
  <2>4. CASE ~OperandsOk(i)
    <3> DEFINE new == Added(b.bbs, b.cur, i)
    <3>1. new \in Seq(Block)
      BY <1>1, <1>2, <2>1, AddedAt DEF Typed
    <3> HIDE DEF new
    <3>2. b1 = [b EXCEPT !.n = b.n + 1, !.bbs = new]
      BY <2>2 DEF new
    <3> HIDE DEF b1
    <3>3. Typed(b1)
      BY <1>1, <3>1, <3>2 DEF Typed
    <3>4. QED
      BY <1>4, <2>4, <3>3, Crashed
  <2>5. QED
    BY <2>3, <2>4
<1>8. QED
  BY <1>6, <1>7

(* Declarations do not touch the function under construction.              *)
LEMMA Declared ==
  ASSUME Kept(builder), builder.st = "ok", Declare
  PROVE  Kept(builder')
<1> DEFINE b == builder
<1>1. Typed(b) /\ Assembled(b) /\ (b.fn = NoFn => b.cur = 0)
  BY DEF Kept
<1>2. ASSUME NEW s \in Signature, builder' = addFunctionSignature(b, s.n, s)
      PROVE  Kept(builder')
  <2> DEFINE sigs == Entered(b.sigs, s.n, s)
  <2>1. sigs \in Partial(Name, Signature)
    BY <1>1, EnteredOnce, SignatureNames DEF Typed
  <2>2. builder' = [b EXCEPT !.sigs = sigs]
    BY <1>1, <1>2 DEF addFunctionSignature, Typed
  <2> HIDE DEF sigs
  <2>3. Typed(builder')
    BY <1>1, <2>1, <2>2 DEF Typed
  <2>4. /\ builder'.bbs = b.bbs /\ builder'.done = b.done /\ builder'.cur = b.cur
        /\ builder'.n = b.n /\ builder'.fn = b.fn /\ builder'.fns = b.fns
    BY <1>1, <2>2 DEF Typed
  <2>5. Assembled(builder')
    BY <1>1, <2>4 DEF Assembled, Numbered
  <2>6. QED
    BY <1>1, <2>3, <2>4, <2>5 DEF Kept
<1>3. ASSUME NEW n \in Name, NEW t \in Type, builder' = addGlobal(b, n, t)
      PROVE  Kept(builder')
  <2> DEFINE gs == Entered(b.gs, n, t)
  <2>1. gs \in Partial(Name, Type)
    BY <1>1, EnteredOnce DEF Typed
  <2>2. builder' = [b EXCEPT !.gs = gs]
    BY <1>1, <1>3 DEF addGlobal, Typed
  <2> HIDE DEF gs
  <2>3. Typed(builder')
    BY <1>1, <2>1, <2>2 DEF Typed
  <2>4. /\ builder'.bbs = b.bbs /\ builder'.done = b.done /\ builder'.cur = b.cur
        /\ builder'.n = b.n /\ builder'.fn = b.fn /\ builder'.fns = b.fns
    BY <1>1, <2>2 DEF Typed
  <2>5. Assembled(builder')
    BY <1>1, <2>4 DEF Assembled, Numbered
  <2>6. QED
    BY <1>1, <2>3, <2>4, <2>5 DEF Kept
<1>4. QED
  BY <1>2, <1>3 DEF Declare

(* A new function has no blocks, and no block is open.                     *)
LEMMA StartedFunction ==
  ASSUME NEW b, Kept(b), b.st = "ok", NEW s \in Signature
  PROVE  Kept(startFunction(b, s))
<1>1. Typed(b) /\ Assembled(b) /\ (b.fn = NoFn => b.cur = 0)
  BY DEF Kept
<1>2. CASE b.fn # NoFn
  BY <1>1, <1>2, Crashed DEF startFunction
<1>3. CASE b.fn = NoFn
  <2> DEFINE c == startFunction(b, s)
  <2>1. c = [b EXCEPT !.fn = s, !.bbs = <<>>, !.done = <<>>]
    BY <1>3 DEF startFunction
  <2>2. /\ c.bbs = <<>> /\ c.done = <<>> /\ c.cur = 0 /\ c.fn = s
        /\ c.n = b.n /\ c.fns = b.fns /\ c.st = "ok"
    BY <1>1, <1>3, <2>1 DEF Typed
  <2> HIDE DEF c
  <2>3. Typed(c)
    <3>1. <<>> \in Seq(Block) /\ <<>> \in Seq(Nat)
      OBVIOUS
    <3>2. QED
      BY <1>1, <2>1, <3>1 DEF Typed
  <2>4. JumpsInside(c.bbs) /\ Numbered(c) /\ DOMAIN c.bbs = {}
    BY <2>2 DEF JumpsInside, Numbered
  <2>5. Assembled(c)
    BY <1>1, <2>2, <2>4 DEF Assembled
  <2>6. QED
    BY <2>2, <2>3, <2>5, SignatureNames DEF Kept, c
<1>4. QED
  BY <1>2, <1>3

(* A function that is finished has all its blocks.                         *)
LEMMA FinishedFunction ==
  ASSUME NEW b, Kept(b), b.st = "ok", b.cur = 0
  PROVE  Kept(finishFunction(b))
<1>1. Typed(b) /\ Assembled(b)
  BY DEF Kept
<1>2. CASE b.fn = NoFn
  BY <1>1, <1>2, Crashed DEF finishFunction
<1>3. CASE b.fn # NoFn
  <2> DEFINE c == finishFunction(b)
             new == [sig |-> b.fn, bbs |-> b.bbs, done |-> b.done]
             fns == Entered(b.fns, b.fn.n, new)
  <2>1. b.fn \in Signature /\ b.fn.n \in Name
    BY <1>1, <1>3, SignatureNames DEF Typed
  <2>2. new \in [sig : Signature, bbs : Seq(Block), done : Seq(Nat)]
    BY <1>1, <2>1 DEF Typed
  <2>3. new.done = [i \in DOMAIN new.bbs |-> i] /\ JumpsInside(new.bbs)
    <3>1. DOMAIN b.bbs = 1 .. Len(b.done)
      BY <1>1 DEF Assembled, Typed
    <3>2. QED
      BY <1>1, <3>1 DEF Assembled
  <2>4. c = [b EXCEPT !.fn = NoFn, !.fns = fns]
    BY <1>1, <1>3 DEF finishFunction, Typed
  <2> HIDE DEF new
  <2>5. /\ fns \in Partial(Name, [sig : Signature, bbs : Seq(Block), done : Seq(Nat)])
        /\ \A f \in DOMAIN fns : (f \in DOMAIN b.fns /\ fns[f] = b.fns[f]) \/ fns[f] = new
    <3> DEFINE F == [sig : Signature, bbs : Seq(Block), done : Seq(Nat)]
    <3>1. b.fns \in Partial(Name, F) /\ new \in F
      BY <1>1, <2>2 DEF Typed
    <3> HIDE DEF F
    <3>2. /\ fns \in Partial(Name, F)
          /\ DOMAIN fns = DOMAIN b.fns \cup {b.fn.n}
          /\ \A f \in DOMAIN b.fns \cup {b.fn.n} :
               fns[f] = IF f \in DOMAIN b.fns THEN b.fns[f] ELSE new
      <4>1. PICK g \in Partial(Name, F), k \in Name, v \in F :
              g = b.fns /\ k = b.fn.n /\ v = new
        BY <2>1, <3>1
      <4>2. fns = Entered(g, k, v)
        BY <4>1
      <4> HIDE DEF fns
      <4>3. Entered(g, k, v) \in Partial(Name, F)
        BY EnteredOnce
      <4>4. DOMAIN Entered(g, k, v) = DOMAIN g \cup {k}
        BY DEF Entered
      <4>5. \A f \in DOMAIN g \cup {k} :
              Entered(g, k, v)[f] = IF f \in DOMAIN g THEN g[f] ELSE v
        BY DEF Entered
      <4>6. QED
        BY <4>1, <4>2, <4>3, <4>4, <4>5
    <3>3. QED
      BY <3>2 DEF F
  <2> HIDE DEF fns, c
  <2>6. /\ c.bbs = b.bbs /\ c.done = b.done /\ c.cur = b.cur /\ c.n = b.n
        /\ c.fn = NoFn /\ c.fns = fns
    BY <1>1, <2>4 DEF Typed
  <2>7. Typed(c)
    BY <1>1, <2>4, <2>5 DEF Typed
  <2>8. \A f \in DOMAIN c.fns :
          c.fns[f].done = [i \in DOMAIN c.fns[f].bbs |-> i] /\ JumpsInside(c.fns[f].bbs)
    BY <1>1, <2>3, <2>5, <2>6 DEF Assembled
  <2>9. Assembled(c)
    BY <1>1, <2>6, <2>8 DEF Assembled, Numbered
  <2>10. QED
    BY <2>6, <2>7, <2>9 DEF Kept, c
<1>4. QED
  BY <1>2, <1>3

-----------------------------------------------------------------------------
(* The whole.                                                              *)

(* Nothing has been built at first.                                        *)
LEMMA InitKept == Init => Inv
<1> SUFFICES ASSUME Init PROVE Kept(builder)
  BY DEF Inv
<1>1. Empty \in Partial(Name, Signature) /\ Empty \in Partial(Name, Type)
      /\ Empty \in Partial(Name, [sig : Signature, bbs : Seq(Block), done : Seq(Nat)])
  <2>1. ASSUME NEW T PROVE Empty \in Partial(Name, T)
    <3>1. Empty \in [{} -> T]
      BY DEF Empty
    <3>2. QED
      BY <3>1 DEF Partial
  <2>2. QED
    BY <2>1
<1>2. <<>> \in Seq(Block) /\ <<>> \in Seq(Nat)
  OBVIOUS
<1>3. Typed(builder)
  BY <1>1, <1>2 DEF Init, NewBuilder, Typed
<1>4. DOMAIN builder.bbs = {} /\ DOMAIN builder.fns = {}
  BY DEF Init, NewBuilder, Empty
<1>5. builder.done = [i \in 1 .. Len(builder.done) |-> i]
  BY DEF Init, NewBuilder
<1>6. builder.cur = 0 /\ Len(builder.bbs) = Len(builder.done)
  BY DEF Init, NewBuilder
<1>7. Assembled(builder)
  BY <1>4, <1>5, <1>6 DEF Assembled, JumpsInside, Numbered
<1>8. QED
  BY <1>3, <1>6, <1>7 DEF Kept

(* Each of the client's three kinds of jump keeps the builder in order.    *)
LEMMA JumpStep ==
  ASSUME Kept(builder), builder.st = "ok", AddJump
  PROVE  Kept(builder')
<1>1. PICK bb \in Nat :
        /\ bb = 0 \/ Open(bb)
        /\ \/ \E to \in Nat : Open(to) /\ builder' = addGoto(builder, bb, to)
           \/ \E cond \in Operand, t, f \in Nat : Open(t) /\ Open(f) /\
                builder' = addInstr(builder, bb, brInstr(cond, t, f))
           \/ \E value \in {<<>>} \cup {<<v>> : v \in Operand} :
                builder' = addInstr(builder, bb, retInstr(value))
  BY DEF AddJump
<1>2. CASE bb = 0
  <2>1. builder' = Crash(builder)
    BY <1>1, <1>2 DEF addGoto, addInstr
  <2>2. QED
    BY <2>1, Crashed DEF Kept
<1>a. SUFFICES ASSUME bb \in DOMAIN builder.bbs PROVE Kept(builder')
  BY <1>1, <1>2 DEF Open
<1>3. ASSUME NEW to \in Nat, Open(to), builder' = addGoto(builder, bb, to)
      PROVE  Kept(builder')
  <2>1. \A t \in DOMAIN gotoInstr(to).x : gotoInstr(to).x[t] \in DOMAIN builder.bbs
    BY <1>3, Jumps DEF Open
  <2>2. QED
    BY <1>a, <1>3, <2>1, Jumps, JumpAdded DEF addGoto
<1>4. ASSUME NEW cond \in Operand, NEW t \in Nat, NEW f \in Nat, Open(t), Open(f),
             builder' = addInstr(builder, bb, brInstr(cond, t, f))
      PROVE  Kept(builder')
  <2>1. \A k \in DOMAIN brInstr(cond, t, f).x :
           brInstr(cond, t, f).x[k] \in DOMAIN builder.bbs
    BY <1>4, Jumps DEF Open
  <2>2. QED
    BY <1>a, <1>4, <2>1, Jumps, JumpAdded
<1>5. ASSUME NEW value \in {<<>>} \cup {<<v>> : v \in Operand},
             builder' = addInstr(builder, bb, retInstr(value))
      PROVE  Kept(builder')
  BY <1>a, <1>5, Jumps, JumpAdded
<1>6. QED
  BY <1>1, <1>3, <1>4, <1>5

(* So does every call of the client.                                       *)
LEMMA NextKept == Inv /\ [Next]_vars => Inv'
<1> SUFFICES ASSUME Kept(builder), [Next]_vars PROVE Kept(builder')
  BY DEF Inv
<1>1. CASE UNCHANGED vars
  BY <1>1 DEF vars
<1>2. CASE Next
  <2>1. builder.st = "ok"
    BY <1>2 DEF Next
  <2>2. CASE Declare
    BY <2>1, <2>2, Declared
  <2>3. CASE StartFunction
    BY <2>1, <2>3, StartedFunction DEF StartFunction
  <2>4. CASE FinishFunction
    BY <2>1, <2>4, FinishedFunction DEF FinishFunction
  <2>5. CASE StartBb
    BY <2>1, <2>5, StartedBb DEF StartBb
  <2>6. CASE StartBbAndLink
    BY <2>1, <2>6, StartedBbAndLink DEF StartBbAndLink
  <2>7. CASE FinishBb
    BY <2>1, <2>7, FinishedBb DEF FinishBb
  <2>8. CASE AddToCurBb
    BY <2>1, <2>8, Emitted DEF AddToCurBb
  <2>9. CASE AddJump
    BY <2>1, <2>9, JumpStep
  <2>10. QED
    BY <1>2, <2>2, <2>3, <2>4, <2>5, <2>6, <2>7, <2>8, <2>9 DEF Next
<1>3. QED
  BY <1>1, <1>2

\* No assert has failed so far, or nothing is promised.
ModuleAssembled == builder.st = "ok" => Assembled(builder)

(* Whatever a client does that starts blocks inside functions and closes   *)
(* the last one: as long as no assert fails, the blocks it started are in  *)
(* the function once each and in their order, jumps stay inside their      *)
(* function, and no two instructions share a number.                       *)
THEOREM BuilderAssembles == Spec => []ModuleAssembled
<1>1. Inv => ModuleAssembled
  BY DEF Inv, Kept, ModuleAssembled
<1>2. QED
  BY <1>1, InitKept, NextKept, PTL DEF Spec
=============================================================================
