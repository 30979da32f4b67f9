--------------------------- MODULE CollectionProofs ---------------------------
(***************************************************************************)
(* The link between Marking and Heap.  Heap takes a whole marking as one   *)
(* step, on objects with one reference and frames with one root; here it   *)
(* is shown that any number of workers with any leftovers in their queues  *)
(* and marks, let loose on that heap as Marking describes them, leave the  *)
(* marks and the leftovers that the one step allows.                       *)
(***************************************************************************)
EXTENDS HeapProofs

CONSTANTS
  NUM_WORKERS, Capacity,
  Stale  \* what the rings hold when the collection begins

VARIABLES
  phase, frame, global, dq, spent, ghost, marked, active, done, pc, obj, slot, chk

\* The deques that collections may leave behind whose rings hold what is in held.
LeftDeques(held) ==
  {d \in Seq(held \cup {Null}) : Len(d) < Capacity /\ \A i \in 2 .. Len(d) : d[i] # Null}

\* Heap's objects and frames as Marking has them.
Words == [c \in Cell |-> <<[ref |-> TRUE, val |-> refs[c]]>>]
Frames == [i \in DOMAIN stack |-> <<stack[i]>>]

Marker == INSTANCE MarkingProofs WITH
  Obj          <- Cell,
  Heaps        <- [Cell -> Seq([ref : BOOLEAN, val : Cell \cup {Null}])],
  Stacks       <- Seq(Seq(Cell)),
  LeftTasks    <- LeftDeques(Stale),
  LeftRoots    <- Seq(Stale),
  LeftMarks    <- SUBSET Cell,
  heap         <- Words,
  shadow_stack <- Frames,
  old          <- Marked

\* What Marking assumes of its parameters.
LEMMA Premises ==
  ASSUME NUM_WORKERS \in Nat \ {0}, Capacity \in Nat \ {0}
  PROVE  /\ Null \notin Cell
         /\ [Cell -> Seq([ref : BOOLEAN, val : Cell \cup {Null}])] \subseteq
              [Cell -> Seq(Marker!Word)]
         /\ Seq(Seq(Cell)) \subseteq Seq(Seq(Cell \cup {Null}))
         /\ \A d \in LeftDeques(Stale) : Marker!Remainder(d, Stale)
         /\ Seq(Stale) \subseteq Seq(Stale)
         /\ \A s \in Seq(Seq(Cell)) : Marker!NoNullRoots(s)
<1>1. Null \notin Cell
  BY NullAssumption
<1>2. Marker!Word = [ref : BOOLEAN, val : Cell \cup {Null}]
  BY DEF Marker!Word
<1>3. Seq(Cell) \subseteq Seq(Cell \cup {Null})
  OBVIOUS
<1>4. Seq(Seq(Cell)) \subseteq Seq(Seq(Cell \cup {Null}))
  BY <1>3
<1>5. ASSUME NEW d \in LeftDeques(Stale)
      PROVE  Marker!Remainder(d, Stale)
  BY DEF LeftDeques, Marker!Remainder
<1>6. ASSUME NEW s \in Seq(Seq(Cell)) PROVE Marker!NoNullRoots(s)
  <2>1. ASSUME NEW i \in DOMAIN s PROVE Null \notin Marker!Range(s[i])
    BY <1>1 DEF Marker!Range
  <2>2. QED
    BY <2>1 DEF Marker!NoNullRoots
<1>7. QED
  BY <1>1, <1>2, <1>4, <1>5, <1>6

\* The roots are the same, and so are the children.
LEMMA SameRoots ==
  ASSUME Frames \in Seq(Seq(Cell \cup {Null})), Marker!NoNullRoots(Frames)
  PROVE  Marker!Roots = Objects!Roots
<1>1. DOMAIN stack = DOMAIN Frames /\ DOMAIN Frames = 1 .. Len(Frames)
  BY DEF Frames
<1>2. \A i \in DOMAIN stack : Marker!Range(Frames[i]) = {stack[i]}
  BY DEF Frames, Marker!Range
<1>3. \A i \in DOMAIN stack : stack[i] # Null
  BY <1>1, <1>2 DEF Marker!NoNullRoots
<1>4. Marker!Roots = (UNION {Marker!Range(Frames[i]) : i \in 1 .. Len(Frames)}) \ {Null}
  BY DEF Marker!Roots, Marker!RootsOf
<1>5. UNION {Marker!Range(Frames[i]) : i \in DOMAIN stack} = {stack[i] : i \in DOMAIN stack}
  <2>1. ASSUME NEW x
        PROVE  x \in UNION {Marker!Range(Frames[i]) : i \in DOMAIN stack}
               <=> \E i \in DOMAIN stack : x = stack[i]
    <3>1. x \in UNION {Marker!Range(Frames[i]) : i \in DOMAIN stack}
          <=> \E i \in DOMAIN stack : x \in Marker!Range(Frames[i])
      OBVIOUS
    <3>2. QED
      BY <1>2, <3>1
  <2>2. QED
    BY <2>1
<1>6. QED
  BY <1>1, <1>3, <1>4, <1>5 DEF Objects!Roots

(* What an object refers to, in either module's terms.                    *)
LEMMA SameChildren ==
  ASSUME NEW c \in Cell
  PROVE  Marker!Children(c) = {refs[c]} \ {Null}
<1> DEFINE word == [ref |-> TRUE, val |-> refs[c]]
<1>a. word.ref = TRUE /\ word.val = refs[c]
  OBVIOUS
<1>b. Words[c] = <<word>>
  BY DEF Words
<1>c. ASSUME NEW x PROVE DOMAIN <<x>> = {1} /\ <<x>>[1] = x
  OBVIOUS
<1>1. DOMAIN Words[c] = {1} /\ Words[c][1].ref = TRUE /\ Words[c][1].val = refs[c]
  <2> HIDE DEF word
  <2>1. QED
    BY <1>a, <1>b, <1>c
<1>2. {j \in DOMAIN Words[c] : Words[c][j].ref} = {1}
  BY <1>1
<1>3. QED
  BY <1>1, <1>2 DEF Marker!Children

\* What the objects refer to is what the frames of Marking's heap say.
LEMMA RefsTyped ==
  ASSUME Words \in [Cell -> Seq(Marker!Word)]
  PROVE  \A c \in Cell : refs[c] \in Cell \cup {Null}
<1> SUFFICES ASSUME NEW c \in Cell PROVE refs[c] \in Cell \cup {Null}
  OBVIOUS
<1> DEFINE word == [ref |-> TRUE, val |-> refs[c]]
<1>1. Words[c] = <<word>> /\ Words[c] \in Seq(Marker!Word)
  BY DEF Words
<1>2. word.val = refs[c]
  OBVIOUS
<1> HIDE DEF word
<1>3. Len(<<word>>) = 1 /\ <<word>>[1] = word
  OBVIOUS
<1>4. word \in Marker!Word
  BY <1>1, <1>3, ElementOfSeq
<1>5. QED
  BY <1>2, <1>4 DEF Marker!Word

(* A search from the same objects finds the same in either module.         *)
LEMMA SameSearch ==
  ASSUME NEW from \in SUBSET Cell, \A c \in Cell : refs[c] \in Cell \cup {Null}
  PROVE  Marker!FoundFrom(from) = Found(from)
<1> DEFINE F == Found(from)
           closed == Marker!Closed(from)
<1>1. /\ F \subseteq Cell /\ from \subseteq F
      /\ \A c \in F \ Marked : refs[c] # Null => refs[c] \in F
      /\ \A S \in SUBSET Cell : /\ from \subseteq S
                                /\ \A c \in S \ Marked : refs[c] # Null => refs[c] \in S
                                => F \subseteq S
  BY ReachedUpTo DEF Found
<1>2. \A S : S \in closed <=> /\ S \in SUBSET Cell /\ from \subseteq S
                             /\ \A c \in S \ Marked : refs[c] # Null => refs[c] \in S
  <2>1. \A c \in Cell : [o \in Cell \ Marked |-> Marker!Children(o)][c] = {refs[c]} \ {Null}
                       \/ c \in Marked
    BY SameChildren
  <2> DEFINE larger == {from \cup more : more \in SUBSET (Cell \ from)}
             next == [o \in Cell \ Marked |-> Marker!Children(o)]
  <2>2. ASSUME NEW S \in SUBSET Cell, from \subseteq S
        PROVE  S \in larger
    <3>1. S = from \cup (S \ from) /\ S \ from \in SUBSET (Cell \ from)
      BY <2>2
    <3>2. QED
      BY <3>1
  <2>3. \A S \in larger : S \in SUBSET Cell /\ from \subseteq S
    OBVIOUS
  <2>4. closed = {S \in larger : \A o \in S \ Marked : next[o] \subseteq S}
    BY DEF Marker!Closed
  <2>5. \A S \in SUBSET Cell :
          (\A o \in S \ Marked : next[o] \subseteq S)
          <=> (\A c \in S \ Marked : refs[c] # Null => refs[c] \in S)
    BY <2>1
  <2> HIDE DEF larger, next, closed
  <2>6. QED
    BY <2>2, <2>3, <2>4, <2>5
<1> HIDE DEF F, closed
<1>3. F \in closed /\ \A S \in closed : F \subseteq S
  BY <1>1, <1>2
<1>4. {c \in Cell : \A S \in closed : c \in S} = F
  BY <1>1, <1>3
<1>5. QED
  BY <1>4 DEF Marker!FoundFrom, F, closed

\* So a collection finds what collect does.
LEMMA SameFound ==
  ASSUME Stale \subseteq Cell, rings = Stale, Frames \in Seq(Seq(Cell \cup {Null})),
         Words \in [Cell -> Seq(Marker!Word)], Marker!NoNullRoots(Frames)
  PROVE  Marker!Traced = Traced /\ Marker!Findable = Findable
<1>1. Marker!Roots = Objects!Roots
  BY SameRoots
<1>2. Objects!Roots \in SUBSET Cell
  <2>1. Marker!Roots \subseteq Cell
    <3>1. \A i \in 1 .. Len(Frames) : Marker!Range(Frames[i]) \subseteq Cell \cup {Null}
      <4> SUFFICES ASSUME NEW i \in 1 .. Len(Frames)
                   PROVE  Marker!Range(Frames[i]) \subseteq Cell \cup {Null}
        OBVIOUS
      <4> HIDE DEF Frames
      <4>1. Frames[i] \in Seq(Cell \cup {Null})
        BY ElementOfSeq
      <4>2. QED
        BY <4>1, ElementOfSeq, LenProperties DEF Marker!Range
    <3> HIDE DEF Frames
    <3>2. QED
      BY <3>1 DEF Marker!Roots, Marker!RootsOf
  <2>2. QED
    BY <1>1, <2>1
<1>3. \A c \in Cell : refs[c] \in Cell \cup {Null}
  BY RefsTyped
<1>4. QED
  BY <1>1, <1>2, <1>3, SameSearch
     DEF Marker!Traced, Marker!Findable, Traced, Findable

(* Marks and contents of the rings that collect of Heap may write.         *)
CollectMayLeave(marks, held) ==
  \E strays \in SUBSET (Findable \ Traced) :
    LET new == (Traced \cup strays) \ Marked
    IN marks = Marked \cup new /\ held = rings \cup Pushed(new)

(* Any number of workers with deques of any capacity, on any heap of       *)
(* objects with one reference, with any marks left over, any pointers in   *)
(* the rings and any of these in the queues: when mark() returns, the      *)
(* marks are some that collect of Heap may write in its one step, and the  *)
(* queues are left with no more than it says the rings then hold.  So they *)
(* begin the next collection as this theorem wants them, and it speaks of  *)
(* every collection of a run of the program (runtime.cpp:38-125,           *)
(* work_stealing_queue.hpp).                                               *)
THEOREM MarkingIsCollect ==
  ASSUME NUM_WORKERS \in Nat \ {0}, Capacity \in Nat \ {0}, Stale \subseteq Cell
  PROVE  Marker!Spec =>
           [](phase = "joined" /\ rings = Stale =>
                \E held \in SUBSET Cell :
                  /\ CollectMayLeave(marked, held)
                  /\ global \in Seq(held)
                  /\ \A w \in 0 .. NUM_WORKERS - 1 :
                       dq[w] \in LeftDeques(held) /\ spent[w] \subseteq held \cup {Null})
<1> DEFINE Worker == 0 .. NUM_WORKERS - 1
           Left(held) == /\ CollectMayLeave(marked, held)
                         /\ global \in Seq(held)
                         /\ \A w \in Worker :
                              dq[w] \in LeftDeques(held) /\ spent[w] \subseteq held \cup {Null}
           Covered == \E held \in SUBSET Cell : Left(held)
<1>1. /\ Marker!Spec => []Marker!NothingMissed
      /\ Marker!Spec => []Marker!GarbageBounded
      /\ Marker!Spec => []Marker!QueuesAreRemainders
      /\ Marker!Spec => []Marker!MarkingInv
  BY Premises, Marker!MarkingIsComplete, Marker!GarbageIsBounded, Marker!RemaindersCovered,
     Marker!Invariance
<1>2. /\ Marker!NothingMissed /\ Marker!GarbageBounded /\ Marker!QueuesAreRemainders
      /\ Marker!MarkingInv
      => (phase = "joined" /\ rings = Stale => Covered)
  <2> SUFFICES ASSUME Marker!NothingMissed, Marker!GarbageBounded, Marker!QueuesAreRemainders,
                      Marker!MarkingInv, phase = "joined", rings = Stale
               PROVE  Covered
    OBVIOUS
  <2>1. /\ Frames \in Seq(Seq(Cell \cup {Null})) /\ Words \in [Cell -> Seq(Marker!Word)]
        /\ Marked \subseteq marked /\ marked \subseteq Cell
        /\ global \in Seq(Cell \cup {Null})
    BY DEF Marker!MarkingInv, Marker!TypeOK
  <2>2. Marker!NoNullRoots(Frames)
    BY DEF Marker!MarkingInv, Marker!GlobalInv
  <2>3. Marker!Traced = Traced /\ Marker!Findable = Findable
    BY <2>1, <2>2, SameFound
  <2>4. Traced \subseteq marked /\ marked \subseteq Marked \cup Findable
    BY <2>3 DEF Marker!NothingMissed, Marker!GarbageBounded
  <2> DEFINE new == marked \ Marked
             held == rings \cup Pushed(new)
             strays == new \ Traced
  <2>5. /\ strays \in SUBSET (Findable \ Traced) /\ (Traced \cup strays) \ Marked = new
        /\ marked = Marked \cup new
    BY <2>1, <2>4
  <2>6. CollectMayLeave(marked, held)
    BY <2>5 DEF CollectMayLeave
  <2>7. \A c \in new : c \in Cell
    BY <2>1
  <2> HIDE DEF new
  <2>8. \A c \in Cell : refs[c] \in Cell \cup {Null}
    BY <2>1, RefsTyped
  <2>9. held \in SUBSET Cell
    BY <2>7, <2>8 DEF Pushed
  <2>10. Marker!Carried = held
    <3>1. \A c \in new : Marker!Children(c) = {refs[c]} \ {Null}
      BY <2>7, SameChildren
    <3>2. UNION {Marker!Children(c) : c \in new} = Pushed(new)
      BY <3>1 DEF Pushed
    <3>3. QED
      BY <3>2 DEF Marker!Carried, new
  <2> HIDE DEF held, strays
  <2>11. /\ Null \notin Marker!Range(global)
         /\ \A w \in Worker : Marker!Remainder(dq[w], spent[w])
         /\ Marker!Range(global) \subseteq held \cup {Null}
         /\ \A w \in Worker : spent[w] \subseteq held \cup {Null}
    BY <2>10 DEF Marker!QueuesAreRemainders, Marker!Worker
  <2>12. global \in Seq(held)
    <3>1. \A i \in 1 .. Len(global) : global[i] \in held
      BY <2>1, <2>11 DEF Marker!Range
    <3>2. Len(global) \in Nat /\ global = [i \in 1 .. Len(global) |-> global[i]]
      BY <2>1
    <3>3. QED
      BY <3>1, <3>2, IsASeq
  <2>13. ASSUME NEW w \in Worker PROVE dq[w] \in LeftDeques(held)
    <3>1. /\ dq[w] \in Seq(spent[w] \cup {Null}) /\ Len(dq[w]) < Capacity
          /\ \A i \in 2 .. Len(dq[w]) : dq[w][i] # Null
      BY <2>11 DEF Marker!Remainder
    <3>2. spent[w] \cup {Null} \subseteq held \cup {Null}
      BY <2>11
    <3>3. dq[w] \in Seq(held \cup {Null})
      BY <3>1, <3>2
    <3>4. QED
      BY <3>1, <3>3 DEF LeftDeques
  <2>14. QED
    BY <2>6, <2>9, <2>11, <2>12, <2>13
<1>3. QED
  BY <1>1, <1>2, PTL

-----------------------------------------------------------------------------
(* The one step.                                                           *)

OneStep == INSTANCE AtomicMarking WITH
  Object   <- Cell,
  children <- [c \in Cell |-> {refs[c]} \ {Null}],
  roots    <- Objects!Roots,
  marks    <- Marked,
  returned <- Sweeping

(* What collect finds is what AtomicMarking does.                          *)
LEMMA OneSearch ==
  ASSUME NEW from \in SUBSET Cell, \A c \in Cell : refs[c] \in Cell \cup {Null}
  PROVE  OneStep!FoundFrom(from) = Found(from)
<1> DEFINE C == [c \in Cell |-> {refs[c]} \ {Null}]
           F == Found(from)
           closed == {set \in SUBSET Cell :
                        from \subseteq set /\ \A c \in set \ Marked : C[c] \subseteq set}
<1>1. /\ F \subseteq Cell /\ from \subseteq F
      /\ \A c \in F \ Marked : refs[c] # Null => refs[c] \in F
      /\ \A S \in SUBSET Cell : /\ from \subseteq S
                                /\ \A c \in S \ Marked : refs[c] # Null => refs[c] \in S
                                => F \subseteq S
  BY ReachedUpTo DEF Found
<1>2. \A S : S \in closed <=> /\ S \in SUBSET Cell /\ from \subseteq S
                             /\ \A c \in S \ Marked : refs[c] # Null => refs[c] \in S
  OBVIOUS
<1>3. OneStep!FoundFrom(from) = {c \in Cell : \A S \in closed : c \in S}
  BY DEF OneStep!FoundFrom
<1> HIDE DEF F, closed
<1>4. F \in closed /\ \A S \in closed : F \subseteq S
  BY <1>1, <1>2
<1>5. {c \in Cell : \A S \in closed : c \in S} = F
  BY <1>1, <1>4
<1>6. QED
  BY <1>3, <1>5 DEF F

(* Only collect begins a sweep, and it writes those marks.                 *)
LEMMA CollectStep ==
  ASSUME Cells, [Next]_vars, ~Sweeping, Sweeping'
  PROVE  OneStep!Mark
<1> DEFINE C == [c \in Cell |-> {refs[c]} \ {Null}]
<1>1. collect
  <2>1. todo' # todo
    BY DEF Sweeping
  <2>2. ASSUME NEW size \in Sizes PROVE ~allocate(size)
    BY <2>1 DEF allocate
  <2>3. ~Program /\ ~UNCHANGED vars
    BY <2>1 DEF Program, vars
  <2>4. ASSUME NEW i \in Allocators PROVE ~sweep(i)
    BY DEF sweep, Sweeping
  <2>5. QED
    BY <2>2, <2>3, <2>4 DEF Next
<1>2. PICK strays \in SUBSET (Findable \ Traced) :
        LET new == (Traced \cup strays) \ Marked
        IN /\ hdr' = [c \in Cell |-> IF c \in new THEN [hdr[c] EXCEPT !.mark = TRUE] ELSE hdr[c]]
           /\ rings' = rings \cup Pushed(new)
  BY <1>1 DEF collect
<1> DEFINE new == (Traced \cup strays) \ Marked
<1>3. /\ hdr \in [Cell -> Header] /\ TypeOK /\ rings \in SUBSET Cell
      /\ \A c \in Cell : refs[c] \in Cell \cup {Null}
  BY DEF Cells, TypeOK
<1>4. new \subseteq Cell /\ Objects!Roots \in SUBSET Cell /\ Objects!Roots \cup rings \in SUBSET Cell
  BY <1>3, FindableCells
<1>5. /\ OneStep!FoundFrom(Objects!Roots) = Traced
      /\ OneStep!FoundFrom(Objects!Roots \cup rings) = Findable
  BY <1>3, <1>4, OneSearch DEF Traced, Findable
<1>6. Marked' = Marked \cup new
  <2>1. hdr' = [c \in Cell |-> IF c \in new THEN [hdr[c] EXCEPT !.mark = TRUE] ELSE hdr[c]]
    BY <1>2
  <2> HIDE DEF new
  <2>2. \A c \in Cell : hdr'[c].mark <=> hdr[c].mark \/ c \in new
    BY <1>3, <2>1 DEF Header
  <2>3. QED
    BY <1>4, <2>2 DEF Marked
<1>7. rings' = rings \cup UNION {C[c] : c \in new}
  <2>1. rings' = rings \cup Pushed(new)
    BY <1>2
  <2> HIDE DEF new
  <2>2. UNION {C[c] : c \in new} = Pushed(new)
    BY <1>4 DEF Pushed
  <2>3. QED
    BY <2>1, <2>2
<1>8. C' = C /\ Objects!Roots' = Objects!Roots
  BY <1>1 DEF collect, Objects!Roots
<1> HIDE DEF C
<1>9. \E x \in SUBSET (Findable \ Traced) :
        LET n == (Traced \cup x) \ Marked
        IN Marked' = Marked \cup n /\ rings' = rings \cup UNION {C[c] : c \in n}
  BY <1>6, <1>7
<1>10. QED
  BY <1>5, <1>8, <1>9 DEF OneStep!Mark, C

(* The step with which a sweep begins is the step that Marking implements, *)
(* whatever earlier collections left in the rings.                         *)
THEOREM CollectIsAtomic == Spec => [][~Sweeping /\ Sweeping' => OneStep!Mark]_vars
<1>1. Cells /\ [Next]_vars => (~Sweeping /\ Sweeping' => OneStep!Mark)
  BY CollectStep
<1>2. Spec => []Cells
  BY InitCells, NextCells, PTL DEF Spec
<1>3. QED
  BY <1>1, <1>2, PTL DEF Spec
=============================================================================
