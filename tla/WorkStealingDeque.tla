-------------------------- MODULE WorkStealingDeque --------------------------
(***************************************************************************)
(* runtime/work_stealing_queue.hpp: the ring buffer a mark worker keeps    *)
(* its grey objects in.  One owner pushes and pops at `bottom', any number *)
(* of thieves steal at `top'.  Every load, store and compare-exchange of   *)
(* the code is a step of its own.                                          *)
(*                                                                         *)
(* The memory is that of x86: what the owner stores waits in its store     *)
(* buffer, where only the owner sees it, and reaches the memory in order,  *)
(* some time later; a fence and a compare-exchange wait until nothing is   *)
(* left there.  Thieves store nothing but by compare-exchange.             *)
(*                                                                         *)
(* The pointers pushed are told apart by the order they are pushed in: the *)
(* k-th push pushes k.                                                     *)
(***************************************************************************)
EXTENDS Integers, Sequences, FiniteSets, FiniteSetsExt

CONSTANTS
  Thief,      \* threads that call steal()
  Capacity,   \* CAPACITY, a power of two
  Null,       \* the null pointer
  MaxIndex    \* bound of the model: no push and no pop starts beyond it

ASSUME CapacityAssumption ==
  /\ Capacity \in Nat \ {0}
  /\ \E n \in 0 .. Capacity : Capacity = 2^n
ASSUME BoundAssumption == MaxIndex \in Nat /\ Null \notin 1 .. MaxIndex

Task == 1 .. MaxIndex

VARIABLES
  top, bottom,    \* the two indices; neither is ever reduced modulo Capacity
  buffer,         \* the ring
  stores,         \* the owner's stores that are not in memory yet, oldest first
  own,            \* the owner's program counter and locals b, t, item
  thief,          \* each thief's program counter and locals t, item
  pushed,         \* history: how many tasks were pushed
  handed,         \* history: how often each task was returned to a caller
  phantoms        \* history: lost races for the last task

vars == <<top, bottom, buffer, stores, own, thief, pushed, handed, phantoms>>

Slot(i) == i % Capacity

Idle == [pc |-> "idle", b |-> 0, t |-> 0, item |-> Null]

Init ==
  /\ top = 0
  /\ bottom = 0
  /\ buffer = [i \in 0 .. Capacity - 1 |-> Null]
  /\ stores = <<>>
  /\ own = Idle
  /\ thief = [w \in Thief |-> Idle]
  /\ pushed = 0
  /\ handed = [x \in Task |-> 0]
  /\ phantoms = 0

(* A call returns the pointer x to its caller, who does not see Null. *)
HandOut(x) ==
  handed' = IF x = Null THEN handed ELSE [handed EXCEPT ![x] = @ + 1]

-----------------------------------------------------------------------------
(* The owner's memory.  A store to a slot names the slot in `at', one to   *)
(* `bottom' the task that it publishes, if any.                            *)

ToSlot(i, x) == [to |-> "slot", at |-> i, v |-> x]
ToBottom(i, publishes) == [to |-> "bottom", at |-> publishes, v |-> i]

Store(s) == stores' = Append(stores, s)

Drain ==
  /\ stores # <<>>
  /\ stores' = Tail(stores)
  /\ LET s == Head(stores)
     IN \/ /\ s.to = "slot"
           /\ buffer' = [buffer EXCEPT ![s.at] = s.v]
           /\ UNCHANGED bottom
        \/ /\ s.to = "bottom"
           /\ bottom' = s.v
           /\ UNCHANGED buffer
  /\ UNCHANGED <<top, own, thief, pushed, handed, phantoms>>

(* What a load of the owner returns: its latest store, or the memory.      *)
Latest(Test(_), memory) ==
  LET own_stores == {k \in DOMAIN stores : Test(stores[k])}
  IN IF own_stores = {} THEN memory ELSE stores[Max(own_stores)].v

Bottom == Latest(LAMBDA s : s.to = "bottom", bottom)
Ring(i) == Latest(LAMBDA s : s.to = "slot" /\ s.at = Slot(i), buffer[Slot(i)])

FenceMissing == TRUE

Fence == stores = <<>>

-----------------------------------------------------------------------------
(* push: the owner reads both indices and gives up when the ring is full;  *)
(* else it fills the slot and then publishes it.                           *)

PushCheckNoLimit ==
  /\ own.pc = "idle"
  /\ Bottom < MaxIndex /\ pushed < MaxIndex
  /\ own' = [own EXCEPT !.pc = "pushStore", !.b = Bottom]
  /\ UNCHANGED <<top, bottom, buffer, stores, thief, pushed, handed, phantoms>>

PushCheck ==
  /\ own.pc = "idle"
  /\ Bottom < MaxIndex /\ pushed < MaxIndex
  /\ Bottom - top < Capacity - 1
  /\ own' = [own EXCEPT !.pc = "pushStore", !.b = Bottom]
  /\ UNCHANGED <<top, bottom, buffer, stores, thief, pushed, handed, phantoms>>

PushStore ==
  /\ own.pc = "pushStore"
  /\ Store(ToSlot(Slot(own.b), pushed + 1))
  /\ own' = [own EXCEPT !.pc = "pushPublish"]
  /\ UNCHANGED <<top, bottom, buffer, thief, pushed, handed, phantoms>>

PushPublish ==
  /\ own.pc = "pushPublish"
  /\ Store(ToBottom(own.b + 1, pushed + 1))
  /\ pushed' = pushed + 1
  /\ own' = Idle
  /\ UNCHANGED <<top, bottom, buffer, thief, handed, phantoms>>

-----------------------------------------------------------------------------
(* pop: the owner retracts `bottom' before it looks at `top'.  It may take *)
(* the last task only by winning the compare-exchange against the thieves. *)

PopRetract ==
  /\ own.pc = "idle"
  /\ Bottom <= MaxIndex
  /\ Store(ToBottom(Bottom - 1, 0))
  /\ own' = [own EXCEPT !.pc = "popRead", !.b = Bottom - 1]
  /\ UNCHANGED <<top, bottom, buffer, thief, pushed, handed, phantoms>>

PopRead ==
  /\ own.pc = "popRead"
  /\ Fence
  /\ \/ /\ top < own.b
        /\ HandOut(Ring(own.b))
        /\ own' = Idle
     \/ /\ top = own.b
        /\ own' = [own EXCEPT !.pc = "popCas", !.t = top, !.item = Ring(own.b)]
        /\ UNCHANGED handed
     \/ /\ top > own.b
        /\ own' = [own EXCEPT !.pc = "popReset", !.t = top]
        /\ UNCHANGED handed
  /\ UNCHANGED <<top, bottom, buffer, stores, thief, pushed, phantoms>>

(* A failed compare_exchange_strong stores the value it found in t. *)
PopCas ==
  /\ own.pc = "popCas"
  /\ stores = <<>>
  /\ \/ /\ top = own.t
        /\ top' = top + 1
        /\ HandOut(own.item)
        /\ own' = [own EXCEPT !.pc = "popStore"]
     \/ /\ top # own.t
        /\ own' = [own EXCEPT !.pc = "popStore", !.t = top, !.item = Null]
        /\ UNCHANGED <<top, handed>>
  /\ UNCHANGED <<bottom, buffer, stores, thief, pushed, phantoms>>

LostRace == own.pc = "popStore" /\ own.t # own.b

PopStore ==
  /\ own.pc = "popStore"
  /\ Store(ToBottom(own.t + 1, 0))
  /\ phantoms' = IF LostRace THEN phantoms + 1 ELSE phantoms
  /\ own' = Idle
  /\ UNCHANGED <<top, bottom, buffer, thief, pushed, handed>>

PopResetForgotten ==
  /\ own.pc = "popReset"
  /\ own' = Idle
  /\ UNCHANGED <<top, bottom, buffer, stores, thief, pushed, handed, phantoms>>

PopReset ==
  /\ own.pc = "popReset"
  /\ Store(ToBottom(own.t, 0))
  /\ own' = Idle
  /\ UNCHANGED <<top, bottom, buffer, thief, pushed, handed, phantoms>>

-----------------------------------------------------------------------------
(* steal: the thief reads `top', then `bottom', then the slot, and owns    *)
(* the task only if `top' has not moved meanwhile.                         *)

StealTop(w) ==
  /\ thief[w].pc = "idle"
  /\ thief' = [thief EXCEPT ![w].pc = "bottom", ![w].t = top]
  /\ UNCHANGED <<top, bottom, buffer, stores, own, pushed, handed, phantoms>>

StealBottom(w) ==
  /\ thief[w].pc = "bottom"
  /\ thief' = IF thief[w].t < bottom
              THEN [thief EXCEPT ![w].pc = "read"]
              ELSE [thief EXCEPT ![w] = Idle]
  /\ UNCHANGED <<top, bottom, buffer, stores, own, pushed, handed, phantoms>>

StealRead(w) ==
  /\ thief[w].pc = "read"
  /\ thief' = [thief EXCEPT ![w].pc = "cas",
                            ![w].item = buffer[Slot(thief[w].t)]]
  /\ UNCHANGED <<top, bottom, buffer, stores, own, pushed, handed, phantoms>>

StealCas(w) ==
  /\ thief[w].pc = "cas"
  /\ \/ /\ top = thief[w].t
        /\ top' = top + 1
        /\ HandOut(thief[w].item)
     \/ /\ top # thief[w].t
        /\ UNCHANGED <<top, handed>>
  /\ thief' = [thief EXCEPT ![w] = Idle]
  /\ UNCHANGED <<bottom, buffer, stores, own, pushed, phantoms>>

-----------------------------------------------------------------------------
Owner ==
  \/ PushCheck \/ PushStore \/ PushPublish
  \/ PopRetract \/ PopRead \/ PopCas \/ PopStore \/ PopReset

Steal(w) == StealTop(w) \/ StealBottom(w) \/ StealRead(w) \/ StealCas(w)

Next == Owner \/ Drain \/ \E w \in Thief : Steal(w)

Spec == Init /\ [][Next]_vars
-----------------------------------------------------------------------------
(* The tasks from `top' up to an index, oldest first, in a given ring.     *)
TasksTo(end, InRing(_)) ==
  [i \in 1 .. (IF end > top THEN end - top ELSE 0) |-> InRing(top + i - 1)]

(* The tasks that are in the deque for everybody.  While the owner has     *)
(* retracted `bottom' but not yet looked at `top', and while it competes   *)
(* for the last task, the slot it retracted from still counts.             *)
Window ==
  TasksTo(IF own.pc = "popCas" \/ (own.pc = "popRead" /\ Fence)
          THEN bottom + 1 ELSE bottom,
          LAMBDA i : buffer[Slot(i)])

(* The same for the owner, who is ahead of the memory.                     *)
OwnWindow ==
  TasksTo(IF own.pc \in {"popRead", "popCas"} THEN Bottom + 1 ELSE Bottom, Ring)

(* Every variable has its type.  `bottom' may be -1: pop() on a deque that *)
(* was never used retracts it below zero before it compares (the comment   *)
(* of work_stealing_queue.hpp:8).                                          *)
TypeOK ==
  /\ top \in 0 .. MaxIndex + 1
  /\ bottom \in -1 .. MaxIndex + 2
  /\ buffer \in [0 .. Capacity - 1 -> Task \cup {Null}]
  /\ stores \in Seq([to : {"slot"}, at : 0 .. Capacity - 1, v : Task]
                    \cup [to : {"bottom"}, at : 0 .. MaxIndex, v : -1 .. MaxIndex + 2])
  /\ own \in [pc : {"idle", "pushStore", "pushPublish", "popRead", "popCas",
                    "popStore", "popReset"},
              b : -1 .. MaxIndex + 1, t : 0 .. MaxIndex + 1,
              item : Task \cup {Null}]
  /\ thief \in [Thief -> [pc : {"idle", "bottom", "read", "cas"}, b : {0},
                          t : 0 .. MaxIndex + 1, item : Task \cup {Null}]]
  /\ pushed \in 0 .. MaxIndex
  /\ handed \in [Task -> Nat]
  /\ phantoms \in Nat

(* No task is lost: whatever push() accepted is still in the deque until   *)
(* some pop() or steal() has returned it, however the owner's unlocked     *)
(* stores are delayed and the thieves' compare-exchanges interleave.       *)
NoTaskLost ==
  \A x \in 1 .. pushed :
    \/ handed[x] > 0
    \/ \E i \in DOMAIN OwnWindow : OwnWindow[i] = x

(* One element for every time a task was returned but its first.           *)
Repeats == UNION {{x} \X (2 .. handed[x]) : x \in Task}

(* A task is returned a second time only because the owner lost the race   *)
(* for a last task: line 37 then stores top + 1 into `bottom', which makes *)
(* the deque claim one slot nobody pushed.  Otherwise every task is handed *)
(* out at most once.                                                       *)
RepeatsAreLostRaces == Cardinality(Repeats) <= phantoms

(* The unlocked ring is a sequence whose operations are atomic: each step  *)
(* of the code is a step of TaskDeque or leaves that sequence alone.  A    *)
(* push takes effect when its store to `bottom' reaches the memory, a      *)
(* steal when its compare-exchange succeeds, a pop when it has seen `top'  *)
(* or, for the last task, won the compare-exchange; if it lost, when the   *)
(* store of line 37 reaches the memory.                                    *)
LostStore == stores # <<>> /\ Head(stores).to = "bottom" /\ Head(stores).v = bottom + 2
Unpublished == {k \in DOMAIN stores : stores[k].to = "bottom" /\ stores[k].at > 0}

Abstract == INSTANCE TaskDeque WITH
  items    <- Window,
  popping  <- own.pc = "popCas" \/ LostRace \/ LostStore,
  spent    <- {Null} \cup 1 .. (pushed - Cardinality(Unpublished)),
  Leftover <- {Null},
  LeftItems <- {<<>>}

ImplementsTaskDeque == Abstract!Spec
=============================================================================
