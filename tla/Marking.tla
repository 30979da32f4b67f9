------------------------------- MODULE Marking -------------------------------
(***************************************************************************)
(* One collection's Runtime::scan and Runtime::mark (runtime/runtime.cpp): *)
(* the roots of the shadow stack go into a global queue, then NUM_WORKERS  *)
(* threads trace the heap from it.  Each worker keeps grey objects in a    *)
(* work-stealing deque (TaskDeque.tla says what one promises), steals from *)
(* the others' when its own is empty, and otherwise takes from the global  *)
(* queue under its mutex.  A counter of active workers decides when the    *)
(* marking is done.                                                        *)
(*                                                                         *)
(* The mutator is stopped: the heap and the shadow stack do not change.    *)
(***************************************************************************)
EXTENDS Integers, Sequences, FiniteSets, Functions

CONSTANTS
  Obj,          \* allocated objects
  Null,         \* the null pointer
  NUM_WORKERS,  \* marking threads
  Capacity,     \* WORKLIST_CAP
  Heaps,        \* heaps the collection may start with
  Stacks,       \* shadow stacks the collection may start with
  Stale,        \* objects whose pointers earlier collections left in ring slots
  LeftTasks,    \* contents of a deque that they may have left behind
  LeftRoots,    \* contents of the global queue that they may have left behind
  LeftMarks     \* sets of objects whose mark they may have left set

Word == [ref : BOOLEAN, val : Obj \cup {Null}]

ASSUME NullAssumption == Null \notin Obj
ASSUME WorkersAssumption == NUM_WORKERS \in Nat \ {0}
ASSUME CapacityAssumption == Capacity \in Nat \ {0}
ASSUME HeapsAssumption == Heaps \subseteq [Obj -> Seq(Word)]
ASSUME StacksAssumption == Stacks \subseteq Seq(Seq(Obj \cup {Null}))
ASSUME StaleAssumption == Stale \subseteq Obj

(* A deque left behind: fewer tasks than slots, only the oldest one null.  *)
Remainder(d, values) ==
  /\ d \in Seq(values \cup {Null})
  /\ Len(d) < Capacity
  /\ \A i \in 2 .. Len(d) : d[i] # Null

ASSUME LeftAssumption ==
  /\ \A d \in LeftTasks : Remainder(d, Stale)
  /\ LeftRoots \subseteq Seq(Stale)
  /\ LeftMarks \subseteq SUBSET Obj

Worker == 0 .. NUM_WORKERS - 1

VARIABLES
  heap,         \* an object's words; its RefMap says which are references
  shadow_stack, \* the frames' roots
  old,          \* history: the objects that were marked to begin with
  phase,        \* where the collecting thread is
  frame,        \* frames already scanned
  global,       \* global_root_queue, the back at the right
  dq,           \* local_deques
  spent,        \* what the ring slots of a deque may hold
  ghost,        \* history: the oldest item of a deque was not pushed in this
                \* collection
  marked,       \* objects whose header has mark = true
  active,       \* active_workers
  done,         \* marking_done
  pc,           \* where each worker is in mark_worker
  obj,          \* its local obj
  slot,         \* its local slot, from 1
  chk           \* the deque its termination check looks at next

queues == <<global, dq, spent, ghost>>
locals == <<obj, slot, chk>>
vars == <<heap, shadow_stack, old, phase, frame, queues, marked, active, done,
          pc, locals>>

Init ==
  /\ heap \in Heaps
  /\ shadow_stack \in Stacks
  /\ old \in LeftMarks
  /\ phase = "scan"
  /\ frame = 0
  /\ global \in LeftRoots
  /\ dq \in [Worker -> LeftTasks]
  /\ spent = [w \in Worker |-> {Null} \cup Stale]
  /\ ghost = [w \in Worker |-> dq[w] # <<>>]
  /\ marked = old
  /\ active = 0
  /\ done = TRUE
  /\ pc = [w \in Worker |-> "exit"]
  /\ obj = [w \in Worker |-> Null]
  /\ slot = [w \in Worker |-> 0]
  /\ chk = [w \in Worker |-> 0]

Go(w, l) == pc' = [pc EXCEPT ![w] = l]

-----------------------------------------------------------------------------
(* The collecting thread: scan() queues every root slot, null ones too;    *)
(* mark() resets the counter and the flag, starts the workers, joins them. *)

ScanFrame ==
  /\ phase = "scan"
  /\ frame < Len(shadow_stack)
  /\ frame' = frame + 1
  /\ global' = global \o shadow_stack[frame + 1]
  /\ UNCHANGED <<heap, shadow_stack, old, phase, dq, spent, ghost, marked,
                 active, done, pc, locals>>

Start ==
  /\ phase = "scan"
  /\ frame = Len(shadow_stack)
  /\ phase' = "mark"
  /\ active' = NUM_WORKERS
  /\ done' = FALSE
  /\ pc' = [w \in Worker |-> "loop"]
  /\ UNCHANGED <<heap, shadow_stack, old, frame, queues, marked, locals>>

Join ==
  /\ phase = "mark"
  /\ \A w \in Worker : pc[w] = "exit"
  /\ phase' = "joined"
  /\ UNCHANGED <<heap, shadow_stack, old, frame, queues, marked, active, done,
                 pc, locals>>

-----------------------------------------------------------------------------
(* Looking for an object: the own deque, then the others', then the queue. *)

LoopTest(w) ==
  /\ pc[w] = "loop"
  /\ Go(w, IF done THEN "exit" ELSE "pop")
  /\ UNCHANGED <<heap, shadow_stack, old, phase, frame, queues, marked, active,
                 done, locals>>

(* The worker has object x in hand; pop() or steal() may also return null. *)
Take(w, x, otherwise) ==
  /\ Go(w, IF x = Null THEN otherwise ELSE "mark")
  /\ obj' = [obj EXCEPT ![w] = x]
  /\ UNCHANGED <<heap, shadow_stack, old, phase, frame, spent, marked, active,
                 done, slot, chk>>

Pop(w) ==
  /\ pc[w] = "pop"
  /\ Len(dq[w]) > 1
  /\ dq' = [dq EXCEPT ![w] = SubSeq(@, 1, Len(@) - 1)]
  /\ Take(w, dq[w][Len(dq[w])], "steal")
  /\ UNCHANGED <<global, ghost>>

PopEmpty(w) ==
  /\ pc[w] = "pop"
  /\ dq[w] = <<>>
  /\ Go(w, "steal")
  /\ UNCHANGED <<heap, shadow_stack, old, phase, frame, queues, marked, active,
                 done, locals>>

PopLast(w) ==
  /\ pc[w] = "pop"
  /\ Len(dq[w]) = 1
  /\ Go(w, "popLast")
  /\ UNCHANGED <<heap, shadow_stack, old, phase, frame, queues, marked, active,
                 done, locals>>

PopLastWin(w) ==
  /\ pc[w] = "popLast"
  /\ dq[w] # <<>>
  /\ dq' = [dq EXCEPT ![w] = <<>>]
  /\ ghost' = [ghost EXCEPT ![w] = FALSE]
  /\ Take(w, dq[w][1], "steal")
  /\ UNCHANGED global

(* A thief was faster: pop() returns null and the deque claims one slot    *)
(* that was not pushed (work_stealing_queue.hpp:32-37).                    *)
PopLastLose(w) ==
  /\ pc[w] = "popLast"
  /\ dq[w] = <<>>
  /\ \E x \in spent[w] : dq' = [dq EXCEPT ![w] = <<x>>]
  /\ ghost' = [ghost EXCEPT ![w] = TRUE]
  /\ Go(w, "steal")
  /\ UNCHANGED <<heap, shadow_stack, old, phase, frame, global, spent, marked,
                 active, done, locals>>

(* The victim is drawn at random and may be the worker itself.  An attempt *)
(* that fails changes nothing.                                             *)
Steal(w, v) ==
  /\ pc[w] = "steal"
  /\ dq[v] # <<>>
  /\ dq' = [dq EXCEPT ![v] = Tail(@)]
  /\ ghost' = [ghost EXCEPT ![v] = FALSE]
  /\ Take(w, Head(dq[v]), "steal")
  /\ UNCHANGED global

StealNothingGiveUp(w) ==
  /\ pc[w] = "steal"
  /\ Go(w, "idle")
  /\ UNCHANGED <<heap, shadow_stack, old, phase, frame, queues, marked, active,
                 done, locals>>

(* NUM_WORKERS attempts came to nothing. *)
StealNothing(w) ==
  /\ pc[w] = "steal"
  /\ Go(w, "global")
  /\ UNCHANGED <<heap, shadow_stack, old, phase, frame, queues, marked, active,
                 done, locals>>

TakeGlobal(w) ==
  /\ pc[w] = "global"
  /\ global # <<>>
  /\ global' = SubSeq(global, 1, Len(global) - 1)
  /\ Take(w, global[Len(global)], "idle")
  /\ UNCHANGED <<dq, ghost>>

GlobalEmpty(w) ==
  /\ pc[w] = "global"
  /\ global = <<>>
  /\ Go(w, "idle")
  /\ UNCHANGED <<heap, shadow_stack, old, phase, frame, queues, marked, active,
                 done, locals>>

-----------------------------------------------------------------------------
(* Marking obj: whoever sets its mark bit pushes its children.             *)

Release(w) ==
  /\ obj' = [obj EXCEPT ![w] = Null]
  /\ slot' = [slot EXCEPT ![w] = 0]

Mark(w) ==
  /\ pc[w] = "mark"
  /\ marked' = marked \cup {obj[w]}
  /\ IF obj[w] \in marked
       THEN Go(w, "loop") /\ Release(w)
       ELSE Go(w, "scan") /\ slot' = [slot EXCEPT ![w] = 1] /\ UNCHANGED obj
  /\ UNCHANGED <<heap, shadow_stack, old, phase, frame, queues, active, done,
                 chk>>

IsChildAnyWord(word) == word.val # Null

IsChild(word) == word.ref /\ word.val # Null

SkipSlot(w) ==
  /\ pc[w] = "scan"
  /\ slot[w] <= Len(heap[obj[w]])
  /\ ~IsChild(heap[obj[w]][slot[w]])
  /\ slot' = [slot EXCEPT ![w] = @ + 1]
  /\ UNCHANGED <<heap, shadow_stack, old, phase, frame, queues, marked, active,
                 done, pc, obj, chk>>

Child(w) == heap[obj[w]][slot[w]].val

PushChildNoSpare(w) ==
  /\ pc[w] = "scan"
  /\ slot[w] <= Len(heap[obj[w]])
  /\ IsChild(heap[obj[w]][slot[w]])
  /\ IF Len(dq[w]) < Capacity
       THEN /\ dq' = [dq EXCEPT ![w] = Append(@, Child(w))]
            /\ spent' = [spent EXCEPT ![w] = @ \cup {Child(w)}]
            /\ slot' = [slot EXCEPT ![w] = @ + 1]
            /\ UNCHANGED pc
       ELSE Go(w, "spill") /\ UNCHANGED <<dq, spent, slot>>
  /\ UNCHANGED <<heap, shadow_stack, old, phase, frame, global, ghost, marked,
                 active, done, obj, chk>>

PushChild(w) ==
  /\ pc[w] = "scan"
  /\ slot[w] <= Len(heap[obj[w]])
  /\ IsChild(heap[obj[w]][slot[w]])
  /\ IF Len(dq[w]) < Capacity - 1
       THEN /\ dq' = [dq EXCEPT ![w] = Append(@, Child(w))]
            /\ spent' = [spent EXCEPT ![w] = @ \cup {Child(w)}]
            /\ slot' = [slot EXCEPT ![w] = @ + 1]
            /\ UNCHANGED pc
       ELSE Go(w, "spill") /\ UNCHANGED <<dq, spent, slot>>
  /\ UNCHANGED <<heap, shadow_stack, old, phase, frame, global, ghost, marked,
                 active, done, obj, chk>>

SpillDropped(w) ==
  /\ pc[w] = "spill"
  /\ slot' = [slot EXCEPT ![w] = @ + 1]
  /\ Go(w, "scan")
  /\ UNCHANGED <<heap, shadow_stack, old, phase, frame, queues, marked, active,
                 done, obj, chk>>

(* The deque is full: the child goes into the global queue, and the push   *)
(* is tried again.  Every further try queues one more copy of the child;   *)
(* the model keeps one.                                                    *)
Spill(w) ==
  /\ pc[w] = "spill"
  /\ global' = IF Child(w) \in Range(global) THEN global
                                             ELSE Append(global, Child(w))
  /\ Go(w, "scan")
  /\ UNCHANGED <<heap, shadow_stack, old, phase, frame, dq, spent, ghost,
                 marked, active, done, locals>>

Scanned(w) ==
  /\ pc[w] = "scan"
  /\ slot[w] > Len(heap[obj[w]])
  /\ Go(w, "loop")
  /\ Release(w)
  /\ UNCHANGED <<heap, shadow_stack, old, phase, frame, queues, marked, active,
                 done, chk>>

-----------------------------------------------------------------------------
(* Termination: the worker that leaves the counter at zero looks at every  *)
(* queue and ends the marking if all are empty.  The others wait for the   *)
(* flag, at most 10 microseconds, and join in again.                       *)

LeaveAlwaysChecks(w) ==
  /\ pc[w] = "idle"
  /\ active' = active - 1
  /\ Go(w, "checkGlobal")
  /\ UNCHANGED <<heap, shadow_stack, old, phase, frame, queues, marked, done,
                 locals>>

Leave(w) ==
  /\ pc[w] = "idle"
  /\ active' = active - 1
  /\ Go(w, IF active = 1 THEN "checkGlobal" ELSE "wait")
  /\ UNCHANGED <<heap, shadow_stack, old, phase, frame, queues, marked, done,
                 locals>>

CheckGlobal(w) ==
  /\ pc[w] = "checkGlobal"
  /\ IF global = <<>>
       THEN Go(w, "checkDeques") /\ chk' = [chk EXCEPT ![w] = 0]
       ELSE Go(w, "rejoin") /\ UNCHANGED chk
  /\ UNCHANGED <<heap, shadow_stack, old, phase, frame, queues, marked, active,
                 done, obj, slot>>

(* empty() compares the indices.  While the owner pops, `bottom' is one    *)
(* too low: a last item looks like none, and no item looks like one.       *)
Popping(v) == pc[v] \in {"pop", "popLast"}
LooksEmpty(v) == dq[v] = <<>> \/ (Len(dq[v]) = 1 /\ Popping(v))
LooksFilled(v) == dq[v] # <<>> \/ Popping(v)

CheckDeque(w) ==
  /\ pc[w] = "checkDeques"
  /\ chk[w] < NUM_WORKERS
  /\ \/ /\ LooksEmpty(chk[w])
        /\ chk' = [chk EXCEPT ![w] = @ + 1]
        /\ UNCHANGED pc
     \/ /\ LooksFilled(chk[w])
        /\ Go(w, "rejoin")
        /\ chk' = [chk EXCEPT ![w] = 0]
  /\ UNCHANGED <<heap, shadow_stack, old, phase, frame, queues, marked, active,
                 done, obj, slot>>

Finish(w) ==
  /\ pc[w] = "checkDeques"
  /\ chk[w] = NUM_WORKERS
  /\ done' = TRUE
  /\ Go(w, "exit")
  /\ chk' = [chk EXCEPT ![w] = 0]
  /\ UNCHANGED <<heap, shadow_stack, old, phase, frame, queues, marked, active,
                 obj, slot>>

WaitOverUncounted(w) ==
  /\ pc[w] = "wait"
  /\ Go(w, IF done THEN "exit" ELSE "loop")
  /\ UNCHANGED <<heap, shadow_stack, old, phase, frame, queues, marked, active,
                 done, locals>>

WaitOver(w) ==
  /\ pc[w] = "wait"
  /\ Go(w, IF done THEN "exit" ELSE "rejoin")
  /\ UNCHANGED <<heap, shadow_stack, old, phase, frame, queues, marked, active,
                 done, locals>>

Rejoin(w) ==
  /\ pc[w] = "rejoin"
  /\ active' = active + 1
  /\ Go(w, "loop")
  /\ UNCHANGED <<heap, shadow_stack, old, phase, frame, queues, marked, done,
                 locals>>

-----------------------------------------------------------------------------
Search(w) ==
  \/ LoopTest(w)
  \/ Pop(w) \/ PopEmpty(w) \/ PopLast(w) \/ PopLastWin(w) \/ PopLastLose(w)
  \/ \E v \in Worker : Steal(w, v)
  \/ StealNothing(w)
  \/ TakeGlobal(w) \/ GlobalEmpty(w)

Trace(w) == Mark(w) \/ SkipSlot(w) \/ PushChild(w) \/ Spill(w) \/ Scanned(w)

Terminate(w) ==
  \/ Leave(w) \/ CheckGlobal(w) \/ CheckDeque(w) \/ Finish(w)
  \/ WaitOver(w) \/ Rejoin(w)

mark_worker(w) == Search(w) \/ Trace(w) \/ Terminate(w)

Collector == ScanFrame \/ Start \/ Join

Next == Collector \/ \E w \in Worker : mark_worker(w)

Spec == Init /\ [][Next]_vars

(* Every thread that can run is eventually scheduled. *)
FairSpec ==
  Spec /\ WF_vars(Collector) /\ \A w \in Worker : WF_vars(mark_worker(w))
-----------------------------------------------------------------------------
(* The objects a collection finds from some it begins with: the least set  *)
(* that holds these and, with an object, its children, unless the object   *)
(* was marked before.  Traced are those it has to find; with no mark left  *)
(* over they are what the program can reach.                               *)
RootsOf(n) ==
  (UNION {Range(shadow_stack[i]) : i \in 1 .. n}) \ {Null}

Roots == RootsOf(Len(shadow_stack))

Children(o) ==
  {heap[o][i].val : i \in {j \in DOMAIN heap[o] : heap[o][j].ref}} \ {Null}

Closed(from) ==
  LET next == [o \in Obj \ old |-> Children(o)]
      larger == {from \cup more : more \in SUBSET (Obj \ from)}
  IN {S \in larger : \A o \in S \ old : next[o] \subseteq S}

FoundFrom(from) ==
  LET closed == Closed(from)
  IN {o \in Obj : \A S \in closed : o \in S}

Traced == FoundFrom(Roots)
Findable == FoundFrom(Roots \cup Stale)

(* The objects whose pointers it leaves in ring slots: those it was left   *)
(* itself and those it has pushed.                                         *)
Carried == Stale \cup UNION {Children(o) : o \in marked \ old}

Label == {"loop", "pop", "popLast", "steal", "global", "mark", "scan", "spill",
          "idle", "checkGlobal", "checkDeques", "wait", "rejoin", "exit"}

(* Every variable has its type. *)
TypeOK ==
  /\ heap \in [Obj -> Seq(Word)]
  /\ shadow_stack \in Seq(Seq(Obj \cup {Null}))
  /\ phase \in {"scan", "mark", "joined"}
  /\ frame \in 0 .. Len(shadow_stack)
  /\ global \in Seq(Obj \cup {Null})
  /\ dq \in [Worker -> Seq(Obj \cup {Null})]
  /\ spent \in [Worker -> SUBSET (Obj \cup {Null})]
  /\ ghost \in [Worker -> BOOLEAN]
  /\ old \subseteq marked /\ marked \subseteq Obj
  /\ active \in 0 .. NUM_WORKERS
  /\ done \in BOOLEAN
  /\ pc \in [Worker -> Label]
  /\ obj \in [Worker -> Obj \cup {Null}]
  /\ slot \in [Worker -> Nat]
  /\ chk \in [Worker -> 0 .. NUM_WORKERS]

(* When mark() returns, every object that it has to find has its mark bit, *)
(* so sweep() will spare it.                                               *)
NothingMissed == phase = "joined" => Traced \subseteq marked

(* The same from the moment a worker sets marking_done: the counter does   *)
(* not say "nobody works" while a grey object is in some deque, in the     *)
(* global queue or in the hands of a worker.                               *)
DoneMeansMarked == phase # "scan" /\ done => Traced \subseteq marked

(* Nothing else gets its mark bit: the rest is garbage that sweep()        *)
(* must be able to free.                                                   *)
OnlyTracedMarked == marked \subseteq old \cup Traced

(* With pointers of earlier collections in the rings, garbage may be       *)
(* marked, but no more of it than hangs from these pointers.               *)
GarbageBounded == marked \subseteq old \cup Findable

(* After the join nothing is left over for the next collection but the     *)
(* slots that lost races made the deques claim.                            *)
QueuesDryAfterJoin ==
  phase = "joined" =>
    /\ global = <<>>
    /\ \A w \in Worker : Len(dq[w]) <= (IF ghost[w] THEN 1 ELSE 0)

(* At every moment, the join included, the queues hold what a collection   *)
(* may find in them, so the initial states cover every collection after    *)
(* the first.  A deque only holds what its ring does, fewer tasks than     *)
(* slots, and null only where it was made up; and after the join neither   *)
(* the rings nor the global queue hold a pointer that was neither there    *)
(* when the collection began nor pushed by it.                             *)
QueuesAreRemainders ==
  /\ Null \notin Range(global)
  /\ \A w \in Worker : Remainder(dq[w], spent[w])
  /\ phase = "joined" =>
       Range(global) \cup UNION {spent[w] : w \in Worker} \subseteq Carried \cup {Null}

(* Each worker's use of its deque, and everybody's stealing from it, is    *)
(* what WorkStealingDeque.tla shows the ring buffer to provide.            *)
Deque(w) == INSTANCE TaskDeque WITH
  Task     <- Obj,
  Leftover <- {Null} \cup Stale,
  LeftItems <- LeftTasks,
  items    <- dq[w],
  popping  <- pc[w] = "popLast",
  spent    <- spent[w]

DequesAreTaskDeques ==
  /\ \A w \in Worker : Deque(w)!Init
  /\ [][\A w \in Worker : [Deque(w)!Next]_(Deque(w)!dequeVars)]_vars

(* Seen from collect(), all of scan() and mark() is the one step that      *)
(* AtomicMarking describes: however the workers share the tracing, the     *)
(* marks end up where a search by a single thread would put them, or on    *)
(* what hangs from a pointer left in a ring, and when mark() has returned  *)
(* nobody touches a header any more.                                       *)
Atomic == INSTANCE AtomicMarking WITH
  Object   <- Obj,
  children <- [o \in Obj |-> Children(o)],
  roots    <- Roots,
  rings    <- IF phase = "joined" THEN Carried ELSE Stale,
  marks    <- IF phase = "joined" THEN marked ELSE old,
  returned <- phase = "joined"

ImplementsAtomicMarking == Atomic!Spec

(* The marking makes progress: what is to be found is marked some day,     *)
(* whoever wins the races and whenever the waits time out.                 *)
EventuallyMarked == <>(Traced \subseteq marked)
-----------------------------------------------------------------------------
(* Why DoneMeansMarked holds, as an inductive invariant.                   *)

(* The workers that active_workers counts, and those it does not.          *)
Counted ==
  {w \in Worker : pc[w] \in {"loop", "pop", "popLast", "steal", "global",
                            "mark", "scan", "spill", "idle"}}
Uncounted ==
  {w \in Worker : pc[w] \in {"checkGlobal", "checkDeques", "wait", "rejoin"}}

(* A worker may leave with done set and never be subtracted. *)
ActiveInv ==
  /\ Cardinality(Counted) <= active
  /\ active + Cardinality(Uncounted) <= NUM_WORKERS
  /\ ~done => active = Cardinality(Counted)

PhaseInv ==
  /\ phase = "scan" => \A w \in Worker : pc[w] = "exit"
  /\ phase # "scan" => frame = Len(shadow_stack)
  /\ phase = "mark" /\ ~done => \A w \in Worker : pc[w] # "exit"
  /\ phase = "joined" => done

HandOK(w) ==
  /\ pc[w] \in {"mark", "scan", "spill"} => obj[w] \in Obj
  /\ pc[w] \in {"scan", "spill"} => slot[w] > 0 /\ obj[w] \in marked \ old
  /\ pc[w] = "spill" => /\ slot[w] <= Len(heap[obj[w]])
                       /\ IsChild(heap[obj[w]][slot[w]])

HandInv == \A w \in Worker : HandOK(w)

(* Only the oldest item of a deque can be one that was not pushed. *)
DequeOK(w) ==
  /\ ghost[w] => dq[w] # <<>>
  /\ pc[w] = "popLast" => Len(dq[w]) <= 1
  /\ \A i \in 1 .. Len(dq[w]) : i > 1 \/ ~ghost[w] => dq[w][i] # Null

DequeInv == \A w \in Worker : DequeOK(w)

Pushed(w) == {dq[w][i] : i \in (IF ghost[w] THEN 2 ELSE 1) .. Len(dq[w])}

Ahead(w) == {heap[obj[w]][i].val : i \in
              {j \in slot[w] .. Len(heap[obj[w]]) : IsChild(heap[obj[w]][j])}}

InHand(w) ==
  CASE pc[w] = "mark" -> {obj[w]}
    [] pc[w] \in {"scan", "spill"} -> Ahead(w)
    [] OTHER -> {}

(* What was queued from the stack or hangs from a marked object is marked  *)
(* or somebody still has it.                                               *)
Found == RootsOf(frame) \cup UNION {Children(o) : o \in marked \ old}
Pending == Range(global) \cup UNION {Pushed(w) \cup InHand(w) : w \in Worker}
GreyInv == Found \subseteq marked \cup Pending

(* A worker that looks elsewhere has nothing of its own left. *)
IdleInv ==
  \A w \in Worker :
    \/ pc[w] \in {"steal", "global", "idle"} \/ w \in Uncounted
    => Pushed(w) = {}

NoNullRoots(stack) == \A i \in DOMAIN stack : Null \notin Range(stack[i])

(* The global queue is never left to workers that have given up. *)
GlobalInv ==
  /\ NoNullRoots(shadow_stack)
  /\ Null \notin Range(global)
  /\ global # <<>> /\ phase = "mark" /\ ~done =>
       \E w \in Counted : pc[w] # "idle"

VerdictInv ==
  \/ phase # "scan" /\ done
  \/ \E w \in Worker : pc[w] \in {"checkGlobal", "checkDeques"}
  => Traced \subseteq marked

(* The inductive invariant: the counter is exact while it matters, and a   *)
(* grey object is always in a queue that some counted worker will look at. *)
MarkingInv ==
  /\ TypeOK /\ ActiveInv /\ PhaseInv /\ HandInv /\ DequeInv
  /\ GreyInv /\ IdleInv /\ GlobalInv /\ VerdictInv

(* Why GarbageBounded holds, and OnlyTracedMarked when the rings are empty *)
(* to begin with.                                                          *)
ReachInv ==
  /\ marked \subseteq old \cup Findable
  /\ Range(global) \subseteq Findable \cup {Null}
  /\ \A w \in Worker :
       Range(dq[w]) \cup spent[w] \cup {obj[w]} \subseteq Findable \cup {Null}
=============================================================================
