---------------------------- MODULE MarkingProofs ----------------------------
(***************************************************************************)
(* Proofs about Marking.tla, for any number of workers and objects, any    *)
(* heap and any capacity of the deques.                                    *)
(***************************************************************************)
EXTENDS Marking, FiniteSetTheorems, SequenceTheorems, TLAPS

-----------------------------------------------------------------------------
(* The counter of active workers.                                          *)

(* There are NUM_WORKERS workers. *)
LEMMA WorkerFinite ==
  /\ IsFiniteSet(Worker)
  /\ Cardinality(Worker) = NUM_WORKERS
BY WorkersAssumption, FS_Interval DEF Worker

(* The sets active_workers is compared with are finite. *)
LEMMA CountedFinite ==
  /\ IsFiniteSet(Counted) /\ Cardinality(Counted) \in Nat
  /\ IsFiniteSet(Uncounted) /\ Cardinality(Uncounted) \in Nat
<1>1. Counted \in SUBSET Worker /\ Uncounted \in SUBSET Worker
  BY DEF Counted, Uncounted
<1>2. QED
  BY <1>1, WorkerFinite, FS_Subset, FS_CardinalityType

(* The counter after a step, and its bounds. *)
ActiveOK == ActiveInv /\ active \in 0 .. NUM_WORKERS

(* fetch_sub and fetch_add keep active_workers equal to the number of      *)
(* workers that still search or trace, until the flag is set.              *)
LEMMA ActiveStep ==
  ASSUME TypeOK, ActiveInv, PhaseInv, Next
  PROVE  ActiveOK'
<1> USE DEF ActiveOK, ActiveInv
<1>0. /\ Cardinality(Counted) \in Nat /\ Cardinality(Uncounted) \in Nat
      /\ active \in 0 .. NUM_WORKERS /\ NUM_WORKERS \in Nat /\ done \in BOOLEAN
  BY CountedFinite, WorkersAssumption DEF TypeOK
<1>k. ASSUME Counted' = Counted, Uncounted' = Uncounted, active' = active,
             done => done'
      PROVE  ActiveOK'
  BY <1>k, <1>0
(* A worker leaves one side, or changes sides. *)
<1>m. ASSUME NEW S, IsFiniteSet(S), NEW w \in S
      PROVE  /\ Cardinality(S \ {w}) \in Nat
             /\ Cardinality(S \ {w}) = Cardinality(S) - 1
  BY <1>m, FS_RemoveElement, FS_CardinalityType
<1>o. ASSUME NEW w \in Counted, Counted' = Counted \ {w},
             Uncounted' = Uncounted, active' = active, done'
      PROVE  ActiveOK'
  <2>1. Cardinality(Counted') = Cardinality(Counted) - 1
    BY <1>o, <1>m, CountedFinite
  <2>2. QED
    BY <1>o, <1>0, <2>1
<1>u. ASSUME NEW w \in Uncounted, Counted' = Counted,
             Uncounted' = Uncounted \ {w}, active' = active, done => done'
      PROVE  ActiveOK'
  <2>1. Cardinality(Uncounted') = Cardinality(Uncounted) - 1
    BY <1>u, <1>m, CountedFinite
  <2>2. QED
    BY <1>u, <1>0, <2>1
<1>l. ASSUME NEW w \in Counted, w \notin Uncounted, Counted' = Counted \ {w},
             Uncounted' = Uncounted \cup {w}, active' = active - 1, done' = done
      PROVE  ActiveOK'
  <2>1. /\ Cardinality(Counted') \in Nat
        /\ Cardinality(Counted') = Cardinality(Counted) - 1
    BY <1>l, <1>m, CountedFinite
  <2>2. Cardinality(Uncounted') = Cardinality(Uncounted) + 1
    BY <1>l, CountedFinite, FS_AddElement
  <2>3. QED
    BY <1>l, <1>0, <2>1, <2>2
<1>r. ASSUME NEW w \in Uncounted, w \notin Counted, Uncounted' = Uncounted \ {w},
             Counted' = Counted \cup {w}, active' = active + 1, done' = done
      PROVE  ActiveOK'
  <2>1. /\ Cardinality(Uncounted') \in Nat
        /\ Cardinality(Uncounted') = Cardinality(Uncounted) - 1
    BY <1>r, <1>m, CountedFinite
  <2>2. Cardinality(Counted') = Cardinality(Counted) + 1
    BY <1>r, CountedFinite, FS_AddElement
  <2>3. QED
    BY <1>r, <1>0, <2>1, <2>2
<1>2. CASE Start
  <2>1. Counted' = Worker /\ Uncounted' = {}
    BY <1>2 DEF Start, Counted, Uncounted
  <2>2. Cardinality(Counted') = NUM_WORKERS /\ Cardinality(Uncounted') = 0
    BY <2>1, WorkerFinite, FS_EmptySet
  <2>3. active' = NUM_WORKERS
    BY <1>2 DEF Start
  <2>4. QED
    BY <2>2, <2>3, <1>0
<1> USE DEF TypeOK, Label, Counted, Uncounted, Go
<1>1. CASE ScanFrame \/ Join
  BY <1>1, <1>k DEF ScanFrame, Join
<1>3. ASSUME NEW w \in Worker, Search(w) PROVE ActiveOK'
  <2>1. CASE LoopTest(w)
    <3>1. CASE done
      BY <2>1, <3>1, <1>o DEF LoopTest
    <3>2. CASE ~done
      BY <2>1, <3>2, <1>k DEF LoopTest
    <3>3. QED BY <3>1, <3>2
  <2>2. CASE Pop(w) \/ PopEmpty(w) \/ PopLast(w) \/ PopLastWin(w) \/ PopLastLose(w)
    BY <2>2, <1>k DEF Pop, PopEmpty, PopLast, PopLastWin, PopLastLose, Take
  <2>3. CASE StealNothing(w) \/ TakeGlobal(w) \/ GlobalEmpty(w)
    BY <2>3, <1>k DEF StealNothing, TakeGlobal, GlobalEmpty, Take
  <2>4. ASSUME NEW v \in Worker, Steal(w, v) PROVE ActiveOK'
    BY <2>4, <1>k DEF Steal, Take
  <2>5. QED
    BY <1>3, <2>1, <2>2, <2>3, <2>4 DEF Search
<1>4. ASSUME NEW w \in Worker, Trace(w) PROVE ActiveOK'
  BY <1>4, <1>k DEF Trace, Mark, SkipSlot, PushChild, Spill, Scanned, Release
<1>5. ASSUME NEW w \in Worker, Terminate(w) PROVE ActiveOK'
  <2>1. CASE Leave(w)
    BY <2>1, <1>l DEF Leave
  <2>2. CASE CheckGlobal(w) \/ CheckDeque(w)
    BY <2>2, <1>k DEF CheckGlobal, CheckDeque
  <2>3. CASE Finish(w)
    BY <2>3, <1>u DEF Finish
  <2>4. CASE WaitOver(w)
    <3>1. CASE done
      BY <2>4, <3>1, <1>u DEF WaitOver
    <3>2. CASE ~done
      BY <2>4, <3>2, <1>k DEF WaitOver
    <3>3. QED BY <3>1, <3>2
  <2>5. CASE Rejoin(w)
    BY <2>5, <1>r DEF Rejoin
  <2>6. QED
    BY <1>5, <2>1, <2>2, <2>3, <2>4, <2>5 DEF Terminate
<1>6. QED
  BY <1>1, <1>2, <1>3, <1>4, <1>5 DEF Next, Collector, mark_worker

-----------------------------------------------------------------------------
(* Types.                                                                  *)

(* A reference slot of an allocated object holds an allocated object. *)
LEMMA ChildInObj ==
  ASSUME heap \in [Obj -> Seq(Word)], NEW o \in Obj, NEW i \in Nat, i > 0,
         i <= Len(heap[o]), IsChild(heap[o][i])
  PROVE  heap[o][i].val \in Obj
<1>1. heap[o][i] \in Word
  OBVIOUS
<1>2. QED
  BY <1>1 DEF IsChild, Word

(* Every step keeps every variable in its type; the counter and the        *)
(* hands of the workers are what make it so.                               *)
LEMMA TypeStep ==
  ASSUME TypeOK, ActiveOK', HandInv, Next
  PROVE  TypeOK'
<1> USE DEF TypeOK
<1>0. active' \in 0 .. NUM_WORKERS
  BY DEF ActiveOK
<1>p. ASSUME NEW w \in Worker, NEW l \in Label, Go(w, l)
      PROVE  pc' \in [Worker -> Label]
  BY <1>p DEF Go
<1>q. /\ "loop" \in Label /\ "pop" \in Label /\ "popLast" \in Label
      /\ "steal" \in Label /\ "global" \in Label /\ "mark" \in Label
      /\ "scan" \in Label /\ "spill" \in Label /\ "idle" \in Label
      /\ "checkGlobal" \in Label /\ "checkDeques" \in Label
      /\ "wait" \in Label /\ "rejoin" \in Label /\ "exit" \in Label
  BY DEF Label
<1>1. CASE ScanFrame
  <2>1. shadow_stack[frame + 1] \in Seq(Obj \cup {Null})
    BY <1>1 DEF ScanFrame
  <2>2. global' \in Seq(Obj \cup {Null})
    BY <1>1, <2>1 DEF ScanFrame
  <2>3. frame' \in 0 .. Len(shadow_stack)
    BY <1>1 DEF ScanFrame
  <2>4. QED
    BY <1>1, <2>2, <2>3 DEF ScanFrame, locals
<1>2. CASE Start
  BY <1>2, <1>0, <1>q DEF Start, queues, locals
<1>3. CASE Join
  BY <1>3 DEF Join, queues, locals
<1>4. ASSUME NEW w \in Worker, Search(w) PROVE TypeOK'
  <2>t. ASSUME NEW x \in Obj \cup {Null}, NEW l \in Label,
               Take(w, x, l), dq' \in [Worker -> Seq(Obj \cup {Null})],
               global' \in Seq(Obj \cup {Null}), ghost' \in [Worker -> BOOLEAN]
        PROVE  TypeOK'
    BY <2>t, <1>p, <1>q DEF Take
  <2>1. CASE LoopTest(w) \/ PopEmpty(w) \/ PopLast(w) \/ StealNothing(w) \/ GlobalEmpty(w)
    BY <2>1, <1>p, <1>q DEF LoopTest, PopEmpty, PopLast, StealNothing, GlobalEmpty, queues, locals
  <2>2. CASE Pop(w)
    <3>1. dq[w] \in Seq(Obj \cup {Null}) /\ Len(dq[w]) > 1
      BY <2>2 DEF Pop
    <3>2. /\ dq[w][Len(dq[w])] \in Obj \cup {Null}
          /\ SubSeq(dq[w], 1, Len(dq[w]) - 1) \in Seq(Obj \cup {Null})
      BY <3>1
    <3>3. QED
      BY <2>2, <2>t, <3>2, <1>q DEF Pop
  <2>3. CASE PopLastWin(w)
    <3>1. dq[w][1] \in Obj \cup {Null}
      BY <2>3 DEF PopLastWin
    <3>2. /\ dq' \in [Worker -> Seq(Obj \cup {Null})]
          /\ ghost' \in [Worker -> BOOLEAN]
          /\ global' \in Seq(Obj \cup {Null})
      BY <2>3 DEF PopLastWin
    <3>3. Take(w, dq[w][1], "steal")
      BY <2>3 DEF PopLastWin
    <3>4. QED
      BY <2>t, <3>1, <3>2, <3>3, <1>q
  <2>4. CASE PopLastLose(w)
    <3>1. PICK x \in spent[w] : dq' = [dq EXCEPT ![w] = <<x>>]
      BY <2>4 DEF PopLastLose
    <3>2. <<x>> \in Seq(Obj \cup {Null})
      OBVIOUS
    <3>3. QED
      BY <2>4, <3>1, <3>2, <1>p, <1>q DEF PopLastLose, locals
  <2>5. ASSUME NEW v \in Worker, Steal(w, v) PROVE TypeOK'
    <3>1. dq[v] \in Seq(Obj \cup {Null}) /\ dq[v] # <<>>
      BY <2>5 DEF Steal
    <3>2. Head(dq[v]) \in Obj \cup {Null} /\ Tail(dq[v]) \in Seq(Obj \cup {Null})
      BY <3>1
    <3>3. QED
      BY <2>5, <2>t, <3>2, <1>q DEF Steal
  <2>6. CASE TakeGlobal(w)
    <3>1. /\ global[Len(global)] \in Obj \cup {Null}
          /\ SubSeq(global, 1, Len(global) - 1) \in Seq(Obj \cup {Null})
      BY <2>6 DEF TakeGlobal
    <3>2. QED
      BY <2>6, <2>t, <3>1, <1>q DEF TakeGlobal
  <2>7. QED
    BY <1>4, <2>1, <2>2, <2>3, <2>4, <2>5, <2>6 DEF Search
<1>5. ASSUME NEW w \in Worker, Trace(w) PROVE TypeOK'
  <2>1. CASE Mark(w)
    <3>1. obj[w] \in Obj
      BY <2>1 DEF Mark, HandInv, HandOK
    <3>2. CASE obj[w] \in marked
      <4>1. /\ slot' = [slot EXCEPT ![w] = 0]
            /\ obj' = [obj EXCEPT ![w] = Null]
            /\ Go(w, "loop")
            /\ marked' = marked \cup {obj[w]}
        BY <2>1, <3>2 DEF Mark, Release
      <4>2. slot' \in [Worker -> Nat] /\ obj' \in [Worker -> Obj \cup {Null}]
        BY <4>1
      <4>3. pc' \in [Worker -> Label] /\ marked' \subseteq Obj
        BY <4>1, <3>1, <1>p, <1>q
      <4>4. QED
        BY <2>1, <4>2, <4>3 DEF Mark, queues
    <3>3. CASE obj[w] \notin marked
      <4>1. /\ slot' = [slot EXCEPT ![w] = 1]
            /\ obj' = obj
            /\ Go(w, "scan")
            /\ marked' = marked \cup {obj[w]}
        BY <2>1, <3>3 DEF Mark
      <4>2. slot' \in [Worker -> Nat] /\ obj' \in [Worker -> Obj \cup {Null}]
        BY <4>1
      <4>3. pc' \in [Worker -> Label] /\ marked' \subseteq Obj
        BY <4>1, <3>1, <1>p, <1>q
      <4>4. QED
        BY <2>1, <4>2, <4>3 DEF Mark, queues
    <3>4. QED
      BY <3>2, <3>3
  <2>2. CASE SkipSlot(w)
    BY <2>2, SMTT(30) DEF SkipSlot, queues
  <2>3. CASE PushChild(w)
    <3>1. Child(w) \in Obj
      BY <2>3, ChildInObj DEF PushChild, HandInv, HandOK, Child
    <3>2. Append(dq[w], Child(w)) \in Seq(Obj \cup {Null})
      BY <3>1
    <3>3. CASE Len(dq[w]) < Capacity - 1
      <4>1. /\ dq' = [dq EXCEPT ![w] = Append(dq[w], Child(w))]
            /\ spent' = [spent EXCEPT ![w] = spent[w] \cup {Child(w)}]
            /\ slot' = [slot EXCEPT ![w] = slot[w] + 1]
            /\ pc' = pc
        BY <2>3, <3>3 DEF PushChild
      <4>2. dq' \in [Worker -> Seq(Obj \cup {Null})]
        BY <4>1, <3>2
      <4>3. spent[w] \cup {Child(w)} \in SUBSET (Obj \cup {Null})
        BY <3>1
      <4>4. spent' \in [Worker -> SUBSET (Obj \cup {Null})]
        BY <4>1, <4>3
      <4>5. slot' \in [Worker -> Nat]
        BY <4>1
      <4>6. QED
        BY <2>3, <4>1, <4>2, <4>4, <4>5 DEF PushChild
    <3>4. CASE ~(Len(dq[w]) < Capacity - 1)
      BY <2>3, <3>4, <1>p, <1>q DEF PushChild
    <3>5. QED
      BY <3>3, <3>4
  <2>4. CASE Spill(w)
    <3>1. Child(w) \in Obj
      BY <2>4, ChildInObj DEF Spill, HandInv, HandOK, Child
    <3>2. Append(global, Child(w)) \in Seq(Obj \cup {Null})
      BY <3>1
    <3>3. QED
      BY <2>4, <3>2, <1>p, <1>q DEF Spill, locals
  <2>5. CASE Scanned(w)
    BY <2>5, <1>p, <1>q DEF Scanned, Release, queues
  <2>6. QED
    BY <1>5, <2>1, <2>2, <2>3, <2>4, <2>5 DEF Trace
<1>6. ASSUME NEW w \in Worker, Terminate(w) PROVE TypeOK'
  <2>1. CASE Leave(w) \/ Rejoin(w)
    BY <1>0, <2>1, <1>p, <1>q DEF Leave, Rejoin, queues, locals
  <2>2. CASE CheckGlobal(w)
    <3>1. CASE global = <<>>
      <4>1. chk' = [chk EXCEPT ![w] = 0] /\ Go(w, "checkDeques")
        BY <2>2, <3>1 DEF CheckGlobal
      <4>2. chk' \in [Worker -> 0 .. NUM_WORKERS]
        BY <4>1, WorkersAssumption
      <4>3. QED
        BY <2>2, <4>1, <4>2, <1>p, <1>q DEF CheckGlobal, queues
    <3>2. CASE global # <<>>
      BY <2>2, <3>2, <1>p, <1>q DEF CheckGlobal, queues
    <3>3. QED
      BY <3>1, <3>2
  <2>3. CASE CheckDeque(w)
    <3>1. chk[w] \in 0 .. NUM_WORKERS /\ chk[w] < NUM_WORKERS
      BY <2>3 DEF CheckDeque
    <3>2. CASE chk' = [chk EXCEPT ![w] = @ + 1] /\ pc' = pc
      <4>1. chk[w] + 1 \in 0 .. NUM_WORKERS
        BY <3>1, WorkersAssumption
      <4>2. chk' \in [Worker -> 0 .. NUM_WORKERS]
        BY <3>2, <4>1
      <4>3. QED
        BY <2>3, <3>2, <4>2 DEF CheckDeque, queues
    <3>3. CASE chk' = [chk EXCEPT ![w] = 0] /\ Go(w, "rejoin")
      <4>1. chk' \in [Worker -> 0 .. NUM_WORKERS]
        BY <3>3, WorkersAssumption
      <4>2. QED
        BY <2>3, <3>3, <4>1, <1>p, <1>q DEF CheckDeque, queues
    <3>4. QED
      BY <2>3, <3>2, <3>3 DEF CheckDeque
  <2>4. CASE Finish(w)
    BY <2>4, <1>p, <1>q, WorkersAssumption DEF Finish, queues
  <2>5. CASE WaitOver(w)
    BY <2>5, <1>p, <1>q DEF WaitOver, queues, locals
  <2>6. QED
    BY <1>6, <2>1, <2>2, <2>3, <2>4, <2>5 DEF Terminate
<1>7. QED
  BY <1>1, <1>2, <1>3, <1>4, <1>5, <1>6 DEF Next, Collector, mark_worker

-----------------------------------------------------------------------------
(* Phases.                                                                 *)

(* A worker takes steps only between Start and Join. *)
LEMMA WorkerRuns ==
  ASSUME TypeOK, PhaseInv, NEW w \in Worker, mark_worker(w)
  PROVE  phase # "scan" /\ pc[w] # "exit"
<1>1. pc[w] # "exit"
  BY DEF mark_worker, Search, Trace, Terminate, LoopTest, Pop, PopEmpty, PopLast,
         PopLastWin, PopLastLose, Steal, StealNothing, TakeGlobal, GlobalEmpty,
         Mark, SkipSlot, PushChild, Spill, Scanned, Leave, CheckGlobal,
         CheckDeque, Finish, WaitOver, Rejoin
<1>2. QED
  BY <1>1 DEF PhaseInv

(* What no worker does: move the phase, or take back the flag. *)
LEMMA WorkerFrame ==
  ASSUME NEW w \in Worker, mark_worker(w), done \in BOOLEAN
  PROVE  /\ UNCHANGED <<heap, shadow_stack, old, phase, frame>>
         /\ done => done'
<1>1. CASE Search(w)
  BY <1>1 DEF Search, LoopTest, Pop, PopEmpty, PopLast, PopLastWin, PopLastLose,
              Steal, StealNothing, TakeGlobal, GlobalEmpty, Take
<1>2. CASE Trace(w)
  BY <1>2 DEF Trace, Mark, SkipSlot, PushChild, Spill, Scanned
<1>3. CASE Terminate(w)
  BY <1>3 DEF Terminate, Leave, CheckGlobal, CheckDeque, Finish, WaitOver, Rejoin
<1>4. QED
  BY <1>1, <1>2, <1>3 DEF mark_worker

(* A worker stops only when it has seen the flag or sets it. *)
LEMMA WorkerExit ==
  ASSUME TypeOK, NEW w \in Worker, mark_worker(w), ~done', NEW v \in Worker,
         pc[v] # "exit"
  PROVE  pc'[v] # "exit"
<1> USE DEF TypeOK, Go
<1>1. CASE Search(w)
  BY <1>1 DEF Search, LoopTest, Pop, PopEmpty, PopLast, PopLastWin, PopLastLose,
              Steal, StealNothing, TakeGlobal, GlobalEmpty, Take
<1>2. CASE Trace(w)
  BY <1>2 DEF Trace, Mark, SkipSlot, PushChild, Spill, Scanned
<1>3. CASE Terminate(w)
  BY <1>3 DEF Terminate, Leave, CheckGlobal, CheckDeque, Finish, WaitOver, Rejoin
<1>4. QED
  BY <1>1, <1>2, <1>3 DEF mark_worker

(* The collecting thread returns from join only after marking_done was     *)
(* set, and no worker stops before that.                                   *)
LEMMA PhaseStep ==
  ASSUME TypeOK, PhaseInv, Next
  PROVE  PhaseInv'
<1>1. CASE ScanFrame
  BY <1>1 DEF ScanFrame, PhaseInv
<1>2. CASE Start
  BY <1>2 DEF Start, PhaseInv
<1>3. CASE Join
  <2>1. 0 \in Worker
    BY WorkersAssumption DEF Worker
  <2>2. QED
    BY <1>3, <2>1 DEF Join, PhaseInv
<1>4. ASSUME NEW w \in Worker, mark_worker(w) PROVE PhaseInv'
  <2>1. /\ phase # "scan" /\ UNCHANGED <<shadow_stack, phase, frame>>
        /\ done => done'
    BY <1>4, WorkerRuns, WorkerFrame DEF TypeOK
  <2>2. ASSUME phase = "mark", ~done', NEW v \in Worker
        PROVE  pc'[v] # "exit"
    BY <1>4, <2>1, <2>2, WorkerExit DEF PhaseInv
  <2>3. QED
    BY <2>1, <2>2 DEF PhaseInv
<1>5. QED
  BY <1>1, <1>2, <1>3, <1>4 DEF Next, Collector

-----------------------------------------------------------------------------
(* What a worker has in hand, and what its deque holds.                    *)

(* The ends of a non-empty deque are elements of it, and taking one off    *)
(* leaves a sequence.                                                      *)
LEMMA SeqEnds ==
  ASSUME NEW S, NEW s \in Seq(S), s # <<>>
  PROVE  /\ s[1] \in S /\ Head(s) = s[1]
         /\ s[Len(s)] \in S
         /\ Tail(s) \in Seq(S) /\ Len(Tail(s)) = Len(s) - 1
         /\ \A i \in 1 .. Len(s) - 1 : Tail(s)[i] = s[i + 1]
         /\ SubSeq(s, 1, Len(s) - 1) \in Seq(S)
         /\ Len(SubSeq(s, 1, Len(s) - 1)) = Len(s) - 1
         /\ \A i \in 1 .. Len(s) - 1 : SubSeq(s, 1, Len(s) - 1)[i] = s[i]
<1>1. Len(s) \in Nat /\ Len(s) > 0
  OBVIOUS
<1>2. s[1] \in S /\ s[Len(s)] \in S /\ Head(s) = s[1]
  BY <1>1
<1>3. Tail(s) \in Seq(S) /\ Len(Tail(s)) = Len(s) - 1
  BY <1>1
<1>4. \A i \in 1 .. Len(s) - 1 : Tail(s)[i] = s[i + 1]
  BY <1>1
<1>5. /\ SubSeq(s, 1, Len(s) - 1) \in Seq(S)
      /\ Len(SubSeq(s, 1, Len(s) - 1)) = Len(s) - 1
      /\ \A i \in 1 .. Len(s) - 1 : SubSeq(s, 1, Len(s) - 1)[i] = s[i]
  <2> DEFINE n == Len(s) - 1
  <2>1. n \in Int /\ 1 \in Int /\ \A i \in 1 .. n : s[i] \in S
    BY <1>1
  <2>2. /\ SubSeq(s, 1, n) \in Seq(S)
        /\ Len(SubSeq(s, 1, n)) = IF 1 <= n THEN n - 1 + 1 ELSE 0
        /\ \A i \in 1 .. n - 1 + 1 : SubSeq(s, 1, n)[i] = s[1 + i - 1]
    <3> HIDE DEF n
    <3>1. QED
      BY <2>1, SubSeqProperties
  <2>3. n \in Nat /\ n - 1 + 1 = n /\ \A i \in 1 .. n : 1 + i - 1 = i
    BY <1>1
  <2>4. QED
    BY <2>2, <2>3
<1>6. QED
  BY <1>2, <1>3, <1>4, <1>5

(* A worker that changes nothing but takes nothing in hand, or whose hand  *)
(* is left alone, keeps HandOK. *)
LEMMA HandKept ==
  ASSUME NEW v \in Worker, HandOK(v), heap' = heap, old' = old, marked \subseteq marked',
         pc'[v] = pc[v], obj'[v] = obj[v], slot'[v] = slot[v]
  PROVE  HandOK(v)'
BY DEF HandOK

(* A worker that holds no object owes nothing. *)
LEMMA HandEmpty ==
  ASSUME NEW v \in Worker, pc'[v] \notin {"mark", "scan", "spill"}
  PROVE  HandOK(v)'
BY DEF HandOK

(* What a worker is tracing is an allocated, marked object and its slot    *)
(* is one of that object.                                                  *)
LEMMA HandStep ==
  ASSUME TypeOK, HandInv, Next
  PROVE  HandInv'
<1> SUFFICES ASSUME NEW v \in Worker PROVE HandOK(v)'
  BY DEF HandInv
<1>0. HandOK(v) /\ pc \in [Worker -> Label]
  BY DEF HandInv, TypeOK
<1>1. CASE ScanFrame \/ Join
  BY <1>1, <1>0, HandKept DEF ScanFrame, Join, locals, queues
<1>2. CASE Start
  BY <1>2, HandEmpty DEF Start
<1>3. ASSUME NEW w \in Worker, Search(w) PROVE HandOK(v)'
  <2>o. ASSUME v # w, heap' = heap, old' = old, marked' = marked, slot' = slot,
               NEW l, pc' = [pc EXCEPT ![w] = l],
               NEW x, obj' = [obj EXCEPT ![w] = x] \/ obj' = obj
        PROVE  HandOK(v)'
    BY <2>o, <1>0, HandKept DEF TypeOK
  <2>e. ASSUME NEW l \in {"exit", "pop", "popLast", "steal", "global", "idle"},
               Go(w, l), v = w
        PROVE  HandOK(v)'
    BY <2>e, <1>0, HandEmpty DEF Go
  <2>1. CASE LoopTest(w) \/ PopEmpty(w) \/ PopLast(w) \/ PopLastLose(w)
             \/ StealNothing(w) \/ GlobalEmpty(w)
    BY <2>1, <2>o, <2>e DEF LoopTest, PopEmpty, PopLast, PopLastLose, StealNothing,
                            GlobalEmpty, Go, locals
  <2>t. ASSUME NEW x \in Obj \cup {Null}, NEW l \in {"steal", "idle"}, Take(w, x, l)
        PROVE  HandOK(v)'
    <3>1. CASE v # w
      BY <3>1, <2>t, <2>o DEF Take, Go
    <3>2. CASE v = w /\ x = Null
      BY <3>2, <2>t, <2>e DEF Take
    <3>3. CASE v = w /\ x # Null
      BY <3>3, <2>t, <1>0 DEF Take, Go, HandOK, TypeOK
    <3>4. QED
      BY <3>1, <3>2, <3>3
  <2>2. CASE Pop(w)
    <3>1. dq[w] \in Seq(Obj \cup {Null}) /\ dq[w] # <<>>
      BY <2>2 DEF Pop, TypeOK
    <3>2. QED
      BY <2>2, <2>t, <3>1, SeqEnds DEF Pop
  <2>3. CASE PopLastWin(w)
    <3>1. dq[w] \in Seq(Obj \cup {Null}) /\ dq[w] # <<>>
      BY <2>3 DEF PopLastWin, TypeOK
    <3>2. QED
      BY <2>3, <2>t, <3>1, SeqEnds DEF PopLastWin
  <2>4. ASSUME NEW u \in Worker, Steal(w, u) PROVE HandOK(v)'
    <3>1. dq[u] \in Seq(Obj \cup {Null}) /\ dq[u] # <<>>
      BY <2>4 DEF Steal, TypeOK
    <3>2. QED
      BY <2>4, <2>t, <3>1, SeqEnds DEF Steal
  <2>5. CASE TakeGlobal(w)
    <3>1. global \in Seq(Obj \cup {Null}) /\ global # <<>>
      BY <2>5 DEF TakeGlobal, TypeOK
    <3>2. QED
      BY <2>5, <2>t, <3>1, SeqEnds DEF TakeGlobal
  <2>6. QED
    BY <1>3, <2>1, <2>2, <2>3, <2>4, <2>5 DEF Search
<1>4. ASSUME NEW w \in Worker, Trace(w) PROVE HandOK(v)'
  <2>1. CASE v # w
    BY <1>4, <2>1, <1>0, HandKept DEF Trace, Mark, SkipSlot, PushChild, Spill,
       Scanned, Release, Go, TypeOK, locals
  <2>2. CASE v = w /\ (Mark(w) \/ Scanned(w))
    BY <2>2, <1>0 DEF Mark, Scanned, Release, Go, HandOK, TypeOK
  <2>3. CASE v = w /\ SkipSlot(w)
    BY <2>3, <1>0 DEF SkipSlot, HandOK, TypeOK
  <2>4. CASE v = w /\ PushChild(w)
    BY <2>4, <1>0 DEF PushChild, Go, HandOK, TypeOK
  <2>5. CASE v = w /\ Spill(w)
    BY <2>5, <1>0 DEF Spill, Go, HandOK, TypeOK, locals
  <2>6. QED
    BY <1>4, <2>1, <2>2, <2>3, <2>4, <2>5 DEF Trace
<1>5. ASSUME NEW w \in Worker, Terminate(w) PROVE HandOK(v)'
  <2>1. CASE v # w
    BY <1>5, <2>1, <1>0, HandKept DEF Terminate, Leave, CheckGlobal, CheckDeque,
       Finish, WaitOver, Rejoin, Go, locals
  <2>2. CASE v = w
    BY <1>5, <2>2, <1>0, HandEmpty DEF Terminate, Leave, CheckGlobal, CheckDeque,
       Finish, WaitOver, Rejoin, Go
  <2>3. QED
    BY <2>1, <2>2
<1>6. QED
  BY <1>1, <1>2, <1>3, <1>4, <1>5 DEF Next, Collector, mark_worker

-----------------------------------------------------------------------------
(* The deques.  Whatever leaves the pushed part of one is handed to the    *)
(* worker that took it.                                                    *)

(* pop() with more than one task takes the newest pushed one and leaves    *)
(* the oldest alone.                                                       *)
LEMMA PopDeque ==
  ASSUME TypeOK, DequeInv, NEW w \in Worker, Pop(w)
  PROVE  LET x == dq[w][Len(dq[w])] IN
         /\ x \in Obj
         /\ DequeOK(w)'
         /\ Pushed(w)' \subseteq Pushed(w)
         /\ Pushed(w) \subseteq Pushed(w)' \cup {x}
<1> DEFINE x == dq[w][Len(dq[w])]
<1>1. /\ dq[w] \in Seq(Obj \cup {Null}) /\ Len(dq[w]) > 1 /\ Len(dq[w]) \in Nat
      /\ DequeOK(w) /\ ghost[w] \in BOOLEAN
  BY DEF TypeOK, DequeInv, Pop
<1>2. x \in Obj
  BY <1>1, SeqEnds DEF DequeOK
<1>3. /\ Len(dq'[w]) = Len(dq[w]) - 1
      /\ \A i \in 1 .. Len(dq[w]) - 1 : dq'[w][i] = dq[w][i]
      /\ ghost'[w] = ghost[w]
  BY <1>1, SeqEnds DEF Pop, TypeOK
<1>4. pc'[w] # "popLast"
  BY DEF Pop, Take, Go, TypeOK
<1>5. DequeOK(w)'
  BY <1>1, <1>3, <1>4 DEF DequeOK
<1>6. Pushed(w)' \subseteq Pushed(w)
  BY <1>1, <1>3 DEF Pushed
<1>7. Pushed(w) \subseteq Pushed(w)' \cup {x}
  BY <1>1, <1>3 DEF Pushed
<1>8. QED
  BY <1>2, <1>5, <1>6, <1>7

(* Winning the race for the last task empties the deque. *)
LEMMA PopLastDeque ==
  ASSUME TypeOK, DequeInv, NEW w \in Worker, PopLastWin(w)
  PROVE  LET x == dq[w][1] IN
         /\ x \in Obj \cup {Null}
         /\ DequeOK(w)'
         /\ Pushed(w)' = {}
         /\ Pushed(w) \subseteq {x} \ {Null}
<1>1. /\ dq[w] \in Seq(Obj \cup {Null}) /\ Len(dq[w]) = 1
      /\ DequeOK(w) /\ ghost[w] \in BOOLEAN
  <2>1. dq[w] \in Seq(Obj \cup {Null}) /\ DequeOK(w) /\ ghost[w] \in BOOLEAN
    BY DEF TypeOK, DequeInv
  <2>2. dq[w] # <<>> /\ Len(dq[w]) <= 1
    BY <2>1 DEF DequeOK, PopLastWin
  <2>3. Len(dq[w]) \in Nat /\ Len(dq[w]) # 0
    BY <2>1, <2>2
  <2>4. ASSUME NEW n \in Nat, n # 0, n <= 1 PROVE n = 1
    BY <2>4
  <2>5. Len(dq[w]) = 1
    BY <2>2, <2>3, <2>4
  <2>6. QED
    BY <2>1, <2>5
<1>2. dq[w][1] \in Obj \cup {Null}
  BY <1>1
<1>3. dq'[w] = <<>> /\ ghost'[w] = FALSE /\ Len(dq'[w]) = 0
  BY DEF PopLastWin, TypeOK
<1>4. DequeOK(w)' /\ Pushed(w)' = {}
  BY <1>3 DEF DequeOK, Pushed
<1>5. Pushed(w) \subseteq {dq[w][1]} \ {Null}
  BY <1>1 DEF DequeOK, Pushed
<1>6. QED
  BY <1>2, <1>4, <1>5

(* Losing that race leaves one task that was not pushed. *)
LEMMA LoseDeque ==
  ASSUME TypeOK, NEW w \in Worker, PopLastLose(w)
  PROVE  DequeOK(w)' /\ Pushed(w)' = {} /\ Pushed(w) = {}
<1>1. dq[w] = <<>> /\ Len(dq[w]) = 0
  BY DEF PopLastLose
<1>2. PICK x \in spent[w] : dq' = [dq EXCEPT ![w] = <<x>>]
  BY DEF PopLastLose
<1>3. dq'[w] = <<x>> /\ Len(dq'[w]) = 1 /\ ghost'[w] = TRUE /\ pc'[w] # "popLast"
  BY <1>2 DEF PopLastLose, Go, TypeOK
<1>4. QED
  BY <1>1, <1>3 DEF DequeOK, Pushed

(* A successful steal takes the oldest task, the only one that can be a    *)
(* leftover.                                                               *)
LEMMA StealDeque ==
  ASSUME TypeOK, DequeInv, NEW w \in Worker, NEW u \in Worker, Steal(w, u)
  PROVE  LET x == Head(dq[u]) IN
         /\ x \in Obj \cup {Null}
         /\ DequeOK(u)'
         /\ Pushed(u)' \subseteq Pushed(u)
         /\ Pushed(u) \subseteq Pushed(u)' \cup ({x} \ {Null})
<1>1. /\ dq[u] \in Seq(Obj \cup {Null}) /\ dq[u] # <<>> /\ Len(dq[u]) \in Nat
      /\ DequeOK(u) /\ ghost[u] \in BOOLEAN
  BY DEF TypeOK, DequeInv, Steal
<1>2. Head(dq[u]) \in Obj \cup {Null} /\ Head(dq[u]) = dq[u][1]
  BY <1>1, SeqEnds
<1>3. /\ Len(dq'[u]) = Len(dq[u]) - 1
      /\ \A i \in 1 .. Len(dq[u]) - 1 : dq'[u][i] = dq[u][i + 1]
      /\ ghost'[u] = FALSE
  BY <1>1, SeqEnds DEF Steal, TypeOK
<1>4. pc'[u] = "popLast" => pc[u] = "popLast"
  BY DEF Steal, Take, Go, TypeOK
<1>5. DequeOK(u)'
  <2>1. \A i \in 1 .. Len(dq'[u]) : dq'[u][i] # Null
    <3> SUFFICES ASSUME NEW i \in 1 .. Len(dq[u]) - 1 PROVE dq[u][i + 1] # Null
      BY <1>1, <1>3
    <3>1. i + 1 \in 1 .. Len(dq[u]) /\ i + 1 > 1
      BY <1>1
    <3>2. QED
      BY <1>1, <3>1 DEF DequeOK
  <2>2. pc'[u] = "popLast" => Len(dq'[u]) <= 1
    BY <1>1, <1>3, <1>4 DEF DequeOK
  <2>3. QED
    BY <2>1, <2>2, <1>3 DEF DequeOK
<1>6. Pushed(u)' \subseteq Pushed(u)
  <2> SUFFICES ASSUME NEW i \in 1 .. Len(dq[u]) - 1 PROVE dq[u][i + 1] \in Pushed(u)
    BY <1>1, <1>3 DEF Pushed
  <2>1. i + 1 \in (IF ghost[u] THEN 2 ELSE 1) .. Len(dq[u])
    BY <1>1
  <2>2. QED
    BY <2>1 DEF Pushed
<1>7. Pushed(u) \subseteq Pushed(u)' \cup ({Head(dq[u])} \ {Null})
  <2> SUFFICES ASSUME NEW i \in (IF ghost[u] THEN 2 ELSE 1) .. Len(dq[u])
               PROVE  dq[u][i] \in Pushed(u)' \cup ({Head(dq[u])} \ {Null})
    BY DEF Pushed
  <2>1. CASE i = 1
    BY <2>1, <1>1, <1>2 DEF DequeOK
  <2>2. CASE i # 1
    <3>1. i - 1 \in 1 .. Len(dq'[u]) /\ dq'[u][i - 1] = dq[u][i]
      BY <2>2, <1>1, <1>3
    <3>2. QED
      BY <3>1, <1>3 DEF Pushed
  <2>3. QED
    BY <2>1, <2>2
<1>8. QED
  BY <1>2, <1>5, <1>6, <1>7

(* push() adds the child to the pushed tasks. *)
LEMMA PushDeque ==
  ASSUME TypeOK, DequeInv, HandInv, NEW w \in Worker, PushChild(w),
         Len(dq[w]) < Capacity - 1
  PROVE  DequeOK(w)' /\ Pushed(w)' = Pushed(w) \cup {Child(w)}
<1>1. /\ dq[w] \in Seq(Obj \cup {Null}) /\ Len(dq[w]) \in Nat
      /\ DequeOK(w) /\ ghost[w] \in BOOLEAN
  BY DEF TypeOK, DequeInv
<1>2. Child(w) \in Obj
  BY ChildInObj DEF PushChild, HandInv, HandOK, Child, TypeOK
<1>3. dq'[w] = Append(dq[w], Child(w)) /\ ghost'[w] = ghost[w] /\ pc'[w] = "scan"
  BY DEF PushChild, TypeOK
<1>4. /\ Len(dq'[w]) = Len(dq[w]) + 1
      /\ dq'[w][Len(dq[w]) + 1] = Child(w)
      /\ \A i \in 1 .. Len(dq[w]) : dq'[w][i] = dq[w][i]
  BY <1>1, <1>2, <1>3
<1>5. dq[w] = <<>> <=> Len(dq[w]) = 0
  BY <1>1
<1>6. DequeOK(w)'
  <2>1. \A i \in 1 .. Len(dq'[w]) : i > 1 \/ ~ghost'[w] => dq'[w][i] # Null
    BY <1>1, <1>2, <1>3, <1>4, NullAssumption DEF DequeOK
  <2>2. dq'[w] # <<>>
    BY <1>1, <1>4
  <2>3. QED
    BY <2>1, <2>2, <1>3 DEF DequeOK
<1>7. Pushed(w)' = Pushed(w) \cup {Child(w)}
  BY <1>1, <1>3, <1>4, <1>5, SMTT(30) DEF DequeOK, Pushed
<1>8. QED
  BY <1>6, <1>7

(* A step that changes no deque, and makes nobody pop, keeps them well-    *)
(* formed.                                                                 *)
LEMMA DequeKept ==
  ASSUME NEW v \in Worker, DequeOK(v), dq'[v] = dq[v], ghost'[v] = ghost[v],
         pc'[v] = "popLast" => pc[v] = "popLast" \/ Len(dq[v]) <= 1
  PROVE  DequeOK(v)' /\ Pushed(v)' = Pushed(v)
<1>1. DequeOK(v)'
  BY DEF DequeOK
<1>2. Pushed(v)' = Pushed(v)
  BY DEF Pushed
<1>3. QED
  BY <1>1, <1>2

(* Only PushChild puts anything into the pushed part of a deque. *)
LEMMA WorkerDeque ==
  ASSUME TypeOK, DequeInv, HandInv, NEW w \in Worker, mark_worker(w),
         NEW v \in Worker
  PROVE  /\ DequeOK(v)'
         /\ Pushed(v)' \subseteq Pushed(v) \/ (v = w /\ PushChild(w))
<1>0. DequeOK(v) /\ dq \in [Worker -> Seq(Obj \cup {Null})]
      /\ ghost \in [Worker -> BOOLEAN] /\ pc \in [Worker -> Label]
  BY DEF DequeInv, TypeOK
<1>1. CASE Search(w)
  <2>1. CASE LoopTest(w) \/ PopEmpty(w) \/ PopLast(w) \/ StealNothing(w)
             \/ TakeGlobal(w) \/ GlobalEmpty(w)
    <3>1. dq' = dq /\ ghost' = ghost
      BY <2>1 DEF LoopTest, PopEmpty, PopLast, StealNothing, TakeGlobal,
                  GlobalEmpty, queues
    <3>2. pc'[v] = "popLast" => pc[v] = "popLast" \/ Len(dq[v]) <= 1
      <4>1. CASE PopLast(w)
        <5>1. Len(dq[w]) = 1 /\ Go(w, "popLast")
          BY <4>1 DEF PopLast
        <5>2. pc'[v] = "popLast" => pc[v] = "popLast" \/ v = w
          BY <5>1, <1>0 DEF Go
        <5>3. Len(dq[w]) <= 1
          BY <5>1
        <5>4. QED
          BY <5>2, <5>3
      <4>2. CASE ~PopLast(w)
        BY <2>1, <4>2, <1>0 DEF LoopTest, PopEmpty, StealNothing, TakeGlobal,
                                GlobalEmpty, Take, Go
      <4>3. QED
        BY <4>1, <4>2
    <3>3. QED
      BY <3>1, <3>2, <1>0, DequeKept
  <2>2. CASE Pop(w) \/ PopLastWin(w) \/ PopLastLose(w)
    <3>1. CASE v = w
      BY <2>2, <3>1, PopDeque, PopLastDeque, LoseDeque
    <3>2. CASE v # w
      <4>1. dq'[v] = dq[v]
        BY <2>2, <3>2, <1>0 DEF Pop, PopLastWin, PopLastLose
      <4>2. ghost'[v] = ghost[v] /\ pc'[v] = pc[v]
        BY <2>2, <3>2, <1>0 DEF Pop, PopLastWin, PopLastLose, Take, Go
      <4>3. QED
        BY <4>1, <4>2, <1>0, DequeKept
    <3>3. QED
      BY <3>1, <3>2
  <2>3. ASSUME NEW u \in Worker, Steal(w, u)
        PROVE  DequeOK(v)' /\ Pushed(v)' \subseteq Pushed(v)
    <3>1. CASE v = u
      BY <2>3, <3>1, StealDeque
    <3>2. CASE v # u
      <4>1. dq'[v] = dq[v] /\ ghost'[v] = ghost[v]
        BY <2>3, <3>2, <1>0 DEF Steal
      <4>2. pc'[v] = "popLast" => pc[v] = "popLast"
        BY <2>3, <1>0 DEF Steal, Take, Go
      <4>3. QED
        BY <4>1, <4>2, <1>0, DequeKept
    <3>3. QED
      BY <3>1, <3>2
  <2>4. QED
    BY <1>1, <2>1, <2>2, <2>3 DEF Search
<1>2. CASE Trace(w)
  <2>1. CASE PushChild(w) /\ Len(dq[w]) < Capacity - 1
    <3>1. CASE v = w
      BY <2>1, <3>1, PushDeque
    <3>2. CASE v # w
      <4>1. dq'[v] = dq[v] /\ ghost'[v] = ghost[v] /\ pc'[v] = pc[v]
        BY <2>1, <3>2, <1>0 DEF PushChild
      <4>2. QED
        BY <4>1, <1>0, DequeKept
    <3>3. QED
      BY <3>1, <3>2
  <2>2. CASE PushChild(w) /\ ~(Len(dq[w]) < Capacity - 1)
    <3>1. dq' = dq /\ ghost' = ghost /\ Go(w, "spill")
      BY <2>2 DEF PushChild
    <3>2. pc'[v] = "popLast" => pc[v] = "popLast"
      BY <3>1, <1>0 DEF Go
    <3>3. QED
      BY <3>1, <3>2, <1>0, DequeKept
  <2>3. CASE Mark(w) \/ SkipSlot(w) \/ Spill(w) \/ Scanned(w)
    <3>1. dq' = dq /\ ghost' = ghost
      BY <2>3 DEF Mark, SkipSlot, Spill, Scanned, queues
    <3>2. pc'[v] = "popLast" => pc[v] = "popLast"
      BY <2>3, <1>0 DEF Mark, SkipSlot, Spill, Scanned, Go
    <3>3. QED
      BY <3>1, <3>2, <1>0, DequeKept
  <2>4. QED
    BY <1>2, <2>1, <2>2, <2>3 DEF Trace
<1>3. CASE Terminate(w)
  <2>1. dq' = dq /\ ghost' = ghost
    BY <1>3 DEF Terminate, Leave, CheckGlobal, CheckDeque, Finish, WaitOver,
                Rejoin, queues
  <2>2. pc'[v] = "popLast" => pc[v] = "popLast"
    BY <1>3, <1>0 DEF Terminate, Leave, CheckGlobal, CheckDeque, Finish, WaitOver,
                      Rejoin, Go
  <2>3. QED
    BY <2>1, <2>2, <1>0, DequeKept
<1>4. QED
  BY <1>1, <1>2, <1>3 DEF mark_worker

(* The collecting thread leaves the deques alone and makes nobody pop. *)
LEMMA CollectorDeque ==
  ASSUME TypeOK, DequeInv, Collector, NEW v \in Worker
  PROVE  DequeOK(v)' /\ Pushed(v)' = Pushed(v)
<1>1. dq' = dq /\ ghost' = ghost
  BY DEF Collector, ScanFrame, Start, Join, queues
<1>2. pc'[v] = "popLast" => pc[v] = "popLast"
  BY DEF Collector, ScanFrame, Start, Join, TypeOK
<1>3. QED
  BY <1>1, <1>2, DequeKept DEF DequeInv

(* Only the oldest task of a deque can ever be a leftover. *)
LEMMA DequeStep ==
  ASSUME TypeOK, DequeInv, HandInv, Next
  PROVE  DequeInv'
BY WorkerDeque, CollectorDeque DEF DequeInv, Next

Searching == {"steal", "global", "idle", "checkGlobal", "checkDeques", "wait",
              "rejoin"}

(* IdleInv, with the program counters it speaks of collected in one set. *)
LEMMA IdleAlt == IdleInv <=> \A v \in Worker : pc[v] \in Searching => Pushed(v) = {}
BY DEF IdleInv, Uncounted, Searching

(* A worker that has turned away from its own deque leaves nothing         *)
(* pushed in it: only the owner pushes.                                    *)
LEMMA IdleStep ==
  ASSUME TypeOK, DequeInv, HandInv, IdleInv, Next
  PROVE  IdleInv'
<1> SUFFICES ASSUME NEW v \in Worker, pc'[v] \in Searching PROVE Pushed(v)' = {}
  BY DEF IdleInv, Uncounted, Searching
<1>0. pc[v] \in Searching => Pushed(v) = {}
  BY IdleAlt
<1>1. CASE Collector
  <2>1. pc'[v] = pc[v]
    BY <1>1 DEF Collector, ScanFrame, Start, Join, Searching
  <2>2. QED
    BY <1>0, <1>1, <2>1, CollectorDeque
<1>2. ASSUME NEW w \in Worker, mark_worker(w) PROVE Pushed(v)' = {}
  <2>0. pc \in [Worker -> Label]
    BY DEF TypeOK
  <2>1. CASE pc[v] \in Searching
    <3>1. ~PushChild(v)
      BY <2>1 DEF PushChild, Searching
    <3>2. QED
      BY <1>0, <1>2, <2>1, <3>1, WorkerDeque
  <2>2. CASE pc[v] \notin Searching
    <3>1. v = w /\ (Pop(w) \/ PopEmpty(w) \/ PopLastWin(w) \/ PopLastLose(w))
      <4>1. CASE Search(w)
        BY <4>1, <2>0, <2>2 DEF Search, LoopTest, PopLast, Pop, PopLastWin,
           PopEmpty, PopLastLose, Steal, StealNothing, TakeGlobal, GlobalEmpty,
           Take, Go, Searching
      <4>2. CASE Trace(w)
        BY <4>2, <2>0, <2>2 DEF Trace, Mark, SkipSlot, PushChild, Spill, Scanned,
           Go, Searching
      <4>3. CASE Terminate(w)
        BY <4>3, <2>0, <2>2 DEF Terminate, Leave, CheckGlobal, CheckDeque, Finish,
           WaitOver, Rejoin, Go, Searching
      <4>4. QED
        BY <1>2, <4>1, <4>2, <4>3 DEF mark_worker
    <3>2. CASE Pop(w)
      <4>1. dq[w][Len(dq[w])] # Null
        BY <3>2, PopDeque, NullAssumption
      <4>2. pc'[w] = "mark"
        BY <3>2, <4>1, <2>0 DEF Pop, Take, Go
      <4>3. QED
        BY <4>2, <3>1 DEF Searching
    <3>3. CASE PopEmpty(w)
      <4>1. dq'[w] = <<>> /\ Len(dq'[w]) = 0
        BY <3>3 DEF PopEmpty, queues
      <4>2. QED
        BY <4>1, <3>1 DEF Pushed
    <3>4. CASE PopLastWin(w) \/ PopLastLose(w)
      BY <3>4, <3>1, PopLastDeque, LoseDeque
    <3>5. QED
      BY <3>1, <3>2, <3>3, <3>4
  <2>3. QED
    BY <2>1, <2>2
<1>3. QED
  BY <1>1, <1>2 DEF Next

-----------------------------------------------------------------------------
(* The global queue.                                                       *)

(* Taking the last element off a sequence loses at most that element. *)
LEMMA RangeFront ==
  ASSUME NEW S, NEW s \in Seq(S), s # <<>>
  PROVE  LET front == SubSeq(s, 1, Len(s) - 1) IN
         /\ Range(front) \subseteq Range(s)
         /\ Range(s) \subseteq Range(front) \cup {s[Len(s)]}
<1> DEFINE front == SubSeq(s, 1, Len(s) - 1)
<1>1. /\ front \in Seq(S) /\ Len(front) = Len(s) - 1 /\ Len(s) \in Nat
      /\ \A i \in 1 .. Len(s) - 1 : front[i] = s[i]
  BY SeqEnds
<1>2. DOMAIN front = 1 .. Len(s) - 1 /\ DOMAIN s = 1 .. Len(s)
  BY <1>1
<1> HIDE DEF front
<1>3. Range(front) \subseteq Range(s)
  BY <1>1, <1>2 DEF Range
<1>4. Range(s) \subseteq Range(front) \cup {s[Len(s)]}
  BY <1>1, <1>2 DEF Range
<1>5. QED
  BY <1>3, <1>4 DEF front

(* Taking the first element off a sequence loses at most that element. *)
LEMMA RangeTail ==
  ASSUME NEW S, NEW s \in Seq(S), s # <<>>
  PROVE  Head(s) \in Range(s) /\ Range(Tail(s)) \subseteq Range(s)
<1> DEFINE t == Tail(s)
<1>1. /\ DOMAIN s = 1 .. Len(s) /\ Len(s) \in Nat /\ Len(s) > 0
      /\ DOMAIN t = 1 .. Len(s) - 1 /\ Head(s) = s[1]
      /\ \A i \in 1 .. Len(s) - 1 : t[i] = s[i + 1]
  BY SeqEnds
<1> HIDE DEF t
<1>2. Range(t) \subseteq Range(s)
  BY <1>1 DEF Range
<1>3. Head(s) \in Range(s)
  BY <1>1 DEF Range
<1>4. QED
  BY <1>2, <1>3 DEF t

(* Appending an element adds it to the range. *)
LEMMA RangeAppend ==
  ASSUME NEW S, NEW s \in Seq(S), NEW x \in S
  PROVE  Range(Append(s, x)) = Range(s) \cup {x}
<1> DEFINE t == Append(s, x)
<1>1. /\ DOMAIN s = 1 .. Len(s) /\ Len(s) \in Nat
      /\ DOMAIN t = 1 .. Len(s) + 1
      /\ t[Len(s) + 1] = x
      /\ \A i \in 1 .. Len(s) : t[i] = s[i]
  OBVIOUS
<1> HIDE DEF t
<1>2. Range(t) = Range(s) \cup {x}
  BY <1>1 DEF Range
<1>3. QED
  BY <1>2 DEF t

(* The range of a concatenation is the union of the ranges. *)
LEMMA RangeConcat ==
  ASSUME NEW S, NEW s \in Seq(S), NEW t \in Seq(S)
  PROVE  Range(s \o t) = Range(s) \cup Range(t)
<1> DEFINE c == s \o t
<1>1. /\ DOMAIN s = 1 .. Len(s) /\ Len(s) \in Nat
      /\ DOMAIN t = 1 .. Len(t) /\ Len(t) \in Nat
      /\ DOMAIN c = 1 .. Len(s) + Len(t)
  OBVIOUS
<1>2. \A i \in 1 .. Len(s) : c[i] = s[i]
  OBVIOUS
<1>3. \A i \in 1 .. Len(t) : c[Len(s) + i] = t[i] /\ Len(s) + i \in DOMAIN c
  OBVIOUS
<1>4. \A i \in DOMAIN c : i > Len(s) => i - Len(s) \in 1 .. Len(t) /\ c[i] = t[i - Len(s)]
  BY <1>1
<1> HIDE DEF c
<1>5. Range(c) \subseteq Range(s) \cup Range(t)
  <2> SUFFICES ASSUME NEW i \in DOMAIN c PROVE c[i] \in Range(s) \cup Range(t)
    BY DEF Range
  <2>1. CASE i <= Len(s)
    BY <1>1, <1>2, <2>1 DEF Range
  <2>2. CASE i > Len(s)
    BY <1>1, <1>4, <2>2 DEF Range
  <2>3. QED
    BY <1>1, <2>1, <2>2
<1>6. Range(s) \subseteq Range(c)
  BY <1>1, <1>2 DEF Range
<1>7. Range(t) \subseteq Range(c)
  BY <1>1, <1>3 DEF Range
<1>8. QED
  BY <1>5, <1>6, <1>7 DEF c

(* What a worker's step does to the global queue. *)
LEMMA WorkerGlobal ==
  ASSUME TypeOK, HandInv, NEW w \in Worker, mark_worker(w)
  PROVE  \/ global' = global
         \/ TakeGlobal(w)
         \/ /\ Spill(w) /\ Child(w) \in Obj
            /\ Range(global') = Range(global) \cup {Child(w)}
<1>1. CASE Spill(w)
  <2>1. Child(w) \in Obj
    BY <1>1, ChildInObj DEF Spill, HandInv, HandOK, Child, TypeOK
  <2>2. Range(Append(global, Child(w))) = Range(global) \cup {Child(w)}
    <3>1. global \in Seq(Obj \cup {Null}) /\ Child(w) \in Obj \cup {Null}
      BY <2>1 DEF TypeOK
    <3>2. QED
      BY <3>1, RangeAppend
  <2>3. CASE Child(w) \in Range(global)
    BY <1>1, <2>3 DEF Spill
  <2>4. CASE Child(w) \notin Range(global)
    <3>1. global' = Append(global, Child(w))
      BY <1>1, <2>4 DEF Spill
    <3>2. QED
      BY <1>1, <2>1, <2>2, <3>1
  <2>5. QED
    BY <2>3, <2>4
<1>2. CASE ~Spill(w) /\ ~TakeGlobal(w)
  BY <1>2 DEF mark_worker, Search, Trace, Terminate, LoopTest, Pop, PopEmpty, PopLast,
         PopLastWin, PopLastLose, Steal, StealNothing, GlobalEmpty,
         Mark, SkipSlot, PushChild, Scanned, Leave, CheckGlobal,
         CheckDeque, Finish, WaitOver, Rejoin, queues
<1>3. QED
  BY <1>1, <1>2

(* A worker that finds the global queue filled leaves with an object. *)
LEMMA TakeGlobalTakes ==
  ASSUME TypeOK, GlobalInv, NEW w \in Worker, TakeGlobal(w)
  PROVE  /\ global[Len(global)] \in Obj
         /\ Range(global') \subseteq Range(global)
         /\ Range(global) \subseteq Range(global') \cup {global[Len(global)]}
         /\ pc'[w] = "mark" /\ obj'[w] = global[Len(global)]
<1>1. global \in Seq(Obj \cup {Null}) /\ global # <<>>
      /\ global' = SubSeq(global, 1, Len(global) - 1)
  BY DEF TypeOK, TakeGlobal
<1>2. global[Len(global)] \in Obj \cup {Null} /\ Len(global) \in DOMAIN global
  BY <1>1
<1>3. global[Len(global)] \in Obj
  BY <1>2 DEF GlobalInv, Range
<1>4. pc'[w] = "mark" /\ obj'[w] = global[Len(global)]
  BY <1>3, NullAssumption DEF TakeGlobal, Take, Go, TypeOK
<1>5. QED
  BY <1>1, <1>3, <1>4, RangeFront

(* While the global queue holds something, some counted worker has yet     *)
(* to look at it.                                                          *)
LEMMA GlobalStep ==
  ASSUME TypeOK, HandInv, GlobalInv, Next
  PROVE  GlobalInv'
<1>1. CASE ScanFrame
  <2>1. /\ shadow_stack' = shadow_stack /\ phase' = "scan"
        /\ global' = global \o shadow_stack[frame + 1]
        /\ frame + 1 \in DOMAIN shadow_stack
        /\ shadow_stack[frame + 1] \in Seq(Obj \cup {Null})
        /\ global \in Seq(Obj \cup {Null})
    BY <1>1 DEF ScanFrame, TypeOK
  <2>2. Range(global') = Range(global) \cup Range(shadow_stack[frame + 1])
    BY <2>1, RangeConcat
  <2>3. QED
    BY <2>1, <2>2 DEF GlobalInv, NoNullRoots
<1>2. CASE Start
  <2>1. 0 \in Worker
    BY WorkersAssumption DEF Worker
  <2>2. 0 \in Counted' /\ pc'[0] # "idle"
    BY <1>2, <2>1 DEF Start, Counted
  <2>3. QED
    BY <1>2, <2>2 DEF Start, GlobalInv, queues
<1>3. CASE Join
  BY <1>3 DEF Join, GlobalInv, queues
<1>4. ASSUME NEW w \in Worker, mark_worker(w) PROVE GlobalInv'
  <2> DEFINE Busy == {"loop", "pop", "popLast", "steal", "global", "mark", "scan", "spill"}
  <2>0. /\ UNCHANGED <<heap, shadow_stack, old, phase, frame>> /\ (done => done')
        /\ pc \in [Worker -> Label]
    BY <1>4, WorkerFrame DEF TypeOK
  <2>1. NoNullRoots(shadow_stack)' /\ Null \notin Range(global')
    BY <1>4, <2>0, WorkerGlobal, TakeGlobalTakes, NullAssumption DEF GlobalInv, NoNullRoots
  <2>2. ASSUME global' # <<>>, phase' = "mark", ~done'
        PROVE  \E u \in Worker : pc'[u] \in Busy
    <3>1. CASE pc'[w] \in Busy
      BY <3>1
    <3>2. CASE pc'[w] \notin Busy
      <4>1. ~TakeGlobal(w) /\ ~Spill(w)
        BY <3>2, TakeGlobalTakes, <2>0 DEF Spill, Go
      <4>2. global # <<>>
        BY <1>4, <2>2, <4>1, WorkerGlobal
      <4>3. PICK u \in Worker : pc[u] \in Busy
        BY <2>0, <2>2, <4>2 DEF GlobalInv, Counted
      <4>4. Terminate(w)
        <5>1. ~Trace(w)
          BY <3>2, <2>0 DEF Trace, Mark, SkipSlot, PushChild, Spill, Scanned, Go
        <5>2. ~Search(w)
          BY <3>2, <2>0, <2>2, <4>1, <4>2 DEF Search, LoopTest, Pop, PopEmpty, PopLast,
             PopLastWin, PopLastLose, Steal, StealNothing, GlobalEmpty, Take, Go
        <5>3. QED
          BY <1>4, <5>1, <5>2 DEF mark_worker
      <4>5. pc[w] \notin Busy /\ (u # w => pc'[u] = pc[u])
        BY <4>4, <2>0 DEF Terminate, Leave, CheckGlobal, CheckDeque, Finish,
                          WaitOver, Rejoin, Go
      <4>6. QED
        BY <4>3, <4>5
    <3>3. QED
      BY <3>1, <3>2
  <2>3. QED
    BY <2>1, <2>2 DEF GlobalInv, Counted
<1>5. QED
  BY <1>1, <1>2, <1>3, <1>4 DEF Next, Collector

-----------------------------------------------------------------------------
(* Nothing that was found is forgotten.                                    *)

(* An object another worker has in hand stays there. *)
LEMMA HandOther ==
  ASSUME NEW v \in Worker, heap' = heap, pc'[v] = pc[v], obj'[v] = obj[v],
         slot'[v] = slot[v]
  PROVE  InHand(v)' = InHand(v)
BY DEF InHand, Ahead

(* A step of one worker leaves alone what the others have in hand. *)
LEMMA OthersUntouched ==
  ASSUME TypeOK, NEW w \in Worker, mark_worker(w), NEW v \in Worker, v # w
  PROVE  InHand(v)' = InHand(v)
<1>0. /\ pc \in [Worker -> Label] /\ obj \in [Worker -> Obj \cup {Null}]
      /\ slot \in [Worker -> Nat]
  BY DEF TypeOK
<1>1. heap' = heap
  BY WorkerFrame DEF TypeOK
<1>2. pc'[v] = pc[v] /\ obj'[v] = obj[v] /\ slot'[v] = slot[v]
  <2>1. CASE Search(w)
    BY <1>0, <2>1 DEF Search, LoopTest, Pop, PopEmpty, PopLast, PopLastWin,
       PopLastLose, Steal, StealNothing, TakeGlobal, GlobalEmpty, Take, Go, locals
  <2>2. CASE Trace(w)
    BY <1>0, <2>2 DEF Trace, Mark, SkipSlot, PushChild, Spill, Scanned, Release,
       Go, locals
  <2>3. CASE Terminate(w)
    BY <1>0, <2>3 DEF Terminate, Leave, CheckGlobal, CheckDeque, Finish, WaitOver,
       Rejoin, Go, locals
  <2>4. QED
    BY <2>1, <2>2, <2>3 DEF mark_worker
<1>3. QED
  BY <1>1, <1>2, HandOther

(* A taken object is in the hand of the worker that took it. *)
LEMMA TakenInHand ==
  ASSUME TypeOK, NEW w \in Worker, NEW x, x # Null, NEW l, Take(w, x, l)
  PROVE  InHand(w)' = {x}
BY DEF Take, Go, InHand, TypeOK

(* What leaves a deque is in the hand of the worker afterwards. *)
LEMMA PushedKept ==
  ASSUME TypeOK, DequeInv, HandInv, NEW w \in Worker, mark_worker(w),
         NEW v \in Worker
  PROVE  Pushed(v) \subseteq Pushed(v)' \cup InHand(w)'
<1>0. DequeOK(v) /\ dq \in [Worker -> Seq(Obj \cup {Null})]
      /\ ghost \in [Worker -> BOOLEAN]
  BY DEF DequeInv, TypeOK
<1>k. ASSUME dq'[v] = dq[v], ghost'[v] = ghost[v]
      PROVE  Pushed(v) = Pushed(v)'
  BY <1>k DEF Pushed
<1>1. CASE Pop(w)
  <2>1. InHand(w)' = {dq[w][Len(dq[w])]}
    BY <1>1, PopDeque, TakenInHand, NullAssumption DEF Pop
  <2>2. v # w => dq'[v] = dq[v] /\ ghost'[v] = ghost[v]
    BY <1>0, <1>1 DEF Pop
  <2>3. QED
    BY <1>1, <1>k, <2>1, <2>2, PopDeque
<1>2. CASE PopLastWin(w)
  <2>1. dq[w][1] # Null => InHand(w)' = {dq[w][1]}
    BY <1>2, TakenInHand DEF PopLastWin
  <2>2. v # w => dq'[v] = dq[v] /\ ghost'[v] = ghost[v]
    BY <1>0, <1>2 DEF PopLastWin
  <2>3. QED
    BY <1>2, <1>k, <2>1, <2>2, PopLastDeque
<1>3. CASE PopLastLose(w)
  <2>1. v # w => dq'[v] = dq[v] /\ ghost'[v] = ghost[v]
    BY <1>0, <1>3 DEF PopLastLose
  <2>2. QED
    BY <1>3, <1>k, <2>1, LoseDeque
<1>4. ASSUME NEW u \in Worker, Steal(w, u)
      PROVE  Pushed(v) \subseteq Pushed(v)' \cup InHand(w)'
  <2>1. Head(dq[u]) # Null => InHand(w)' = {Head(dq[u])}
    BY <1>4, TakenInHand DEF Steal
  <2>2. v # u => dq'[v] = dq[v] /\ ghost'[v] = ghost[v]
    BY <1>0, <1>4 DEF Steal
  <2>3. QED
    BY <1>4, <1>k, <2>1, <2>2, StealDeque
<1>5. CASE PushChild(w) /\ Len(dq[w]) < Capacity - 1
  <2>1. v # w => dq'[v] = dq[v] /\ ghost'[v] = ghost[v]
    BY <1>0, <1>5 DEF PushChild
  <2>2. QED
    BY <1>5, <1>k, <2>1, PushDeque
<1>6. CASE ~(PushChild(w) /\ Len(dq[w]) < Capacity - 1) /\ ~Pop(w) /\ ~PopLastWin(w)
           /\ ~PopLastLose(w) /\ ~\E u \in Worker : Steal(w, u)
  <2>1. dq' = dq /\ ghost' = ghost
    BY <1>6 DEF mark_worker, Search, Trace, Terminate, LoopTest, PopEmpty, PopLast,
       StealNothing, TakeGlobal, GlobalEmpty, Mark, SkipSlot, PushChild, Spill,
       Scanned, Leave, CheckGlobal, CheckDeque, Finish, WaitOver, Rejoin, queues
  <2>2. QED
    BY <1>k, <2>1
<1>7. QED
  BY <1>1, <1>2, <1>3, <1>4, <1>5, <1>6

(* What a worker has in hand is marked, pushed, spilled or still in hand. *)
LEMMA HandKeptOn ==
  ASSUME TypeOK, DequeInv, HandInv, NEW w \in Worker, mark_worker(w)
  PROVE  InHand(w) \subseteq marked' \cup InHand(w)' \cup Pushed(w)'
<1>0. /\ pc \in [Worker -> Label] /\ obj \in [Worker -> Obj \cup {Null}]
      /\ slot \in [Worker -> Nat] /\ HandOK(w)
  BY DEF TypeOK, HandInv
<1>1. CASE Search(w) \/ Terminate(w)
  <2>1. pc[w] \notin {"mark", "scan", "spill"}
    BY <1>1 DEF Search, LoopTest, Pop, PopEmpty, PopLast, PopLastWin,
       PopLastLose, Steal, StealNothing, TakeGlobal, GlobalEmpty,
       Terminate, Leave, CheckGlobal, CheckDeque, Finish, WaitOver, Rejoin
  <2>2. QED
    BY <2>1 DEF InHand
<1>2. CASE Mark(w)
  BY <1>2 DEF Mark, InHand
<1>3. CASE SkipSlot(w)
  <2>1. /\ heap' = heap /\ obj'[w] = obj[w] /\ slot'[w] = slot[w] + 1
        /\ pc[w] = "scan" /\ pc'[w] = "scan"
        /\ ~IsChild(heap[obj[w]][slot[w]])
    BY <1>0, <1>3 DEF SkipSlot
  <2>2. Len(heap[obj[w]]) \in Nat
    BY <1>0, <2>1 DEF TypeOK, HandOK
  <2>3. Ahead(w) \subseteq Ahead(w)'
    BY <1>0, <2>1, <2>2 DEF Ahead
  <2>4. QED
    BY <2>1, <2>3 DEF InHand
<1>4. CASE PushChild(w) /\ Len(dq[w]) < Capacity - 1
  <2>1. /\ heap' = heap /\ obj'[w] = obj[w] /\ slot'[w] = slot[w] + 1
        /\ pc[w] = "scan" /\ pc'[w] = "scan"
    BY <1>0, <1>4 DEF PushChild
  <2>2. Len(heap[obj[w]]) \in Nat
    BY <1>0, <2>1 DEF TypeOK, HandOK
  <2>3. Ahead(w) \subseteq Ahead(w)' \cup {Child(w)}
    BY <1>0, <2>1, <2>2 DEF Ahead, Child
  <2>4. QED
    BY <1>4, <2>1, <2>3, PushDeque DEF InHand
<1>5. CASE (PushChild(w) /\ ~(Len(dq[w]) < Capacity - 1)) \/ Spill(w)
  <2>1. /\ heap' = heap /\ obj' = obj /\ slot' = slot
        /\ pc[w] \in {"scan", "spill"} /\ pc'[w] \in {"scan", "spill"}
    BY <1>0, <1>5 DEF PushChild, Spill, Go, locals
  <2>2. QED
    BY <2>1 DEF InHand, Ahead
<1>6. CASE Scanned(w)
  <2>1. pc[w] = "scan" /\ slot[w] > Len(heap[obj[w]])
    BY <1>6 DEF Scanned
  <2>2. Len(heap[obj[w]]) \in Nat /\ slot[w] \in Nat
    BY <1>0, <2>1 DEF TypeOK, HandOK
  <2>3. Ahead(w) = {}
    BY <2>1, <2>2 DEF Ahead
  <2>4. QED
    BY <2>1, <2>3 DEF InHand
<1>7. QED
  BY <1>1, <1>2, <1>3, <1>4, <1>5, <1>6 DEF mark_worker, Trace

(* The slots the tracing loop does not skip hold exactly the children. *)
LEMMA ChildrenAre ==
  ASSUME NEW o
  PROVE  Children(o) =
           {heap[o][i].val : i \in {j \in DOMAIN heap[o] : IsChild(heap[o][j])}}
BY DEF Children, IsChild

(* Whoever sets an object's mark bit has all of its children ahead. *)
LEMMA MarkFinds ==
  ASSUME TypeOK, HandInv, NEW w \in Worker, Mark(w), NEW o \in marked' \ marked
  PROVE  Children(o) = InHand(w)'
<1>1. o = obj[w] /\ obj[w] \notin marked
  BY DEF Mark
<1>2. /\ heap' = heap /\ obj'[w] = obj[w] /\ slot'[w] = 1 /\ pc'[w] = "scan"
  BY <1>1 DEF Mark, Go, TypeOK
<1>3. obj[w] \in Obj /\ DOMAIN heap[obj[w]] = 1 .. Len(heap[obj[w]])
  BY DEF Mark, HandInv, HandOK, TypeOK
<1>4. InHand(w)' = Ahead(w)'
  BY <1>2 DEF InHand
<1>5. QED
  BY <1>1, <1>2, <1>3, <1>4, ChildrenAre DEF Ahead

(* Mark bits are only ever set while marking. *)
LEMMA MarkedGrows ==
  ASSUME NEW w \in Worker, mark_worker(w)
  PROVE  marked \subseteq marked' /\ (marked' = marked \/ Mark(w))
<1>1. CASE Search(w)
  BY <1>1 DEF Search, LoopTest, Pop, PopEmpty, PopLast, PopLastWin,
       PopLastLose, Steal, StealNothing, TakeGlobal, GlobalEmpty, Take
<1>2. CASE Trace(w)
  BY <1>2 DEF Trace, Mark, SkipSlot, PushChild, Spill, Scanned
<1>3. CASE Terminate(w)
  BY <1>3 DEF Terminate, Leave, CheckGlobal, CheckDeque, Finish, WaitOver, Rejoin
<1>4. QED
  BY <1>1, <1>2, <1>3 DEF mark_worker

(* No step loses a grey object: it is marked, or handed from one queue     *)
(* or hand to another.                                                     *)
LEMMA GreyStep ==
  ASSUME TypeOK, PhaseInv, HandInv, DequeInv, GlobalInv, GreyInv, Next
  PROVE  GreyInv'
<1>1. CASE Collector
  <2>1. /\ heap' = heap /\ shadow_stack' = shadow_stack
        /\ old' = old /\ marked' = marked
        /\ Range(global) \subseteq Range(global')
        /\ RootsOf(frame)' \subseteq RootsOf(frame) \cup Range(global')
    <3>1. CASE ScanFrame
      <4>1. /\ shadow_stack' = shadow_stack /\ frame' = frame + 1 /\ frame \in Nat
            /\ global' = global \o shadow_stack[frame + 1]
            /\ shadow_stack[frame + 1] \in Seq(Obj \cup {Null})
            /\ global \in Seq(Obj \cup {Null})
        BY <3>1 DEF ScanFrame, TypeOK
      <4>2. Range(global') = Range(global) \cup Range(shadow_stack[frame + 1])
        BY <4>1, RangeConcat
      <4>3. 1 .. frame + 1 = (1 .. frame) \cup {frame + 1}
        BY <4>1
      <4>4. RootsOf(frame + 1) \subseteq RootsOf(frame) \cup Range(shadow_stack[frame + 1])
        BY <4>3 DEF RootsOf
      <4>5. RootsOf(frame)' = RootsOf(frame + 1)
        BY <4>1 DEF RootsOf
      <4>6. QED
        BY <3>1, <4>2, <4>4, <4>5 DEF ScanFrame
    <3>2. CASE Start \/ Join
      BY <3>2 DEF Start, Join, queues, RootsOf
    <3>3. QED
      BY <1>1, <3>1, <3>2 DEF Collector
  <2>2. \A v \in Worker : Pushed(v)' = Pushed(v)
    BY <1>1, CollectorDeque
  <2>3. \A v \in Worker : InHand(v)' = InHand(v)
    <3>1. CASE ScanFrame \/ Join
      BY <3>1, HandOther DEF ScanFrame, Join, locals
    <3>2. CASE Start
      <4>1. \A v \in Worker : InHand(v) = {} /\ InHand(v)' = {}
        BY <3>2 DEF Start, InHand, PhaseInv
      <4>2. QED
        BY <4>1
    <3>3. QED
      BY <1>1, <3>1, <3>2 DEF Collector
  <2>4. Pending \subseteq Pending'
    BY <2>1, <2>2, <2>3 DEF Pending
  <2>5. UNION {Children(o) : o \in marked \ old}' = UNION {Children(o) : o \in marked \ old}
    BY <2>1 DEF Children
  <2>6. Found' \subseteq Found \cup Range(global')
    BY <2>1, <2>5 DEF Found
  <2>7. QED
    BY <2>1, <2>4, <2>6 DEF GreyInv, Pending
<1>2. ASSUME NEW w \in Worker, mark_worker(w) PROVE GreyInv'
  <2>0. /\ heap' = heap /\ shadow_stack' = shadow_stack /\ old' = old
        /\ frame' = frame
    BY <1>2, WorkerFrame DEF TypeOK
  <2>1. InHand(w)' \subseteq Pending' /\ \A v \in Worker : Pushed(v)' \subseteq Pending'
    BY DEF Pending
  <2>2. \A v \in Worker : Pushed(v) \subseteq Pending'
    BY <1>2, <2>1, PushedKept
  <2>3. \A v \in Worker : InHand(v) \subseteq marked' \cup Pending'
    <3>1. \A v \in Worker : v # w => InHand(v) \subseteq Pending'
      BY <1>2, OthersUntouched DEF Pending
    <3>2. InHand(w) \subseteq marked' \cup Pending'
      BY <1>2, <2>1, HandKeptOn
    <3>3. QED
      BY <3>1, <3>2
  <2>4. Range(global) \subseteq Pending'
    <3>1. CASE TakeGlobal(w)
      <4>1. InHand(w)' = {global[Len(global)]}
        BY <3>1, TakeGlobalTakes DEF InHand
      <4>2. QED
        BY <3>1, <4>1, <2>1, TakeGlobalTakes DEF Pending
    <3>2. CASE ~TakeGlobal(w)
      BY <1>2, <3>2, WorkerGlobal DEF Pending
    <3>3. QED
      BY <3>1, <3>2
  <2>5. marked \cup Pending \subseteq marked' \cup Pending'
    BY <1>2, <2>2, <2>3, <2>4, MarkedGrows DEF Pending
  <2>6. Found' \subseteq Found \cup Pending'
    <3>1. RootsOf(frame)' = RootsOf(frame)
      BY <2>0 DEF RootsOf
    <3>2. \A o : Children(o)' = Children(o)
      BY <2>0 DEF Children
    <3>3. ASSUME NEW o \in marked' \ old PROVE Children(o) \subseteq Found \cup Pending'
      <4>1. CASE o \in marked
        BY <4>1 DEF Found
      <4>2. CASE o \notin marked
        BY <1>2, <4>2, <2>1, <3>3, MarkedGrows, MarkFinds
      <4>3. QED
        BY <4>1, <4>2
    <3>4. QED
      <4>1. old' = old
        BY <2>0
      <4>2. ASSUME NEW r \in Found', r \notin RootsOf(frame)'
            PROVE  \E o \in marked' \ old : r \in Children(o)
        BY <3>2, <4>1, <4>2 DEF Found
      <4>3. QED
        BY <3>1, <3>3, <4>2 DEF Found
  <2>7. QED
    BY <2>5, <2>6 DEF GreyInv
<1>3. QED
  BY <1>1, <1>2 DEF Next

-----------------------------------------------------------------------------
(* The verdict.                                                            *)

(* The closed sets that a search is the least of.                          *)
LEMMA ClosedSets ==
  ASSUME NEW from \in SUBSET Obj
  PROVE  Closed(from) = {S \in SUBSET Obj :
                           from \subseteq S /\ \A o \in S \ old : Children(o) \subseteq S}
<1> DEFINE larger == {from \cup more : more \in SUBSET (Obj \ from)}
           next == [o \in Obj \ old |-> Children(o)]
<1>1. ASSUME NEW S \in SUBSET Obj, from \subseteq S
      PROVE  S \in larger
  <2>1. S = from \cup (S \ from) /\ S \ from \in SUBSET (Obj \ from)
    BY <1>1
  <2>2. QED
    BY <2>1
<1>2. \A S \in larger : S \in SUBSET Obj /\ from \subseteq S
  OBVIOUS
<1>3. \A S \in SUBSET Obj : \A o \in S \ old : next[o] = Children(o)
  OBVIOUS
<1>4. Closed(from) = {S \in larger : \A o \in S \ old : next[o] \subseteq S}
  BY DEF Closed
<1> HIDE DEF larger, next
<1>5. QED
  BY <1>1, <1>2, <1>3, <1>4

(* The mutator is stopped, so what is to be found does not change. *)
LEMMA TracedFixed ==
  ASSUME UNCHANGED <<heap, shadow_stack, old>>
  PROVE  Traced' = Traced /\ Findable' = Findable
<1>1. Roots' = Roots /\ \A o \in Obj : Children(o)' = Children(o)
  BY DEF Roots, RootsOf, Children
<1>2. Closed(Roots)' = Closed(Roots) /\ Closed(Roots \cup Stale)' = Closed(Roots \cup Stale)
  <2> DEFINE next == [o \in Obj \ old |-> Children(o)]
             keeps(S) == \A o \in S \ old : next[o] \subseteq S
             larger(from) == {from \cup more : more \in SUBSET (Obj \ from)}
  <2>1. next' = next
    BY <1>1
  <2> HIDE DEF next
  <2>2. \A S : keeps(S)' <=> keeps(S)
    BY <2>1
  <2>3. larger(Roots)' = larger(Roots) /\ larger(Roots \cup Stale)' = larger(Roots \cup Stale)
    BY <1>1
  <2>4. /\ Closed(Roots) = {S \in larger(Roots) : keeps(S)}
        /\ Closed(Roots \cup Stale) = {S \in larger(Roots \cup Stale) : keeps(S)}
    BY DEF Closed, next
  <2>5. /\ Closed(Roots)' = {S \in larger(Roots)' : keeps(S)'}
        /\ Closed(Roots \cup Stale)' = {S \in larger(Roots \cup Stale)' : keeps(S)'}
    BY DEF Closed, next
  <2> HIDE DEF keeps, larger
  <2>6. QED
    BY <2>2, <2>3, <2>4, <2>5
<1>3. QED
  BY <1>2 DEF Traced, Findable, FoundFrom

(* The last worker that still counts leaves: the others wait or have been  *)
(* looking, and no queue holds anything that was pushed.                   *)
LEMMA LastAlone ==
  ASSUME MarkingInv, NEW w \in Worker, Leave(w), active = 1, ~done
  PROVE  /\ frame = Len(shadow_stack)
         /\ \A v \in Worker : v = w \/ v \in Uncounted
         /\ \A v \in Worker : Pushed(v) = {}
         /\ global = <<>>
<1>1. pc[w] = "idle" /\ w \in Counted
  BY DEF Leave, Counted
<1>2. Counted = {w}
  <2>1. Cardinality(Counted) = 1 /\ IsFiniteSet(Counted)
    BY CountedFinite DEF MarkingInv, ActiveInv
  <2>2. QED
    BY <1>1, <2>1, FS_Singleton
<1>3. phase = "mark" /\ frame = Len(shadow_stack)
  <2>1. phase # "scan"
    BY <1>1 DEF MarkingInv, PhaseInv
  <2>2. QED
    BY <2>1 DEF MarkingInv, PhaseInv, TypeOK
<1>4. \A v \in Worker : v = w \/ v \in Uncounted
  <2>1. \A v \in Worker : pc[v] # "exit" /\ pc[v] \in Label
    BY <1>3 DEF MarkingInv, PhaseInv, TypeOK
  <2>2. QED
    BY <1>2, <2>1 DEF Counted, Uncounted, Label
<1>5. \A v \in Worker : Pushed(v) = {}
  BY <1>1, <1>4 DEF MarkingInv, IdleInv
<1>6. global = <<>>
  BY <1>1, <1>2, <1>3 DEF MarkingInv, GlobalInv
<1>7. QED
  BY <1>3, <1>4, <1>5, <1>6

(* So nothing is pending any more, and what can be reached is marked.      *)
LEMMA LastLeaves ==
  ASSUME MarkingInv, NEW w \in Worker, Leave(w), active = 1, ~done
  PROVE  Traced \subseteq marked
<1>1. pc[w] = "idle"
  BY DEF Leave
<1>2. /\ frame = Len(shadow_stack)
      /\ \A v \in Worker : v = w \/ v \in Uncounted
      /\ \A v \in Worker : Pushed(v) = {}
  BY LastAlone
<1>3. \A v \in Worker : InHand(v) = {}
  BY <1>1, <1>2 DEF InHand, Uncounted
<1>4. Range(global) = {}
  BY LastAlone DEF Range
<1>5. Found \subseteq marked
  BY <1>2, <1>3, <1>4 DEF MarkingInv, GreyInv, Pending
<1>6. marked \in Closed(Roots)
  <2>1. /\ Roots \subseteq marked /\ marked \subseteq Obj
        /\ \A o \in marked \ old : Children(o) \subseteq marked
    BY <1>2, <1>5 DEF Found, Roots, MarkingInv, TypeOK
  <2>2. Closed(Roots) = {S \in SUBSET Obj :
                          Roots \subseteq S /\ \A o \in S \ old : Children(o) \subseteq S}
    BY <2>1, ClosedSets
  <2>3. QED
    BY <2>1, <2>2
<1>7. QED
  BY <1>6 DEF Traced, FoundFrom

(* A worker reaches the emptiness checks only when everything reachable    *)
(* is marked, and then it stays so.                                        *)
LEMMA VerdictStep ==
  ASSUME MarkingInv, Next
  PROVE  VerdictInv'
<1>1. CASE Collector
  <2>1. marked' = marked /\ Traced' = Traced
    BY <1>1, TracedFixed DEF Collector, ScanFrame, Start, Join
  <2>2. /\ phase' # "scan" /\ done' => phase # "scan" /\ done
        /\ \A v \in Worker : pc'[v] \in {"checkGlobal", "checkDeques"} => pc'[v] = pc[v]
    BY <1>1 DEF Collector, ScanFrame, Start, Join
  <2>3. QED
    BY <2>1, <2>2 DEF MarkingInv, VerdictInv
<1>2. ASSUME NEW w \in Worker, mark_worker(w) PROVE VerdictInv'
  <2>0. /\ Traced' = Traced /\ marked \subseteq marked' /\ pc \in [Worker -> Label]
        /\ phase # "scan"
    BY <1>2, WorkerRuns, WorkerFrame, TracedFixed, MarkedGrows DEF MarkingInv, TypeOK
  <2>1. CASE Leave(w) /\ active = 1 /\ ~done
    BY <2>0, <2>1, LastLeaves DEF VerdictInv
  <2>2. CASE ~(Leave(w) /\ active = 1 /\ ~done)
    <3>1. CASE done
      BY <2>0, <3>1 DEF MarkingInv, VerdictInv
    <3>2. CASE ~done
      <4>1. ASSUME ~(Traced \subseteq marked)
            PROVE  ~done' /\ \A v \in Worker : pc'[v] \notin {"checkGlobal", "checkDeques"}
        <5>1. \A v \in Worker : pc[v] \notin {"checkGlobal", "checkDeques"}
          BY <4>1 DEF MarkingInv, VerdictInv
        <5>2. CASE Search(w)
          BY <5>1, <5>2, <2>0, <3>2 DEF Search, LoopTest, Pop, PopEmpty, PopLast,
             PopLastWin, PopLastLose, Steal, StealNothing, TakeGlobal, GlobalEmpty,
             Take, Go
        <5>3. CASE Trace(w)
          BY <5>1, <5>3, <2>0, <3>2 DEF Trace, Mark, SkipSlot, PushChild, Spill,
             Scanned, Go
        <5>4. CASE Terminate(w)
          BY <5>1, <5>4, <2>0, <2>2, <3>2 DEF Terminate, Leave, CheckGlobal,
             CheckDeque, Finish, WaitOver, Rejoin, Go
        <5>5. QED
          BY <1>2, <5>2, <5>3, <5>4 DEF mark_worker
      <4>2. QED
        BY <2>0, <4>1 DEF VerdictInv
    <3>3. QED
      BY <3>1, <3>2
  <2>3. QED
    BY <2>1, <2>2
<1>3. QED
  BY <1>1, <1>2 DEF Next

-----------------------------------------------------------------------------
(* The theorems.  Null roots are excluded; the run that includes one shows *)
(* why.  Pointers left over from earlier collections are not.              *)

(* What the queues hold when a collection begins. *)
LEMMA InitQueues ==
  ASSUME Init
  PROVE  /\ global \in Seq(Stale) /\ Null \notin Range(global)
         /\ \A w \in Worker : Remainder(dq[w], Stale) /\ (ghost[w] <=> dq[w] # <<>>)
         /\ global \in Seq(Obj \cup {Null}) /\ dq \in [Worker -> Seq(Obj \cup {Null})]
<1>1. global \in Seq(Stale)
  BY LeftAssumption DEF Init
<1>2. Null \notin Range(global)
  BY <1>1, StaleAssumption, NullAssumption DEF Range
<1>3. \A w \in Worker : Remainder(dq[w], Stale) /\ (ghost[w] <=> dq[w] # <<>>)
  BY LeftAssumption DEF Init
<1>4. global \in Seq(Obj \cup {Null})
  BY <1>1, StaleAssumption
<1>5. \A w \in Worker : dq[w] \in Seq(Obj \cup {Null})
  BY <1>3, StaleAssumption DEF Remainder
<1>6. dq \in [Worker -> Seq(Obj \cup {Null})]
  BY <1>5 DEF Init
<1>7. QED
  BY <1>1, <1>2, <1>3, <1>4, <1>6

(* The initial states are well-typed. *)
LEMMA InitType ==
  ASSUME Init
  PROVE  TypeOK
<1>1. /\ heap \in [Obj -> Seq(Word)] /\ shadow_stack \in Seq(Seq(Obj \cup {Null}))
      /\ old \subseteq marked /\ marked \subseteq Obj
  BY HeapsAssumption, StacksAssumption, LeftAssumption DEF Init
<1>2. frame \in 0 .. Len(shadow_stack)
  BY <1>1 DEF Init
<1>3. global \in Seq(Obj \cup {Null}) /\ dq \in [Worker -> Seq(Obj \cup {Null})]
  BY InitQueues
<1>4. spent \in [Worker -> SUBSET (Obj \cup {Null})]
  BY StaleAssumption DEF Init
<1>5. pc \in [Worker -> Label]
  BY DEF Init, Label
<1>6. active \in 0 .. NUM_WORKERS /\ chk \in [Worker -> 0 .. NUM_WORKERS]
  BY WorkersAssumption DEF Init
<1>7. QED
  BY <1>1, <1>2, <1>3, <1>4, <1>5, <1>6 DEF Init, TypeOK

(* The inductive invariant holds when a collection begins. *)
LEMMA InitInv ==
  ASSUME \A s \in Stacks : NoNullRoots(s), Init
  PROVE  MarkingInv
<1>1. \A w \in Worker : pc[w] = "exit"
  BY DEF Init
<1>2. Counted = {} /\ Uncounted = {}
  BY <1>1 DEF Counted, Uncounted
<1>3. TypeOK
  BY InitType
<1>4. ActiveInv
  BY <1>2, FS_EmptySet, WorkersAssumption DEF Init, ActiveInv
<1>5. PhaseInv /\ HandInv /\ VerdictInv
  BY <1>1 DEF Init, PhaseInv, HandInv, HandOK, VerdictInv
<1>6. DequeInv /\ IdleInv
  <2>1. IdleInv
    BY <1>1, <1>2 DEF IdleInv
  <2>2. ASSUME NEW w \in Worker PROVE DequeOK(w)
    <3>1. (ghost[w] <=> dq[w] # <<>>) /\ Remainder(dq[w], Stale)
      BY InitQueues
    <3>2. ASSUME NEW i \in 1 .. Len(dq[w]), i > 1 \/ ~ghost[w]
          PROVE  dq[w][i] # Null
      <4>1. dq[w] \in Seq(Stale \cup {Null}) /\ \A j \in 2 .. Len(dq[w]) : dq[w][j] # Null
        BY <3>1 DEF Remainder
      <4>2. dq[w] # <<>>
        BY <4>1, <3>2
      <4>3. i > 1
        BY <3>1, <3>2, <4>2
      <4>4. i \in 2 .. Len(dq[w])
        BY <4>1, <4>3
      <4>5. QED
        BY <4>1, <4>4
    <3>3. QED
      BY <1>1, <3>1, <3>2 DEF DequeOK
  <2>3. QED
    BY <2>1, <2>2 DEF DequeInv
<1>7. GreyInv
  BY DEF Init, GreyInv, Found, RootsOf
<1>8. GlobalInv
  BY InitQueues DEF Init, GlobalInv
<1>9. QED
  BY <1>3, <1>4, <1>5, <1>6, <1>7, <1>8 DEF MarkingInv

(* The inductive invariant is inductive. *)
LEMMA StepInv ==
  ASSUME MarkingInv, [Next]_vars
  PROVE  MarkingInv'
<1>1. CASE Next
  <2>1. /\ TypeOK /\ ActiveInv /\ PhaseInv /\ HandInv /\ DequeInv
        /\ GreyInv /\ IdleInv /\ GlobalInv
    BY DEF MarkingInv
  <2>2. ActiveOK' /\ ActiveInv'
    BY <1>1, <2>1, ActiveStep DEF ActiveOK
  <2>3. TypeOK'
    BY <1>1, <2>1, <2>2, TypeStep
  <2>4. PhaseInv' /\ HandInv' /\ DequeInv' /\ IdleInv' /\ GlobalInv' /\ GreyInv'
    BY <1>1, <2>1, PhaseStep, HandStep, DequeStep, IdleStep, GlobalStep, GreyStep
  <2>5. VerdictInv'
    BY <1>1, VerdictStep
  <2>6. QED
    BY <2>2, <2>3, <2>4, <2>5 DEF MarkingInv
<1>2. CASE UNCHANGED vars
  <2> USE <1>2 DEF vars, queues, locals
  <2>1. TypeOK' = TypeOK /\ PhaseInv' = PhaseInv
    BY DEF TypeOK, PhaseInv
  <2>2. Counted' = Counted /\ Uncounted' = Uncounted
    BY DEF Counted, Uncounted
  <2>3. ActiveInv' = ActiveInv
    BY <2>2 DEF ActiveInv
  <2>4. HandInv' = HandInv /\ DequeInv' = DequeInv
    BY DEF HandInv, HandOK, DequeInv, DequeOK
  <2>5. \A w \in Worker : Pushed(w)' = Pushed(w) /\ InHand(w)' = InHand(w)
    BY DEF Pushed, InHand, Ahead
  <2>6. Found' = Found /\ Pending' = Pending
    BY <2>5 DEF Found, RootsOf, Children, Pending
  <2>7. GreyInv' = GreyInv /\ IdleInv' = IdleInv
    BY <2>2, <2>5, <2>6 DEF GreyInv, IdleInv
  <2>8. GlobalInv' = GlobalInv
    BY <2>2 DEF GlobalInv, NoNullRoots
  <2>9. VerdictInv' = VerdictInv
    BY TracedFixed DEF VerdictInv
  <2>10. QED
    BY <2>1, <2>3, <2>4, <2>7, <2>8, <2>9 DEF MarkingInv
<1>3. QED
  BY <1>1, <1>2

(* The inductive invariant holds in every reachable state. *)
THEOREM Invariance ==
  ASSUME \A s \in Stacks : NoNullRoots(s)
  PROVE  Spec => []MarkingInv
<1>1. Init => MarkingInv
  BY InitInv
<1>2. MarkingInv /\ [Next]_vars => MarkingInv'
  BY StepInv
<1>3. QED
  BY <1>1, <1>2, PTL DEF Spec

(* marking_done is set only when everything reachable is marked. *)
THEOREM DoneIsSound ==
  ASSUME \A s \in Stacks : NoNullRoots(s)
  PROVE  Spec => []DoneMeansMarked
<1>1. MarkingInv => DoneMeansMarked
  BY DEF MarkingInv, VerdictInv, DoneMeansMarked
<1>2. QED
  BY <1>1, Invariance, PTL

(* mark() never returns with a reachable object unmarked, whatever the     *)
(* deques' capacity and whatever earlier collections left in their slots.  *)
THEOREM MarkingIsComplete ==
  ASSUME \A s \in Stacks : NoNullRoots(s)
  PROVE  Spec => []NothingMissed
<1>1. MarkingInv => NothingMissed
  BY DEF MarkingInv, VerdictInv, PhaseInv, NothingMissed
<1>2. QED
  BY <1>1, Invariance, PTL

-----------------------------------------------------------------------------
(* What holds with null roots as well.                                     *)

BaseInv == TypeOK /\ ActiveInv /\ PhaseInv /\ HandInv

(* Initially the base invariant holds, null roots or not. *)
LEMMA BaseInit ==
  ASSUME Init
  PROVE  BaseInv
<1>1. \A w \in Worker : pc[w] = "exit"
  BY DEF Init
<1>2. Counted = {} /\ Uncounted = {}
  BY <1>1 DEF Counted, Uncounted
<1>3. ActiveInv
  BY <1>2, FS_EmptySet, WorkersAssumption DEF Init, ActiveInv
<1>4. PhaseInv /\ HandInv
  BY <1>1 DEF Init, PhaseInv, HandInv, HandOK
<1>5. QED
  BY <1>3, <1>4, InitType DEF BaseInv

(* Every step keeps the base invariant, null roots or not. *)
LEMMA BaseStep ==
  ASSUME BaseInv, [Next]_vars
  PROVE  BaseInv'
<1>1. CASE Next
  <2>1. ActiveOK' /\ ActiveInv'
    BY <1>1, ActiveStep DEF ActiveOK, BaseInv
  <2>2. QED
    BY <1>1, <2>1, TypeStep, PhaseStep, HandStep DEF BaseInv
<1>2. CASE UNCHANGED vars
  <2> USE <1>2 DEF vars, queues, locals
  <2>1. Counted' = Counted /\ Uncounted' = Uncounted
    BY DEF Counted, Uncounted
  <2>2. TypeOK' = TypeOK /\ PhaseInv' = PhaseInv /\ HandInv' = HandInv
    BY DEF TypeOK, PhaseInv, HandInv, HandOK
  <2>3. ActiveInv' = ActiveInv
    BY <2>1 DEF ActiveInv
  <2>4. QED
    BY <2>2, <2>3 DEF BaseInv
<1>3. QED
  BY <1>1, <1>2

(* The part of the invariant that needs no assumption about the roots. *)
LEMMA BaseInvariance == Spec => []BaseInv
<1>1. Init => BaseInv
  BY BaseInit
<1>2. BaseInv /\ [Next]_vars => BaseInv'
  BY BaseStep
<1>3. QED
  BY <1>1, <1>2, PTL DEF Spec

(* Types: in particular active_workers, an unsigned counter, is never      *)
(* decremented below zero nor incremented past the number of workers.      *)
THEOREM TypeCorrect == Spec => []TypeOK
<1>1. BaseInv => TypeOK
  BY DEF BaseInv
<1>2. QED
  BY <1>1, BaseInvariance, PTL

(* What scan() queues is a root. *)
LEMMA RootIn ==
  ASSUME NEW r
  PROVE  r \in Roots <=>
           r # Null /\ \E i \in 1 .. Len(shadow_stack) : r \in Range(shadow_stack[i])
<1> DEFINE R(i) == Range(shadow_stack[i])
<1>1. r \in UNION {R(i) : i \in 1 .. Len(shadow_stack)} <=>
        \E i \in 1 .. Len(shadow_stack) : r \in R(i)
  <2> HIDE DEF R
  <2>1. QED
    OBVIOUS
<1>2. QED
  BY <1>1 DEF Roots, RootsOf

(* Roots and children are allocated objects. *)
LEMMA RootsAndChildren ==
  ASSUME TypeOK
  PROVE  Roots \subseteq Obj /\ \A o \in Obj : Children(o) \subseteq Obj
<1>1. Roots \subseteq Obj
  <2>1. ASSUME NEW i \in 1 .. Len(shadow_stack)
        PROVE  Range(shadow_stack[i]) \subseteq Obj \cup {Null}
    <3>1. shadow_stack[i] \in Seq(Obj \cup {Null})
      BY <2>1 DEF TypeOK
    <3>2. QED
      BY <3>1 DEF Range
  <2>2. ASSUME NEW r \in Roots PROVE r \in Obj
    <3>1. PICK i \in 1 .. Len(shadow_stack) : r \in Range(shadow_stack[i])
      BY RootIn
    <3>2. r # Null
      BY DEF Roots, RootsOf
    <3>3. QED
      BY <2>1, <3>1, <3>2
  <2>3. QED
    BY <2>2
<1>2. ASSUME NEW o \in Obj PROVE Children(o) \subseteq Obj
  <2> SUFFICES ASSUME NEW i \in DOMAIN heap[o], IsChild(heap[o][i])
               PROVE  heap[o][i].val \in Obj
    BY ChildrenAre
  <2>1. i \in Nat /\ i > 0 /\ i <= Len(heap[o]) /\ heap \in [Obj -> Seq(Word)]
    BY DEF TypeOK
  <2>2. QED
    BY <2>1, ChildInObj
<1>3. QED
  BY <1>1, <1>2

(* The roots are found, and so are the children of what is found and was   *)
(* not marked before.                                                      *)
LEMMA FindableClosed ==
  ASSUME TypeOK
  PROVE  /\ Findable \subseteq Obj
         /\ Roots \cup Stale \subseteq Findable
         /\ \A o \in Findable \ old : Children(o) \subseteq Findable
<1>1. Roots \cup Stale \subseteq Obj /\ \A o \in Obj : Children(o) \subseteq Obj
  BY RootsAndChildren, StaleAssumption
<1>2. ASSUME NEW S \in Closed(Roots \cup Stale)
      PROVE  Roots \cup Stale \subseteq S /\ \A o \in S \ old : Children(o) \subseteq S
  BY <1>1, <1>2, ClosedSets
<1>3. ASSUME NEW o \in Findable \ old PROVE Children(o) \subseteq Findable
  BY <1>1, <1>2, <1>3 DEF Findable, FoundFrom
<1>4. Roots \cup Stale \subseteq Findable
  BY <1>1, <1>2 DEF Findable, FoundFrom
<1>5. QED
  BY <1>3, <1>4 DEF Findable, FoundFrom

(* What a worker takes from a queue is reachable or null. *)
LEMMA FindableTaken ==
  ASSUME ReachInv, TypeOK, Findable' = Findable, NEW w \in Worker,
         NEW x \in Findable \cup {Null}, NEW l, Take(w, x, l),
         Range(global') \subseteq Range(global),
         \A v \in Worker : Range(dq'[v]) \subseteq Range(dq[v])
  PROVE  ReachInv'
<1>1. \A v \in Worker : spent'[v] = spent[v] /\ obj'[v] \in {x, obj[v]}
  BY DEF Take, TypeOK
<1>2. marked' = marked
  BY DEF Take
<1>3. old' = old
  BY DEF Take
<1>4. QED
  BY <1>1, <1>2, <1>3 DEF ReachInv

(* With clean ring slots, the queues, the hands and the mark bits hold     *)
(* reachable objects only.                                                 *)
LEMMA ReachStep ==
  ASSUME BaseInv, ReachInv, Next
  PROVE  ReachInv'
<1>0. /\ dq \in [Worker -> Seq(Obj \cup {Null})] /\ obj \in [Worker -> Obj \cup {Null}]
      /\ spent \in [Worker -> SUBSET (Obj \cup {Null})]
      /\ global \in Seq(Obj \cup {Null})
      /\ TypeOK /\ HandInv
  BY DEF BaseInv, TypeOK
<1>l. Findable' = Findable
  <2>1. heap' = heap /\ shadow_stack' = shadow_stack /\ old' = old
    BY WorkerFrame, <1>0 DEF Next, Collector, ScanFrame, Start, Join, TypeOK
  <2>2. QED
    BY <2>1, TracedFixed
<1>1. CASE ScanFrame
  <2>1. /\ frame + 1 \in DOMAIN shadow_stack
        /\ shadow_stack[frame + 1] \in Seq(Obj \cup {Null})
        /\ global' = global \o shadow_stack[frame + 1]
    BY <1>0, <1>1 DEF ScanFrame, TypeOK
  <2>2. Range(shadow_stack[frame + 1]) \subseteq Findable \cup {Null}
    <3>1. Range(shadow_stack[frame + 1]) \subseteq Roots \cup {Null}
      <4>1. frame + 1 \in 1 .. Len(shadow_stack)
        BY <1>0, <2>1 DEF TypeOK
      <4>2. QED
        BY <4>1, RootIn
    <3>2. QED
      BY <1>0, <3>1, FindableClosed
  <2>3. Range(global') \subseteq Findable \cup {Null}
    BY <1>0, <2>1, <2>2, RangeConcat DEF ReachInv
  <2>4. QED
    BY <1>1, <1>l, <2>3 DEF ScanFrame, locals, ReachInv
<1>2. CASE Start \/ Join
  BY <1>2, <1>l DEF Start, Join, queues, locals, ReachInv
<1>3. ASSUME NEW w \in Worker, Search(w) PROVE ReachInv'
  <2>1. CASE LoopTest(w) \/ PopEmpty(w) \/ PopLast(w) \/ StealNothing(w) \/ GlobalEmpty(w)
    BY <2>1, <1>l DEF LoopTest, PopEmpty, PopLast, StealNothing, GlobalEmpty,
       queues, locals, ReachInv
  <2>2. CASE Pop(w)
    <3>1. dq[w] \in Seq(Obj \cup {Null}) /\ dq[w] # <<>> /\ Len(dq[w]) \in DOMAIN dq[w]
      BY <1>0, <2>2 DEF Pop
    <3>2. dq[w][Len(dq[w])] \in Findable \cup {Null}
      BY <3>1 DEF ReachInv, Range
    <3>3. \A v \in Worker : Range(dq'[v]) \subseteq Range(dq[v])
      BY <1>0, <2>2, <3>1, RangeFront DEF Pop
    <3>4. QED
      BY <1>0, <1>l, <2>2, <3>2, <3>3, FindableTaken DEF Pop
  <2>3. CASE PopLastWin(w)
    <3>1. dq[w] \in Seq(Obj \cup {Null}) /\ dq[w] # <<>> /\ 1 \in DOMAIN dq[w]
      BY <1>0, <2>3 DEF PopLastWin
    <3>2. dq[w][1] \in Findable \cup {Null}
      BY <3>1 DEF ReachInv, Range
    <3>3. \A v \in Worker : Range(dq'[v]) \subseteq Range(dq[v])
      BY <1>0, <2>3 DEF PopLastWin, Range
    <3>4. QED
      BY <1>0, <1>l, <2>3, <3>2, <3>3, FindableTaken DEF PopLastWin
  <2>4. CASE PopLastLose(w)
    <3>1. PICK x \in spent[w] : dq' = [dq EXCEPT ![w] = <<x>>]
      BY <2>4 DEF PopLastLose
    <3>2. x \in Findable \cup {Null} /\ Range(<<x>>) = {x}
      BY <3>1 DEF ReachInv, Range
    <3>3. \A v \in Worker : Range(dq'[v]) \subseteq Findable \cup {Null}
      BY <1>0, <3>1, <3>2 DEF ReachInv
    <3>4. QED
      BY <1>l, <2>4, <3>3 DEF PopLastLose, locals, ReachInv
  <2>5. ASSUME NEW u \in Worker, Steal(w, u) PROVE ReachInv'
    <3>1. dq[u] \in Seq(Obj \cup {Null}) /\ dq[u] # <<>>
      BY <1>0, <2>5 DEF Steal
    <3>2. Head(dq[u]) \in Range(dq[u]) /\ Range(Tail(dq[u])) \subseteq Range(dq[u])
      BY <3>1, RangeTail
    <3>3. \A v \in Worker : Range(dq'[v]) \subseteq Range(dq[v])
      BY <1>0, <2>5, <3>2 DEF Steal
    <3>4. Head(dq[u]) \in Findable \cup {Null}
      BY <3>2 DEF ReachInv
    <3>5. QED
      BY <1>0, <1>l, <2>5, <3>3, <3>4, FindableTaken DEF Steal
  <2>6. CASE TakeGlobal(w)
    <3>1. global # <<>> /\ Len(global) \in DOMAIN global
      BY <1>0, <2>6 DEF TakeGlobal
    <3>2. global[Len(global)] \in Findable \cup {Null} /\ Range(global') \subseteq Range(global)
      BY <1>0, <2>6, <3>1, RangeFront DEF TakeGlobal, ReachInv, Range
    <3>3. QED
      BY <1>0, <1>l, <2>6, <3>2, FindableTaken DEF TakeGlobal
  <2>7. QED
    BY <1>3, <2>1, <2>2, <2>3, <2>4, <2>5, <2>6 DEF Search
<1>c. ASSUME NEW w \in Worker, pc[w] \in {"scan", "spill"},
             slot[w] <= Len(heap[obj[w]]), IsChild(heap[obj[w]][slot[w]])
      PROVE  Child(w) \in Findable
  <2>1. obj[w] \in Obj /\ slot[w] \in Nat /\ slot[w] > 0
    BY <1>0, <1>c DEF HandInv, HandOK, TypeOK
  <2>2. obj[w] \in Findable \ old
    BY <1>0, <1>c, <2>1, NullAssumption DEF ReachInv, HandInv, HandOK
  <2>3. slot[w] \in DOMAIN heap[obj[w]]
    BY <1>0, <1>c, <2>1 DEF TypeOK
  <2>4. Child(w) \in Children(obj[w])
    BY <1>c, <2>3, ChildrenAre DEF Child
  <2>5. QED
    BY <1>0, <2>2, <2>4, FindableClosed
<1>4. ASSUME NEW w \in Worker, Trace(w) PROVE ReachInv'
  <2>1. CASE Mark(w)
    <3>1. obj[w] \in Findable
      BY <1>0, <2>1, NullAssumption DEF Mark, HandInv, HandOK, ReachInv
    <3>2. \A v \in Worker : obj'[v] \in {obj[v], Null}
      BY <1>0, <2>1 DEF Mark, Release
    <3>3. marked' \subseteq old' \cup Findable /\ global' = global /\ dq' = dq /\ spent' = spent
      BY <2>1, <3>1 DEF Mark, queues, ReachInv
    <3>4. QED
      BY <1>l, <3>2, <3>3 DEF ReachInv
  <2>2. CASE SkipSlot(w)
    BY <1>l, <2>2 DEF SkipSlot, queues, ReachInv
  <2>3. CASE PushChild(w) /\ Len(dq[w]) < Capacity - 1
    <3>1. Child(w) \in Findable /\ Child(w) \in Obj \cup {Null}
      BY <1>0, <1>c, <2>3, FindableClosed DEF PushChild
    <3>2. Range(Append(dq[w], Child(w))) = Range(dq[w]) \cup {Child(w)}
      BY <1>0, <3>1, RangeAppend
    <3>3. \A v \in Worker : /\ Range(dq'[v]) \subseteq Range(dq[v]) \cup {Child(w)}
                            /\ spent'[v] \subseteq spent[v] \cup {Child(w)}
      BY <1>0, <2>3, <3>2 DEF PushChild
    <3>4. QED
      BY <1>l, <2>3, <3>1, <3>3 DEF PushChild, ReachInv
  <2>4. CASE PushChild(w) /\ ~(Len(dq[w]) < Capacity - 1)
    BY <1>l, <2>4 DEF PushChild, ReachInv
  <2>5. CASE Spill(w)
    <3>1. Child(w) \in Findable
      BY <1>0, <1>c, <2>5 DEF Spill, HandInv, HandOK
    <3>2. Range(global') \subseteq Range(global) \cup {Child(w)}
      BY <1>0, <2>5, WorkerGlobal DEF mark_worker, Trace, TakeGlobal, Spill
    <3>3. QED
      BY <1>l, <2>5, <3>1, <3>2 DEF Spill, locals, ReachInv
  <2>6. CASE Scanned(w)
    <3>1. \A v \in Worker : obj'[v] \in {obj[v], Null}
      BY <1>0, <2>6 DEF Scanned, Release
    <3>2. QED
      BY <1>l, <2>6, <3>1 DEF Scanned, queues, ReachInv
  <2>7. QED
    BY <1>4, <2>1, <2>2, <2>3, <2>4, <2>5, <2>6 DEF Trace
<1>5. ASSUME NEW w \in Worker, Terminate(w) PROVE ReachInv'
  BY <1>5, <1>l DEF Terminate, Leave, CheckGlobal, CheckDeque, Finish, WaitOver,
     Rejoin, queues, locals, ReachInv
<1>6. QED
  BY <1>1, <1>2, <1>3, <1>4, <1>5 DEF Next, Collector, mark_worker

(* What the workers handle hangs from a root or from what earlier          *)
(* collections left in the rings.                                          *)
LEMMA ReachInvariance == Spec => []ReachInv
<1>1. Init => ReachInv
  <2> SUFFICES ASSUME Init PROVE ReachInv
    OBVIOUS
  <2>0. Stale \subseteq Findable
    BY InitType, FindableClosed
  <2>1. Range(global) \subseteq Stale
    BY LeftAssumption DEF Init, Range
  <2>2. ASSUME NEW w \in Worker
        PROVE  Range(dq[w]) \cup spent[w] \cup {obj[w]} \subseteq Stale \cup {Null}
    <3>1. dq[w] \in Seq(Stale \cup {Null})
      BY InitQueues DEF Remainder
    <3>2. Range(dq[w]) \subseteq Stale \cup {Null}
      BY <3>1 DEF Range
    <3>3. QED
      BY <3>2 DEF Init
  <2>3. marked = old
    BY DEF Init
  <2>4. QED
    BY <2>0, <2>1, <2>2, <2>3 DEF ReachInv
<1>2. BaseInv /\ ReachInv /\ [Next]_vars => ReachInv'
  <2>1. ASSUME ReachInv, UNCHANGED vars PROVE ReachInv'
    <3>1. Findable' = Findable
      BY <2>1, TracedFixed DEF vars
    <3>2. QED
      BY <2>1, <3>1 DEF vars, queues, locals, ReachInv
  <2>2. QED
    BY <2>1, ReachStep
<1>3. QED
  BY <1>1, <1>2, BaseInvariance, PTL DEF Spec

(* A lost race may hand out a pointer of an earlier collection, but what   *)
(* is marked for it is only what can be found from such pointers.          *)
THEOREM GarbageIsBounded == Spec => []GarbageBounded
<1>1. ReachInv => GarbageBounded
  BY DEF ReachInv, GarbageBounded
<1>2. QED
  BY <1>1, ReachInvariance, PTL

(* With no such pointers, what can be found is what is to be traced.       *)
LEMMA CleanRings ==
  ASSUME Stale = {}
  PROVE  Findable = Traced
BY DEF Findable, Traced

(* Without them nothing but what is to be traced is ever marked: what is   *)
(* garbage before the collection is swept.                                 *)
THEOREM MarkingIsExact ==
  ASSUME Stale = {}
  PROVE  Spec => []OnlyTracedMarked
<1>1. ReachInv => OnlyTracedMarked
  BY CleanRings DEF ReachInv, OnlyTracedMarked
<1>2. QED
  BY <1>1, ReachInvariance, PTL

-----------------------------------------------------------------------------
(* What is left in the queues.                                             *)

(* A worker is at the emptiness checks, or one has been through them.      *)
Verdict ==
  \/ phase # "scan" /\ done
  \/ \E w \in Worker : pc[w] \in {"checkGlobal", "checkDeques"}

(* From then on no queue holds anything that was pushed, and nobody pushes *)
(* any more, although waiting workers still join in again.                 *)
DryInv ==
  Verdict =>
    /\ global = <<>>
    /\ \A w \in Worker : Pushed(w) = {} /\ pc[w] \notin {"scan", "spill"}

(* A worker that draws an object after the verdict finds it marked.        *)
LEMMA DryHand ==
  ASSUME Stale = {}, MarkingInv, ReachInv, Verdict, NEW w \in Worker, Mark(w)
  PROVE  pc'[w] = "loop"
<1>1. obj[w] \in Obj
  BY DEF MarkingInv, HandInv, HandOK, Mark
<1>2. obj[w] \in Traced
  BY <1>1, NullAssumption, CleanRings DEF ReachInv
<1>3. obj[w] \in marked
  BY <1>2 DEF MarkingInv, VerdictInv, Verdict
<1>4. QED
  BY <1>3 DEF Mark, Go, MarkingInv, TypeOK

(* Only the last worker to leave can begin the checks.                     *)
LEMMA VerdictBegins ==
  ASSUME MarkingInv, NEW w \in Worker, mark_worker(w), ~Verdict, Verdict'
  PROVE  Leave(w) /\ active = 1 /\ ~done
<1>1. pc \in [Worker -> Label] /\ phase # "scan" /\ phase' = phase
  BY WorkerRuns, WorkerFrame DEF MarkingInv, TypeOK
<1>2. ~done /\ \A v \in Worker : pc[v] \notin {"checkGlobal", "checkDeques"}
  BY <1>1 DEF Verdict
<1>3. SUFFICES ASSUME ~(Leave(w) /\ active = 1)
               PROVE  ~done' /\ \A v \in Worker : pc'[v] \notin {"checkGlobal", "checkDeques"}
  BY <1>2 DEF Verdict
<1>4. CASE Search(w)
  BY <1>1, <1>2, <1>4 DEF Search, LoopTest, Pop, PopEmpty, PopLast, PopLastWin,
     PopLastLose, Steal, StealNothing, TakeGlobal, GlobalEmpty, Take, Go
<1>5. CASE Trace(w)
  BY <1>1, <1>2, <1>5 DEF Trace, Mark, SkipSlot, PushChild, Spill, Scanned, Go
<1>6. CASE Terminate(w)
  BY <1>1, <1>2, <1>3, <1>6 DEF Terminate, Leave, CheckGlobal, CheckDeque, Finish,
     WaitOver, Rejoin, Go
<1>7. QED
  BY <1>4, <1>5, <1>6 DEF mark_worker

(* Once the queues are dry they stay so.                                   *)
LEMMA DryStep ==
  ASSUME Stale = {}, MarkingInv, ReachInv, DryInv, Next
  PROVE  DryInv'
<1>0. /\ pc \in [Worker -> Label]
      /\ TypeOK /\ DequeInv /\ HandInv
  BY DEF MarkingInv, TypeOK
<1>1. CASE Collector
  <2>1. Verdict' => Verdict /\ UNCHANGED <<queues, pc>>
    BY <1>1 DEF Collector, ScanFrame, Start, Join, Verdict, MarkingInv, PhaseInv
  <2>2. UNCHANGED queues => \A v \in Worker : Pushed(v)' = Pushed(v)
    BY DEF queues, Pushed
  <2>3. QED
    BY <2>1, <2>2 DEF DryInv, queues
<1>2. ASSUME NEW w \in Worker, mark_worker(w) PROVE DryInv'
  <2>1. CASE Verdict
    <3>1. global = <<>> /\ \A v \in Worker : Pushed(v) = {} /\ pc[v] \notin {"scan", "spill"}
      BY <2>1 DEF DryInv
    <3>2. ~PushChild(w) /\ ~Spill(w) /\ ~SkipSlot(w) /\ ~Scanned(w)
      BY <3>1 DEF PushChild, Spill, SkipSlot, Scanned
    <3>3. \A v \in Worker : Pushed(v)' = {}
      BY <3>1, <3>2, <1>0, <1>2, WorkerDeque
    <3>4. global' = global /\ pc'[w] \notin {"scan", "spill"}
             /\ \A v \in Worker : v # w => pc'[v] = pc[v]
      <4>1. CASE Search(w)
        BY <4>1, <3>1, <1>0 DEF Search, LoopTest, Pop, PopEmpty, PopLast, PopLastWin,
           PopLastLose, Steal, StealNothing, TakeGlobal, GlobalEmpty, Take, Go, queues
      <4>2. CASE Trace(w)
        <5>1. Mark(w)
          BY <4>2, <3>2 DEF Trace
        <5>2. pc'[w] = "loop"
          BY <5>1, <2>1, DryHand
        <5>3. QED
          BY <5>1, <5>2, <1>0 DEF Mark, Go, queues
      <4>3. CASE Terminate(w)
        BY <4>3, <1>0 DEF Terminate, Leave, CheckGlobal, CheckDeque, Finish,
           WaitOver, Rejoin, Go, queues
      <4>4. QED
        BY <1>2, <4>1, <4>2, <4>3 DEF mark_worker
    <3>5. QED
      BY <3>1, <3>3, <3>4 DEF DryInv
  <2>2. CASE ~Verdict /\ Verdict'
    <3>1. Leave(w) /\ active = 1 /\ ~done
      BY <2>2, <1>2, VerdictBegins
    <3>2. /\ \A v \in Worker : v = w \/ v \in Uncounted
          /\ \A v \in Worker : Pushed(v) = {}
          /\ global = <<>>
      BY <3>1, LastAlone
    <3>3. UNCHANGED queues /\ pc'[w] = "checkGlobal"
             /\ \A v \in Worker : v # w => pc'[v] = pc[v]
      BY <3>1, <1>0 DEF Leave, Go
    <3>4. \A v \in Worker : Pushed(v)' = Pushed(v)
      BY <3>3 DEF queues, Pushed
    <3>5. \A v \in Worker : pc'[v] \notin {"scan", "spill"}
      BY <3>2, <3>3 DEF Uncounted
    <3>6. QED
      BY <3>2, <3>3, <3>4, <3>5 DEF DryInv, queues
  <2>3. CASE ~Verdict'
    BY <2>3 DEF DryInv
  <2>4. QED
    BY <2>1, <2>2, <2>3
<1>3. QED
  BY <1>1, <1>2 DEF Next

(* When mark() has joined its workers the global queue is empty, and a     *)
(* deque holds at most the one slot that a lost race made it claim: the    *)
(* next collection starts from queues that owe it nothing.                 *)
THEOREM QueuesRunDry ==
  ASSUME Stale = {}, \A s \in Stacks : NoNullRoots(s)
  PROVE  Spec => []QueuesDryAfterJoin
<1>1. Init => DryInv
  BY DEF Init, DryInv, Verdict
<1>2. MarkingInv /\ ReachInv /\ DryInv /\ [Next]_vars => DryInv'
  <2>1. ASSUME DryInv, UNCHANGED vars PROVE DryInv'
    BY <2>1, ZenonT(40) DEF vars, queues, DryInv, Verdict, Pushed
  <2>2. QED
    BY <2>1, DryStep
<1>3. MarkingInv /\ DryInv => QueuesDryAfterJoin
  <2> SUFFICES ASSUME MarkingInv, DryInv, phase = "joined"
               PROVE  /\ global = <<>>
                      /\ \A w \in Worker : Len(dq[w]) <= (IF ghost[w] THEN 1 ELSE 0)
    BY DEF QueuesDryAfterJoin
  <2>1. global = <<>> /\ \A w \in Worker : Pushed(w) = {}
    BY DEF MarkingInv, PhaseInv, DryInv, Verdict
  <2>2. ASSUME NEW w \in Worker PROVE Len(dq[w]) <= (IF ghost[w] THEN 1 ELSE 0)
    <3>1. Len(dq[w]) \in Nat /\ ghost[w] \in BOOLEAN
      BY DEF MarkingInv, TypeOK
    <3>2. (IF ghost[w] THEN 2 ELSE 1) .. Len(dq[w]) = {}
      BY <2>1 DEF Pushed
    <3>3. Len(dq[w]) \notin (IF ghost[w] THEN 2 ELSE 1) .. Len(dq[w])
      BY <3>2
    <3>4. CASE ghost[w]
      <4>1. ~ (2 <= Len(dq[w]))
        BY <3>1, <3>3, <3>4
      <4>2. QED
        BY <3>1, <3>4, <4>1
    <3>5. CASE ~ghost[w]
      <4>1. ~ (1 <= Len(dq[w]))
        BY <3>1, <3>3, <3>5
      <4>2. QED
        BY <3>1, <3>5, <4>1
    <3>6. QED
      BY <3>1, <3>4, <3>5
  <2>3. QED
    BY <2>1, <2>2
<1>4. Spec => []MarkingInv
  BY Invariance
<1>5. Spec => []ReachInv
  BY ReachInvariance
<1>6. QED
  BY <1>1, <1>2, <1>3, <1>4, <1>5, PTL DEF Spec

-----------------------------------------------------------------------------
(* The deques as TaskDeque has them.                                       *)

(* The deque of worker v takes a step of TaskDeque, or none.               *)
Untouched(v) ==
  /\ dq'[v] = dq[v] /\ spent'[v] = spent[v]
  /\ (pc'[v] = "popLast") = (pc[v] = "popLast")

DequeMoves(v) == Deque(v)!Next \/ Untouched(v)

(* The owner's steps but push().                                           *)
LEMMA OwnerMoves ==
  ASSUME TypeOK, NEW w \in Worker, NEW v \in Worker,
         Pop(w) \/ PopLast(w) \/ PopLastWin(w) \/ PopLastLose(w)
  PROVE  DequeMoves(v)
<1>0. /\ pc \in [Worker -> Label] /\ dq \in [Worker -> Seq(Obj \cup {Null})]
  BY DEF TypeOK
<1>1. CASE v # w
  BY <1>0, <1>1 DEF Pop, PopLast, PopLastWin, PopLastLose, Take, Go, queues,
     DequeMoves, Untouched
<1>2. CASE v = w /\ Pop(w)
  <2>1. dq'[w] = SubSeq(dq[w], 1, Len(dq[w]) - 1) /\ pc'[w] \in {"steal", "mark"}
    BY <1>0, <1>2 DEF Pop, Take, Go
  <2>2. pc[w] # "popLast" /\ Len(dq[w]) > 1 /\ spent' = spent
    BY <1>2 DEF Pop, Take
  <2>3. Deque(w)!Pop
    BY <2>1, <2>2 DEF Deque!Pop, Deque!Front
  <2>4. QED
    BY <1>2, <2>3 DEF DequeMoves, Deque!Next
<1>3. CASE v = w /\ PopLast(w)
  <2>1. Deque(w)!PopLast
    BY <1>0, <1>3 DEF PopLast, Go, queues, Deque!PopLast
  <2>2. QED
    BY <1>3, <2>1 DEF DequeMoves, Deque!Next
<1>4. CASE v = w /\ PopLastWin(w)
  <2>1. Deque(w)!PopWin
    BY <1>0, <1>4 DEF PopLastWin, Take, Go, Deque!PopWin
  <2>2. QED
    BY <1>4, <2>1 DEF DequeMoves, Deque!Next
<1>5. CASE v = w /\ PopLastLose(w)
  <2>1. Deque(w)!PopLose
    BY <1>0, <1>5 DEF PopLastLose, Go, Deque!PopLose
  <2>2. QED
    BY <1>5, <2>1 DEF DequeMoves, Deque!Next
<1>6. QED
  BY <1>1, <1>2, <1>3, <1>4, <1>5

(* steal(), whatever the victim's owner is doing.                          *)
LEMMA StealMoves ==
  ASSUME TypeOK, NEW w \in Worker, NEW u \in Worker, NEW v \in Worker, Steal(w, u)
  PROVE  DequeMoves(v)
<1>0. /\ pc \in [Worker -> Label] /\ dq \in [Worker -> Seq(Obj \cup {Null})]
  BY DEF TypeOK
<1>1. (pc'[v] = "popLast") = (pc[v] = "popLast") /\ spent' = spent
  BY <1>0 DEF Steal, Take, Go
<1>2. CASE v # u
  BY <1>0, <1>1, <1>2 DEF Steal, DequeMoves, Untouched
<1>3. CASE v = u
  <2>1. dq'[u] = Tail(dq[u]) /\ dq[u] # <<>>
    BY <1>0 DEF Steal
  <2>2. Deque(u)!Steal
    BY <1>1, <1>3, <2>1 DEF Deque!Steal
  <2>3. QED
    BY <1>3, <2>2 DEF DequeMoves, Deque!Next
<1>4. QED
  BY <1>2, <1>3

(* push(), if there is room.                                               *)
LEMMA PushMoves ==
  ASSUME TypeOK, HandInv, NEW w \in Worker, NEW v \in Worker, PushChild(w)
  PROVE  DequeMoves(v)
<1>0. /\ pc \in [Worker -> Label] /\ dq \in [Worker -> Seq(Obj \cup {Null})]
      /\ spent \in [Worker -> SUBSET (Obj \cup {Null})]
  BY DEF TypeOK
<1>1. CASE v # w \/ ~(Len(dq[w]) < Capacity - 1)
  BY <1>0, <1>1 DEF PushChild, Go, DequeMoves, Untouched
<1>2. CASE v = w /\ Len(dq[w]) < Capacity - 1
  <2>1. Child(w) \in Obj
    BY ChildInObj DEF PushChild, HandInv, HandOK, Child, TypeOK
  <2>2. /\ dq'[w] = Append(dq[w], Child(w)) /\ spent'[w] = spent[w] \cup {Child(w)}
        /\ pc[w] = "scan" /\ pc'[w] = "scan"
    BY <1>0, <1>2 DEF PushChild
  <2>3. Deque(w)!Push(Child(w))
    BY <1>2, <2>2 DEF Deque!Push
  <2>4. QED
    BY <1>2, <2>1, <2>3 DEF DequeMoves, Deque!Next
<1>3. QED
  BY <1>1, <1>2

(* Whoever runs, a deque does what TaskDeque allows.                       *)
LEMMA NextMoves ==
  ASSUME BaseInv, NEW v \in Worker, Next
  PROVE  DequeMoves(v)
<1>0. /\ pc \in [Worker -> Label] /\ TypeOK /\ HandInv /\ PhaseInv
  BY DEF BaseInv, TypeOK
<1>1. CASE Collector
  BY <1>0, <1>1 DEF Collector, ScanFrame, Start, Join, queues, PhaseInv,
     DequeMoves, Untouched
<1>2. ASSUME NEW w \in Worker, mark_worker(w) PROVE DequeMoves(v)
  <2>1. CASE Search(w)
    <3>1. CASE LoopTest(w) \/ PopEmpty(w) \/ StealNothing(w) \/ TakeGlobal(w)
               \/ GlobalEmpty(w)
      BY <1>0, <3>1 DEF LoopTest, PopEmpty, StealNothing, TakeGlobal, GlobalEmpty,
         Take, Go, queues, DequeMoves, Untouched
    <3>2. QED
      BY <1>0, <2>1, <3>1, OwnerMoves, StealMoves DEF Search
  <2>2. CASE Trace(w)
    <3>1. CASE Mark(w) \/ SkipSlot(w) \/ Spill(w) \/ Scanned(w)
      BY <1>0, <3>1 DEF Mark, SkipSlot, Spill, Scanned, Go, queues,
         DequeMoves, Untouched
    <3>2. QED
      BY <1>0, <2>2, <3>1, PushMoves DEF Trace
  <2>3. CASE Terminate(w)
    BY <1>0, <2>3 DEF Terminate, Leave, CheckGlobal, CheckDeque, Finish, WaitOver,
       Rejoin, Go, queues, DequeMoves, Untouched
  <2>4. QED
    BY <1>2, <2>1, <2>2, <2>3 DEF mark_worker
<1>3. QED
  BY <1>1, <1>2 DEF Next

(* The workers use their deques within what TaskDeque allows and expect no *)
(* more of them than it promises, so that the ring buffer proved to        *)
(* implement it can stand for every deque here: any roots, any leftovers.  *)
THEOREM DequesRefine == Spec => DequesAreTaskDeques
<1>1. Init => \A w \in Worker : Deque(w)!Init
  BY DEF Init, Deque!Init
<1>2. BaseInv /\ [Next]_vars =>
        [\A w \in Worker : [Deque(w)!Next]_(Deque(w)!dequeVars)]_vars
  <2>1. ASSUME BaseInv, Next, NEW w \in Worker
        PROVE  [Deque(w)!Next]_(Deque(w)!dequeVars)
    <3>1. DequeMoves(w)
      BY <2>1, NextMoves
    <3>2. QED
      BY <3>1 DEF DequeMoves, Untouched, Deque!dequeVars
  <2>2. QED
    BY <2>1
<1>3. QED
  BY <1>1, <1>2, BaseInvariance, PTL DEF Spec, DequesAreTaskDeques

-----------------------------------------------------------------------------
(* What the deques may hold, from what TaskDeque lets a step do to one.    *)

RingOK(w) ==
  /\ dq[w] \in Seq(spent[w] \cup {Null})
  /\ Len(dq[w]) < Capacity
  /\ pc[w] = "popLast" => Capacity > 1

RingInv == \A w \in Worker : RingOK(w)

(* A move of the deque keeps its ring in order.                            *)
LEMMA RingStep ==
  ASSUME RingInv, NEW w \in Worker, DequeMoves(w)
  PROVE  RingOK(w)'
<1> DEFINE d == dq[w]
           e == dq'[w]
           S == spent[w] \cup {Null}
<1>00. /\ d \in Seq(S) /\ Len(d) < Capacity
       /\ pc[w] = "popLast" => Capacity > 1
  BY DEF RingInv, RingOK
<1>01. Len(d) \in Nat /\ Capacity \in Nat
  BY <1>00, CapacityAssumption
<1>0. /\ d \in Seq(S) /\ Len(d) \in Nat /\ Len(d) < Capacity /\ Capacity \in Nat
      /\ pc[w] = "popLast" => Capacity > 1
  BY <1>00, <1>01
<1> SUFFICES /\ e \in Seq(spent'[w] \cup {Null}) /\ Len(e) < Capacity
             /\ pc'[w] = "popLast" => Capacity > 1
  BY DEF RingOK
<1>1. CASE Untouched(w)
  BY <1>0, <1>1 DEF Untouched
<1>2. ASSUME NEW x \in Obj, Deque(w)!Push(x)
      PROVE  /\ e \in Seq(spent'[w] \cup {Null}) /\ Len(e) < Capacity
             /\ pc'[w] = "popLast" => Capacity > 1
  <2>1. /\ e = Append(d, x) /\ spent'[w] = spent[w] \cup {x} /\ Len(d) < Capacity - 1
        /\ (pc'[w] = "popLast") = (pc[w] = "popLast")
    BY <1>2 DEF Deque!Push
  <2>2. d \in Seq(spent'[w] \cup {Null}) /\ x \in spent'[w] \cup {Null}
    BY <1>0, <2>1
  <2>3. e \in Seq(spent'[w] \cup {Null}) /\ Len(e) = Len(d) + 1
    BY <2>1, <2>2
  <2>4. QED
    BY <1>0, <2>1, <2>3
<1>3. CASE Deque(w)!Pop
  <2>1. /\ e = SubSeq(d, 1, Len(d) - 1) /\ spent'[w] = spent[w] /\ Len(d) > 1
        /\ (pc'[w] = "popLast") = (pc[w] = "popLast")
    BY <1>3 DEF Deque!Pop, Deque!Front
  <2>2. e \in Seq(S) /\ Len(e) = Len(d) - 1
    BY <1>0, <2>1
  <2>3. QED
    BY <1>0, <2>1, <2>2
<1>4. CASE Deque(w)!PopLast
  BY <1>0, <1>4 DEF Deque!PopLast
<1>5. CASE Deque(w)!PopWin
  BY <1>0, <1>5 DEF Deque!PopWin
<1>6. CASE Deque(w)!PopLose
  <2>1. PICK x \in spent[w] : e = <<x>>
    BY <1>6 DEF Deque!PopLose
  <2>2. /\ pc[w] = "popLast" /\ pc'[w] # "popLast" /\ spent'[w] = spent[w]
    BY <1>6 DEF Deque!PopLose
  <2>3. e \in Seq(S) /\ Len(e) = 1
    BY <2>1
  <2>4. QED
    BY <1>0, <2>2, <2>3
<1>7. CASE Deque(w)!Steal
  <2>1. /\ e = Tail(d) /\ d # <<>> /\ spent'[w] = spent[w]
        /\ (pc'[w] = "popLast") = (pc[w] = "popLast")
    BY <1>7 DEF Deque!Steal
  <2>2. e \in Seq(S) /\ Len(e) = Len(d) - 1
    BY <1>0, <2>1
  <2>3. QED
    BY <1>0, <2>1, <2>2
<1>8. QED
  BY <1>1, <1>2, <1>3, <1>4, <1>5, <1>6, <1>7 DEF DequeMoves, Deque!Next

(* What the rings hold was in them when the collection began or has been   *)
(* pushed, and once the global queue has run dry it holds nothing else.    *)
CarriedInv ==
  /\ \A w \in Worker : spent[w] \subseteq Carried \cup {Null}
  /\ Verdict => Range(global) \subseteq Carried

LEMMA CarriedGrows ==
  ASSUME TypeOK, Next
  PROVE  Carried \subseteq Carried'
<1>1. heap' = heap /\ old' = old
  BY WorkerFrame DEF Next, Collector, ScanFrame, Start, Join, TypeOK
<1>2. marked \subseteq marked'
  BY MarkedGrows DEF Next, Collector, ScanFrame, Start, Join
<1>3. \A o : Children(o)' = Children(o)
  BY <1>1 DEF Children
<1>4. QED
  BY <1>1, <1>2, <1>3 DEF Carried

\* A child that a worker is about to push is that of an object it has marked.
LEMMA ChildCarried ==
  ASSUME TypeOK, HandInv, NEW w \in Worker, PushChild(w) \/ Spill(w)
  PROVE  Child(w) \in Carried
<1>1. /\ obj[w] \in marked \ old /\ obj[w] \in Obj /\ slot[w] \in Nat /\ slot[w] > 0
      /\ slot[w] <= Len(heap[obj[w]]) /\ IsChild(heap[obj[w]][slot[w]])
  BY DEF PushChild, Spill, HandInv, HandOK, TypeOK
<1>2. slot[w] \in DOMAIN heap[obj[w]]
  BY <1>1 DEF TypeOK
<1>3. Child(w) \in Children(obj[w])
  BY <1>1, <1>2, ChildrenAre DEF Child
<1>4. QED
  BY <1>1, <1>3 DEF Carried

LEMMA CarriedStep ==
  ASSUME MarkingInv, CarriedInv, Next
  PROVE  CarriedInv'
<1>0. /\ spent \in [Worker -> SUBSET (Obj \cup {Null})] /\ pc \in [Worker -> Label]
      /\ TypeOK /\ HandInv /\ PhaseInv
  BY DEF MarkingInv, TypeOK
<1>1. Carried \subseteq Carried'
  BY <1>0, CarriedGrows
<1> HIDE DEF Carried
<1>2. CASE Collector
  <2>1. spent' = spent /\ (Verdict' => Verdict /\ UNCHANGED global)
    BY <1>0, <1>2 DEF Collector, ScanFrame, Start, Join, queues, Verdict, PhaseInv
  <2>2. QED
    BY <1>1, <2>1 DEF CarriedInv
<1>3. ASSUME NEW w \in Worker, mark_worker(w) PROVE CarriedInv'
  <2>1. ASSUME NEW v \in Worker PROVE spent'[v] \subseteq Carried' \cup {Null}
    <3>1. CASE PushChild(w)
      <4>1. Child(w) \in Carried
        BY <1>0, <3>1, ChildCarried
      <4>2. spent'[v] \subseteq spent[v] \cup {Child(w)}
        BY <1>0, <3>1 DEF PushChild
      <4>3. QED
        BY <1>1, <4>1, <4>2 DEF CarriedInv
    <3>2. CASE ~PushChild(w)
      <4>1. spent' = spent
        BY <1>3, <3>2 DEF mark_worker, Search, LoopTest, Pop, PopEmpty, PopLast, PopLastWin,
           PopLastLose, Steal, StealNothing, TakeGlobal, GlobalEmpty, Take, Trace, Mark,
           SkipSlot, Spill, Scanned, Terminate, Leave, CheckGlobal, CheckDeque, Finish,
           WaitOver, Rejoin, queues
      <4>2. QED
        BY <1>1, <4>1 DEF CarriedInv
    <3>3. QED
      BY <3>1, <3>2
  <2>2. ASSUME Verdict' PROVE Range(global') \subseteq Carried'
    <3>1. CASE Verdict
      <4>1. Range(global') \subseteq Range(global) \/ Spill(w)
        <5>1. TakeGlobal(w) => Range(global') \subseteq Range(global)
          <6>1. ASSUME TakeGlobal(w)
                PROVE  /\ global' = SubSeq(global, 1, Len(global) - 1) /\ global # <<>>
                       /\ global \in Seq(Obj \cup {Null})
            BY <1>0, <6>1 DEF TakeGlobal, TypeOK
          <6>2. QED
            BY <6>1, RangeFront
        <5>2. QED
          BY <1>0, <1>3, <5>1, WorkerGlobal
      <4>2. Spill(w) => Range(global') \subseteq Range(global) \cup {Child(w)}
        BY <1>0, <1>3, WorkerGlobal DEF Spill, TakeGlobal
      <4>3. Spill(w) => Child(w) \in Carried
        BY <1>0, ChildCarried
      <4>4. QED
        BY <1>1, <3>1, <4>1, <4>2, <4>3 DEF CarriedInv
    <3>2. CASE ~Verdict
      <4>1. Leave(w) /\ active = 1 /\ ~done
        BY <1>3, <2>2, <3>2, VerdictBegins
      <4>2. global = <<>> /\ global' = global
        BY <4>1, LastAlone DEF Leave, queues
      <4>3. QED
        BY <4>2 DEF Range
    <3>3. QED
      BY <3>1, <3>2
  <2>3. QED
    BY <2>1, <2>2 DEF CarriedInv
<1>4. QED
  BY <1>2, <1>3 DEF Next

(* The queues hold what a collection may find in them, at the join too: as *)
(* many collections in a row as the program asks for are each of them a    *)
(* collection these theorems speak of.                                     *)
THEOREM RemaindersCovered ==
  ASSUME \A s \in Stacks : NoNullRoots(s)
  PROVE  Spec => []QueuesAreRemainders
<1>1. Init => RingInv /\ CarriedInv
  <2> SUFFICES ASSUME Init PROVE RingInv /\ CarriedInv
    OBVIOUS
  <2>1. ASSUME NEW w \in Worker PROVE RingOK(w)
    <3>1. Remainder(dq[w], Stale) /\ spent[w] = {Null} \cup Stale /\ pc[w] = "exit"
      BY InitQueues DEF Init
    <3>2. QED
      BY <3>1 DEF Remainder, RingOK
  <2>2. Stale \subseteq Carried
    BY DEF Carried
  <2>3. \A w \in Worker : spent[w] = {Null} \cup Stale
    BY DEF Init
  <2>4. Range(global) \subseteq Stale
    BY LeftAssumption DEF Init, Range
  <2>5. QED
    BY <2>1, <2>2, <2>3, <2>4 DEF RingInv, CarriedInv
<1>2. MarkingInv /\ BaseInv /\ RingInv /\ CarriedInv /\ [Next]_vars => RingInv' /\ CarriedInv'
  <2>1. ASSUME RingInv, UNCHANGED vars PROVE RingInv'
    BY <2>1 DEF vars, queues, RingInv, RingOK
  <2>2. ASSUME CarriedInv, UNCHANGED vars PROVE CarriedInv'
    <3>1. Carried' = Carried /\ Verdict' = Verdict /\ spent' = spent /\ global' = global
      BY <2>2 DEF vars, queues, Carried, Children, Verdict
    <3>2. QED
      BY <2>2, <3>1 DEF CarriedInv
  <2>3. ASSUME BaseInv, RingInv, Next PROVE RingInv'
    BY <2>3, NextMoves, RingStep DEF RingInv
  <2>4. QED
    BY <2>1, <2>2, <2>3, CarriedStep
<1>3. MarkingInv /\ RingInv /\ CarriedInv => QueuesAreRemainders
  <2> SUFFICES ASSUME MarkingInv, RingInv, CarriedInv
               PROVE  /\ Null \notin Range(global)
                      /\ \A w \in Worker : Remainder(dq[w], spent[w])
                      /\ phase = "joined" =>
                           Range(global) \cup UNION {spent[w] : w \in Worker}
                             \subseteq Carried \cup {Null}
    BY DEF QueuesAreRemainders
  <2>1. Null \notin Range(global)
    BY DEF MarkingInv, GlobalInv
  <2>2. ASSUME NEW w \in Worker PROVE Remainder(dq[w], spent[w])
    <3>1. DequeOK(w) /\ RingOK(w)
      BY DEF MarkingInv, DequeInv, RingInv
    <3>2. \A i \in 2 .. Len(dq[w]) : dq[w][i] # Null
      BY <3>1 DEF DequeOK, RingOK
    <3>3. QED
      BY <3>1, <3>2 DEF RingOK, Remainder
  <2>3. phase = "joined" => Verdict
    BY DEF MarkingInv, PhaseInv, Verdict
  <2>4. QED
    BY <2>1, <2>2, <2>3 DEF CarriedInv
<1>4. QED
  BY <1>1, <1>2, <1>3, BaseInvariance, Invariance, PTL DEF Spec

-----------------------------------------------------------------------------
(* All of it as one step.                                                  *)

(* When mark() has returned no worker is left. *)
Stopped == phase = "joined" => \A w \in Worker : pc[w] = "exit"

(* What the abstract step has to find is what is traced, and what it may   *)
(* find is what hangs from a root or a pointer left in a ring.             *)
LEMMA FoundIsTraced ==
  ASSUME TypeOK, phase # "joined"
  PROVE  Atomic!FoundFrom(Roots) = Traced /\ Atomic!FoundFrom(Roots \cup Stale) = Findable
<1> DEFINE C == [o \in Obj |-> Children(o)]
<1>1. ASSUME NEW from \in SUBSET Obj
      PROVE  Closed(from) =
               {set \in SUBSET Obj : from \subseteq set /\ \A o \in set \ old : C[o] \subseteq set}
  BY ClosedSets
<1>2. ASSUME NEW from \in SUBSET Obj
      PROVE  Atomic!FoundFrom(from) = FoundFrom(from)
  <2> DEFINE closed == {set \in SUBSET Obj :
                          from \subseteq set /\ \A o \in set \ old : C[o] \subseteq set}
  <2>1. Closed(from) = closed
    BY <1>1, <1>2
  <2>2. FoundFrom(from) = {o \in Obj : \A S \in Closed(from) : o \in S}
    BY DEF FoundFrom
  <2>3. Atomic!FoundFrom(from) = {o \in Obj : \A S \in closed : o \in S}
    BY DEF Atomic!FoundFrom
  <2> HIDE DEF closed
  <2>4. QED
    BY <2>1, <2>2, <2>3
<1>3. Roots \in SUBSET Obj /\ Roots \cup Stale \in SUBSET Obj
  BY RootsAndChildren, StaleAssumption
<1>4. QED
  BY <1>2, <1>3 DEF Traced, Findable

(* Once mark() has returned no worker takes another step.                  *)
LEMMA StoppedStep ==
  ASSUME TypeOK, PhaseInv, Stopped, [Next]_vars
  PROVE  Stopped'
<1>1. CASE ScanFrame \/ Start \/ Join
  BY <1>1 DEF ScanFrame, Start, Join, Stopped
<1>2. ASSUME NEW w \in Worker, mark_worker(w) PROVE Stopped'
  BY <1>2, WorkerRuns, WorkerFrame DEF Stopped, TypeOK
<1>3. CASE UNCHANGED vars
  BY <1>3 DEF vars, Stopped
<1>4. QED
  BY <1>1, <1>2, <1>3 DEF Next, Collector

(* The join is the abstract step, whatever comes before it is a stutter    *)
(* and nothing comes after it.                                             *)
LEMMA AtomicStep ==
  ASSUME TypeOK, PhaseInv, Stopped, NothingMissed', GarbageBounded', TypeOK',
         [Next]_vars
  PROVE  [Atomic!Mark]_(Atomic!vars)
<1> DEFINE C == [o \in Obj |-> Children(o)]
           G == IF phase = "joined" THEN Carried ELSE Stale
           M == IF phase = "joined" THEN marked ELSE old
           R == phase = "joined"
<1>1. CASE Next
  <2>1. heap' = heap /\ shadow_stack' = shadow_stack /\ old' = old
    BY <1>1, WorkerFrame DEF Next, Collector, ScanFrame, Start, Join, TypeOK
  <2>2. Traced' = Traced /\ Findable' = Findable
    BY <2>1, TracedFixed
  <2>3. /\ C' = C /\ Roots' = Roots
        /\ \A o \in Obj : Children(o)' = Children(o)
    BY <2>1 DEF Children, Roots, RootsOf
  <2>4. CASE Join
    <3>1. phase = "mark" /\ phase' = "joined"
      BY <2>4 DEF Join
    <3>2. /\ old \subseteq marked' /\ marked' \subseteq Obj
          /\ Traced \subseteq marked' /\ marked' \subseteq old \cup Findable
      BY <2>1, <2>2, <3>1 DEF NothingMissed, GarbageBounded, TypeOK
    <3> DEFINE traced == Atomic!FoundFrom(Roots)
               found == Atomic!FoundFrom(Roots \cup G)
               strays == (marked' \ old) \ Traced
               new == (traced \cup strays) \ M
    <3>3. /\ ~R /\ R' = TRUE /\ M = old /\ M' = marked' /\ G = Stale
          /\ G' = Stale \cup UNION {Children(o)' : o \in marked' \ old}
      BY <2>1, <3>1 DEF Carried
    <3>4. traced = Traced /\ found = Findable
      BY <3>1, <3>3, FoundIsTraced
    <3>5. strays \in SUBSET (found \ traced) /\ new = marked' \ old
      BY <3>2, <3>3, <3>4
    <3>6. M' = M \cup new
      BY <3>2, <3>3, <3>5
    <3>7. G' = G \cup UNION {C[o] : o \in new}
      <4>1. \A o \in new : C[o] = Children(o)'
        BY <2>3, <3>2, <3>5
      <4>2. {C[o] : o \in new} = {Children(o)' : o \in marked' \ old}
        BY <3>5, <4>1
      <4> HIDE DEF C, G
      <4>3. QED
        BY <3>3, <4>2
    <3> HIDE DEF C, G, M, R, traced, found, strays
    <3>8. \E x \in SUBSET (found \ traced) :
            LET n == (traced \cup x) \ M
            IN M' = M \cup n /\ G' = G \cup UNION {C[o] : o \in n}
      BY <3>5, <3>6, <3>7
    <3>9. QED
      BY <2>3, <3>3, <3>8 DEF Atomic!Mark, C, G, M, R, traced, found
  <2>5. CASE ScanFrame \/ Start
    <3>1. phase # "joined" /\ phase' # "joined"
      BY <2>5 DEF ScanFrame, Start
    <3>2. M' = M /\ R' = R /\ G' = G
      BY <2>1, <3>1
    <3>3. QED
      BY <2>3, <3>2 DEF Atomic!vars
  <2>6. ASSUME NEW w \in Worker, mark_worker(w)
        PROVE  UNCHANGED Atomic!vars
    <3>1. phase # "joined" /\ phase' = phase
      BY <2>6, WorkerRuns, WorkerFrame DEF Stopped, TypeOK
    <3>2. M' = M /\ R' = R /\ G' = G
      BY <2>1, <3>1
    <3>3. QED
      BY <2>3, <3>2 DEF Atomic!vars
  <2>7. QED
    BY <1>1, <2>4, <2>5, <2>6 DEF Next, Collector
<1>2. CASE UNCHANGED vars
  <2>1. C' = C /\ Roots' = Roots /\ Carried' = Carried
    BY <1>2 DEF vars, Children, Roots, RootsOf, Carried
  <2>2. M' = M /\ R' = R /\ G' = G
    BY <1>2, <2>1 DEF vars
  <2>3. QED
    BY <2>1, <2>2 DEF Atomic!vars
<1>3. QED
  BY <1>1, <1>2

(* Seen from collect(), scanning and marking by any number of workers is   *)
(* one step, which marks what a search from the roots finds and, for the   *)
(* pointers that earlier collections left in the rings, some of what hangs *)
(* from these: the step that Heap takes, at the first collection and at    *)
(* every later one (runtime.cpp:38-125).                                   *)
THEOREM MarkingIsAtomic ==
  ASSUME \A s \in Stacks : NoNullRoots(s)
  PROVE  Spec => ImplementsAtomicMarking
<1>1. Init => Stopped /\ Atomic!Init
  <2> SUFFICES ASSUME Init PROVE Stopped /\ Atomic!Init
    OBVIOUS
  <2>1. phase = "scan" /\ old \subseteq Obj
    BY LeftAssumption DEF Init
  <2>2. Roots \subseteq Obj /\ \A o \in Obj : Children(o) \subseteq Obj
    BY InitType, RootsAndChildren
  <2>3. QED
    BY <2>1, <2>2, StaleAssumption DEF Stopped, Atomic!Init
<1>2. BaseInv /\ Stopped /\ [Next]_vars => Stopped'
  BY StoppedStep DEF BaseInv
<1>3. /\ BaseInv /\ BaseInv' /\ Stopped /\ NothingMissed' /\ GarbageBounded'
      /\ [Next]_vars
      => [Atomic!Mark]_(Atomic!vars)
  BY AtomicStep DEF BaseInv
<1>4. QED
  BY <1>1, <1>2, <1>3, BaseInvariance, MarkingIsComplete, GarbageIsBounded, PTL
     DEF Spec, ImplementsAtomicMarking, Atomic!Spec
=============================================================================
