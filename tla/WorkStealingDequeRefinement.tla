--------------------- MODULE WorkStealingDequeRefinement ---------------------
(***************************************************************************)
(* WorkStealingDeque.tla implements TaskDeque.tla: every step of the code  *)
(* is one of the atomic operations of a sequence or changes nothing of it. *)
(***************************************************************************)
EXTENDS WorkStealingDequeProofs, FunctionTheorems

(* How many tasks the window holds, and the three parts of the mapping: is *)
(* the owner committed to a last task, how many tasks are in memory for    *)
(* everybody, which values may a slot still hold.                          *)
Claimed == IF WindowEnd > top THEN WindowEnd - top ELSE 0
Popping == own.pc = "popCas" \/ LostRace \/ LostStore
Published == pushed - Cardinality(Unpublished)
Spent == {Null} \cup 1 .. Published

WindowFacts ==
  /\ Window \in Seq(Task \cup {Null})
  /\ Len(Window) = Claimed /\ Claimed \in Nat
  /\ \A i \in 1 .. Claimed : Window[i] = buffer[Slot(top + i - 1)]
  /\ top \in Int /\ WindowEnd \in Int

(* The window is the ring from `top' up to WindowEnd, read as a sequence.  *)
LEMMA WindowIs == DequeInv => WindowFacts
<1> SUFFICES ASSUME DequeInv PROVE WindowFacts
  OBVIOUS
<1>1. Claimed \in Nat /\ top \in Int /\ WindowEnd \in Int
  BY MemoryBehind, Numbers DEF Claimed
<1>2. Window = [i \in 1 .. Claimed |-> buffer[Slot(top + i - 1)]]
  BY DEF Window, TasksTo, WindowEnd, Claimed
<1>3. \A i \in 1 .. Claimed : buffer[Slot(top + i - 1)] \in Task \cup {Null}
  <2> SUFFICES ASSUME NEW i \in 1 .. Claimed
               PROVE  buffer[Slot(top + i - 1)] \in Task \cup {Null}
    OBVIOUS
  <2>1. top + i - 1 \in Int
    BY <1>1, Numbers
  <2>2. QED
    BY <2>1, SlotType, Types DEF DequeInv
<1>4. Window \in Seq(Task \cup {Null})
  BY <1>1, <1>2, <1>3
<1>5. Len(Window) = Claimed
  BY <1>1, <1>2
<1>6. QED
  BY <1>1, <1>2, <1>4, <1>5 DEF WindowFacts

LEMMA WindowNext == (DequeInv => WindowFacts)'
BY WindowIs, PTL

(* A window whose ends and whose slots stay is the same sequence.          *)
LEMMA SameWindow ==
  ASSUME DequeInv, DequeInv', top' = top, WindowEnd' = WindowEnd,
         \A i \in Int : top <= i /\ i < WindowEnd => buffer'[Slot(i)] = buffer[Slot(i)]
  PROVE  Window' = Window
<1>1. WindowFacts /\ WindowFacts'
  BY WindowIs, WindowNext
<1>2. Claimed' = Claimed
  BY DEF Claimed
<1>3. \A i \in 1 .. Claimed : Window'[i] = Window[i]
  <2> SUFFICES ASSUME NEW i \in 1 .. Claimed PROVE Window'[i] = Window[i]
    OBVIOUS
  <2>1. top + i - 1 \in Int /\ top <= top + i - 1 /\ top + i - 1 < WindowEnd
    BY <1>1 DEF WindowFacts, Claimed
  <2>2. Window'[i] = buffer'[Slot(top + i - 1)] /\ Window[i] = buffer[Slot(top + i - 1)]
    BY <1>1, <1>2 DEF WindowFacts
  <2>3. QED
    BY <2>1, <2>2
<1>4. QED
  BY <1>1, <1>2, <1>3, SeqEqual, Zenon DEF WindowFacts

(* A window that ends where it begins is empty.                            *)
LEMMA EmptyWindow == DequeInv /\ WindowEnd <= top => Window = <<>>
<1> SUFFICES ASSUME DequeInv, WindowEnd <= top PROVE Window = <<>>
  OBVIOUS
<1>1. WindowFacts
  BY WindowIs
<1>2. Len(Window) = 0
  BY <1>1 DEF WindowFacts, Claimed
<1>3. QED
  BY <1>1, <1>2, EmptySeq DEF WindowFacts

LEMMA EmptyWindowNext == (DequeInv /\ WindowEnd <= top => Window = <<>>)'
BY EmptyWindow, PTL

(* One slot more at the right is an append, one less drops the last task,  *)
(* one less at the left drops the first.                                   *)
LEMMA LongerWindow ==
  ASSUME DequeInv, DequeInv', top' = top, WindowEnd' = WindowEnd + 1, top <= WindowEnd,
         UNCHANGED buffer
  PROVE  Window' = Append(Window, buffer[Slot(WindowEnd)]) /\ Len(Window) = WindowEnd - top
<1> DEFINE e == buffer[Slot(WindowEnd)]
           T == Append(Window, e)
<1>1. WindowFacts /\ WindowFacts'
  BY WindowIs, WindowNext
<1>2. Claimed = WindowEnd - top /\ Claimed' = Claimed + 1
  BY <1>1 DEF Claimed, WindowFacts
<1>3. Slot(WindowEnd) \in 0 .. Capacity - 1 /\ e \in Task \cup {Null}
  BY <1>1, SlotType, Types DEF DequeInv, WindowFacts
<1>4. /\ T \in Seq(Task \cup {Null}) /\ Len(T) = Claimed + 1
      /\ \A i \in 1 .. Claimed : T[i] = Window[i]
      /\ T[Claimed + 1] = e
  BY <1>1, <1>3, AppendProperties DEF WindowFacts
<1> HIDE DEF T
<1>5. \A i \in 1 .. Claimed + 1 : Window'[i] = T[i]
  <2> SUFFICES ASSUME NEW i \in 1 .. Claimed + 1 PROVE Window'[i] = T[i]
    OBVIOUS
  <2>1. Window'[i] = buffer[Slot(top + i - 1)]
    BY <1>1, <1>2 DEF WindowFacts
  <2>2. CASE i \in 1 .. Claimed
    BY <2>1, <2>2, <1>1, <1>4 DEF WindowFacts
  <2>3. CASE i = Claimed + 1
    <3>1. top + i - 1 = WindowEnd
      BY <2>3, <1>1, <1>2 DEF WindowFacts
    <3>2. QED
      BY <2>1, <2>3, <3>1, <1>4
  <2>4. QED
    BY <2>2, <2>3, <1>1 DEF WindowFacts
<1>6. Window' = T
  BY <1>1, <1>2, <1>4, <1>5, SeqEqual, Zenon DEF WindowFacts
<1>7. QED
  BY <1>1, <1>2, <1>6 DEF T, WindowFacts

LEMMA ShorterWindow ==
  ASSUME DequeInv, DequeInv', top' = top, WindowEnd' = WindowEnd - 1, top < WindowEnd,
         UNCHANGED buffer
  PROVE  Window' = SubSeq(Window, 1, Len(Window) - 1) /\ Len(Window) = WindowEnd - top
<1> DEFINE T == SubSeq(Window, 1, Len(Window) - 1)
<1>1. WindowFacts /\ WindowFacts'
  BY WindowIs, WindowNext
<1>2. Claimed = WindowEnd - top /\ Claimed' = Claimed - 1 /\ Claimed >= 1
  BY <1>1 DEF Claimed, WindowFacts
<1>3. \A i \in 1 .. Len(Window) - 1 : Window[i] \in Task \cup {Null}
  BY <1>1, ElementOfSeq DEF WindowFacts
<1>4. /\ T \in Seq(Task \cup {Null}) /\ Len(T) = Claimed - 1
      /\ \A i \in 1 .. Claimed - 1 : T[i] = Window[i]
  <2>1. /\ T \in Seq(Task \cup {Null})
        /\ Len(T) = IF 1 <= Claimed - 1 THEN Claimed - 1 - 1 + 1 ELSE 0
        /\ \A i \in 1 .. Claimed - 1 - 1 + 1 : T[i] = Window[1 + i - 1]
    BY <1>1, <1>3, SubSeqProperties DEF WindowFacts
  <2>2. QED
    BY <2>1, <1>1, <1>2 DEF WindowFacts
<1> HIDE DEF T
<1>5. \A i \in 1 .. Claimed - 1 : Window'[i] = T[i]
  BY <1>1, <1>2, <1>4 DEF WindowFacts
<1>6. Window' = T
  BY <1>1, <1>2, <1>4, <1>5, SeqEqual, Zenon DEF WindowFacts
<1>7. QED
  BY <1>1, <1>2, <1>6 DEF T, WindowFacts

LEMMA StolenWindow ==
  ASSUME DequeInv, DequeInv', top' = top + 1, WindowEnd' = WindowEnd, top < WindowEnd,
         UNCHANGED buffer
  PROVE  Window' = Tail(Window) /\ Window # <<>>
<1> DEFINE T == Tail(Window)
<1>1. WindowFacts /\ WindowFacts'
  BY WindowIs, WindowNext
<1>2. Claimed = WindowEnd - top /\ Claimed' = Claimed - 1 /\ Claimed >= 1
  BY <1>1 DEF Claimed, WindowFacts
<1>3. Window # <<>>
  BY <1>1, <1>2, EmptySeq DEF WindowFacts
<1>4. /\ T \in Seq(Task \cup {Null}) /\ Len(T) = Claimed - 1
      /\ \A i \in 1 .. Claimed - 1 : T[i] = Window[i + 1]
  BY <1>1, <1>3, HeadTailProperties DEF WindowFacts
<1> HIDE DEF T
<1>5. \A i \in 1 .. Claimed - 1 : Window'[i] = T[i]
  <2> SUFFICES ASSUME NEW i \in 1 .. Claimed - 1 PROVE Window'[i] = T[i]
    OBVIOUS
  <2>1. i + 1 \in 1 .. Claimed /\ top + 1 + i - 1 = top + (i + 1) - 1
    BY <1>1, <1>2 DEF WindowFacts
  <2>2. Window'[i] = buffer[Slot(top + 1 + i - 1)]
    BY <1>1, <1>2 DEF WindowFacts
  <2>3. Window[i + 1] = buffer[Slot(top + (i + 1) - 1)]
    BY <1>1, <2>1 DEF WindowFacts
  <2>4. QED
    BY <2>1, <2>2, <2>3, <1>4
<1>6. Window' = T
  BY <1>1, <1>2, <1>4, <1>5, SeqEqual, Zenon DEF WindowFacts
<1>7. QED
  BY <1>3, <1>6 DEF T
-----------------------------------------------------------------------------
(* There are finitely many stores that publish a task.                     *)
LEMMA UnpublishedFinite ==
  ASSUME DequeInv
  PROVE  /\ IsFiniteSet(Unpublished) /\ Cardinality(Unpublished) \in Nat
         /\ Unpublished \subseteq 1 .. Len(stores)
<1>1. Unpublished \subseteq 1 .. Len(stores)
  BY Facts DEF Unpublished
<1>2. IsFiniteSet(1 .. Len(stores))
  BY FS_Interval, Numbers
<1>3. QED
  BY <1>1, <1>2, FS_Subset, FS_CardinalityType

(* A store that publishes nothing leaves the count of those that do.       *)
LEMMA OtherStore ==
  ASSUME DequeInv, NEW e \in Entry, Store(e), e.to = "slot" \/ e.at = 0
  PROVE  Unpublished' = Unpublished
<1>1. /\ Len(stores) \in Nat /\ Len(stores') = Len(stores) + 1
      /\ DOMAIN stores = 1 .. Len(stores) /\ DOMAIN stores' = 1 .. Len(stores')
      /\ \A k \in DOMAIN stores : stores'[k] = stores[k]
      /\ stores'[Len(stores) + 1] = e
  BY Facts, Appended
<1>2. Len(stores) + 1 \notin Unpublished' /\ Len(stores) + 1 \notin Unpublished
  BY <1>1 DEF Unpublished
<1>3. \A k \in DOMAIN stores : k \in Unpublished' <=> k \in Unpublished
  BY <1>1 DEF Unpublished
<1>4. Unpublished \subseteq DOMAIN stores /\ Unpublished' \subseteq 1 .. Len(stores) + 1
  BY <1>1 DEF Unpublished
<1>5. \A k \in 1 .. Len(stores) + 1 : k \in DOMAIN stores \/ k = Len(stores) + 1
  BY <1>1
<1>6. QED
  BY <1>2, <1>3, <1>4, <1>5

(* The store that ends a push is one more of them.                         *)
LEMMA PublishingStore ==
  ASSUME DequeInv, NEW e \in Entry, Store(e), e.to = "bottom", e.at > 0
  PROVE  Cardinality(Unpublished') = Cardinality(Unpublished) + 1
<1>1. /\ Len(stores) \in Nat /\ Len(stores') = Len(stores) + 1
      /\ DOMAIN stores = 1 .. Len(stores) /\ DOMAIN stores' = 1 .. Len(stores')
      /\ \A k \in DOMAIN stores : stores'[k] = stores[k]
      /\ stores'[Len(stores) + 1] = e
  BY Facts, Appended
<1>2. Len(stores) + 1 \in Unpublished' /\ Len(stores) + 1 \notin Unpublished
  BY <1>1 DEF Unpublished
<1>3. \A k \in DOMAIN stores : k \in Unpublished' <=> k \in Unpublished
  BY <1>1 DEF Unpublished
<1>4. Unpublished \subseteq DOMAIN stores /\ Unpublished' \subseteq 1 .. Len(stores) + 1
  BY <1>1 DEF Unpublished
<1>5. \A k \in 1 .. Len(stores) + 1 : k \in DOMAIN stores \/ k = Len(stores) + 1
  BY <1>1
<1>6. Unpublished' = Unpublished \cup {Len(stores) + 1}
  BY <1>2, <1>3, <1>4, <1>5
<1>7. QED
  BY <1>2, <1>6, UnpublishedFinite, FS_AddElement

(* Draining moves the stores that are left one place to the front.         *)
LEMMA DrainedCount ==
  ASSUME DequeInv, Drain
  PROVE  /\ Cardinality(Unpublished') = Cardinality(Unpublished \ {1})
         /\ 1 \in Unpublished <=> First.to = "bottom" /\ First.at > 0
<1> DEFINE S == Unpublished \ {1}
           f == [k \in S |-> k - 1]
<1>1. /\ stores # <<>> /\ Len(stores) \in Nat \ {0} /\ Len(stores') = Len(stores) - 1
      /\ DOMAIN stores = 1 .. Len(stores) /\ DOMAIN stores' = 1 .. Len(stores')
      /\ \A k \in DOMAIN stores' : k + 1 \in DOMAIN stores /\ stores'[k] = stores[k + 1]
      /\ First = stores[1]
  BY Drained, Facts DEF Drain, First
<1>2. \A k \in S : k \in Int /\ k - 1 \in Unpublished'
  <2> SUFFICES ASSUME NEW k \in S PROVE k \in Int /\ k - 1 \in Unpublished'
    OBVIOUS
  <2>1. k \in 1 .. Len(stores) /\ k # 1 /\ stores[k].to = "bottom" /\ stores[k].at > 0
    BY <1>1 DEF Unpublished
  <2>2. k - 1 \in 1 .. Len(stores') /\ (k - 1) + 1 = k
    BY <2>1, <1>1
  <2>3. stores'[k - 1] = stores[k]
    BY <2>2, <1>1
  <2>4. QED
    BY <2>1, <2>2, <2>3, <1>1 DEF Unpublished
<1>3. \A k \in Unpublished' : k + 1 \in S /\ k \in Int /\ (k + 1) - 1 = k
  BY <1>1 DEF Unpublished
<1>4. f \in Bijection(S, Unpublished')
  <2>1. f \in [S -> Unpublished']
    BY <1>2
  <2>2. \A a, b \in S : f[a] = f[b] => a = b
    BY <1>2
  <2>3. \A t \in Unpublished' : \E s \in S : f[s] = t
    BY <1>3
  <2>4. QED
    BY <2>1, <2>2, <2>3, Fun_IsBij
<1>5. IsFiniteSet(S)
  BY UnpublishedFinite, FS_RemoveElement
<1>6. Cardinality(Unpublished') = Cardinality(S)
  BY <1>4, <1>5, FS_Bijection, Fun_ExistsBij
<1>7. 1 \in Unpublished <=> First.to = "bottom" /\ First.at > 0
  BY <1>1 DEF Unpublished
<1>8. QED
  BY <1>6, <1>7

(* The task that a store publishes follows from the store's place.         *)
LEMMA UnpublishedEntry ==
  ASSUME DequeInv, NEW k \in Unpublished
  PROVE  /\ ~ (Retracted /\ k = Len(stores))
         /\ 2 * stores[k].at = 2 * pushed - (Last - k)
<1>1. k \in DOMAIN stores /\ stores[k].to = "bottom" /\ stores[k].at > 0
  BY DEF Unpublished
<1>2. StoreInv(k)
  BY <1>1 DEF DequeInv, StoresInv
<1>3. ToBottom(own.b, 0).at = 0 /\ ~ (0 > 0)
  BY DEF ToBottom
<1>4. QED
  BY <1>1, <1>2, <1>3 DEF StoreInv

(* The tasks that wait to be published are the youngest ones.              *)
LEMMA Youngest ==
  ASSUME DequeInv, NEW n \in Int, n <= pushed,
         \A k \in Unpublished : stores[k].at > n,
         \A a \in n + 1 .. pushed : \E k \in Unpublished : stores[k].at = a
  PROVE  Published = n
<1> DEFINE T == n + 1 .. pushed
           f == [k \in Unpublished |-> stores[k].at]
<1>1. ASSUME NEW k \in Unpublished
      PROVE  stores[k].at \in T /\ 2 * stores[k].at = 2 * pushed - (Last - k) /\ k \in Int
  <2> DEFINE a == stores[k].at
  <2>1. k \in 1 .. Len(stores) /\ stores[k].to = "bottom" /\ a > 0 /\ a > n
    BY UnpublishedFinite DEF Unpublished
  <2>2. ~ (Retracted /\ k = Len(stores)) /\ 2 * a = 2 * pushed - (Last - k)
    BY <2>1, UnpublishedEntry
  <2>3. a \in Int
    BY <2>1, Facts, EntryTypes, SMTT(30)
  <2>4. k <= Last + 1
    BY <2>1, <2>2, Numbers DEF Last
  <2> HIDE DEF a
  <2>5. a <= pushed
    BY <2>2, <2>3, <2>4, <2>1, Numbers, SMTT(30)
  <2>6. a \in T /\ k \in Int
    BY <2>1, <2>3, <2>5, Numbers
  <2>7. QED
    BY <2>2, <2>6 DEF a
<1>2. f \in Bijection(Unpublished, T)
  <2>1. f \in [Unpublished -> T]
    BY <1>1
  <2>2. \A a, b \in Unpublished : f[a] = f[b] => a = b
    <3> SUFFICES ASSUME NEW a \in Unpublished, NEW b \in Unpublished,
                        stores[a].at = stores[b].at
                 PROVE  a = b
      OBVIOUS
    <3>1. Last - a = Last - b /\ a \in Int /\ b \in Int
      <4>1. 2 * pushed - (Last - a) = 2 * pushed - (Last - b) /\ a \in Int /\ b \in Int
        BY <1>1
      <4>2. QED
        BY <4>1, Numbers
    <3>2. QED
      BY <3>1, Numbers
  <2>3. \A t \in T : \E s \in Unpublished : f[s] = t
    OBVIOUS
  <2>4. QED
    BY <2>1, <2>2, <2>3, Fun_IsBij
<1>3. IsFiniteSet(Unpublished) /\ Cardinality(Unpublished) \in Nat
  BY UnpublishedFinite
<1>4. Cardinality(T) = Cardinality(Unpublished)
  BY <1>2, <1>3, FS_Bijection, Fun_ExistsBij
<1>5. Cardinality(T) = pushed - n
  BY FS_Interval, Numbers
<1>6. QED
  BY <1>3, <1>4, <1>5, Numbers DEF Published

(* How many tasks are in memory when the oldest store is one to `bottom'.  *)
LEMMA PublishedTo ==
  ASSUME DequeInv, stores # <<>>, NEW d \in Nat, 2 * d = Last - 1,
         FirstPublishes \/ FirstRestores
  PROVE  Published = IF FirstPublishes THEN pushed - d - 1 ELSE pushed - d
<1> DEFINE n == IF FirstPublishes THEN pushed - d - 1 ELSE pushed - d
<1>1. /\ First = stores[1] /\ ~ (Retracted /\ Len(stores) = 1) /\ First.to = "bottom"
      /\ Len(stores) \in Nat /\ Len(stores) > 0 /\ DOMAIN stores = 1 .. Len(stores)
      /\ Last \in Int /\ pushed \in Int
  <2>1. First = stores[1] /\ ~ (Retracted /\ Len(stores) = 1) /\ First.to = "bottom"
    BY Heads DEF FirstPublishes, FirstRestores
  <2>2. /\ Len(stores) \in Nat /\ Len(stores) # 0 /\ DOMAIN stores = 1 .. Len(stores)
        /\ Last \in Int /\ pushed \in Int
    BY Facts
  <2>3. QED
    BY <2>1, <2>2
<1>2. FirstPublishes <=> First.at > 0
  BY DEF FirstPublishes, FirstRestores
<1>3. n \in Int /\ n <= pushed
  BY <1>1
<1>4. ASSUME NEW k \in Unpublished PROVE stores[k].at > n
  <2> DEFINE a == stores[k].at
  <2>1. k \in 1 .. Len(stores) /\ stores[k].to = "bottom" /\ a > 0
    BY UnpublishedFinite DEF Unpublished
  <2>2. 2 * a = 2 * pushed - (Last - k)
    BY UnpublishedEntry
  <2>3. a \in Int
    BY <2>1, Facts, EntryTypes, SMTT(30)
  <2>4. k = 1 => FirstPublishes
    BY <2>1, <1>1, <1>2
  <2> SUFFICES a > n
    OBVIOUS
  <2> HIDE DEF a, n
  <2>5. CASE FirstPublishes
    <3>1. k \in Int /\ 1 <= k
      BY <2>1, <1>1
    <3>2. 2 * a >= 2 * pushed - 2 * d
      BY <3>1, <2>2, <2>3, <1>1
    <3>3. a > pushed - d - 1
      BY <3>2, <2>3, <1>1
    <3>4. QED
      BY <3>3, <2>5 DEF n
  <2>6. CASE ~ FirstPublishes
    <3>1. k \in Int /\ 2 <= k
      BY <2>1, <2>4, <2>6, <1>1
    <3>2. 2 * a >= 2 * pushed - 2 * d + 1
      BY <3>1, <2>2, <2>3, <1>1
    <3>3. a > pushed - d
      BY <3>2, <2>3, <1>1
    <3>4. QED
      BY <3>3, <2>6 DEF n
  <2>7. QED
    BY <2>5, <2>6
<1>5. ASSUME NEW a \in n + 1 .. pushed PROVE \E k \in Unpublished : stores[k].at = a
  <2> DEFINE k == Last - 2 * (pushed - a)
  <2>1. a \in Int /\ n + 1 <= a /\ a <= pushed
    BY <1>3, <1>1
  <2>2. k \in Int /\ 1 <= k /\ k <= Last /\ (k = 1 => FirstPublishes)
    BY <2>1, <1>1
  <2>3. Last <= Len(stores) /\ (Retracted => Last = Len(stores) - 1)
    BY <1>1 DEF Last
  <2>4. k \in DOMAIN stores /\ ~ (Retracted /\ k = Len(stores))
    <3> HIDE DEF k
    <3>a. k \in Int /\ 1 <= k /\ k <= Last /\ Last <= Len(stores)
      BY <2>2, <2>3
    <3>b. Last \in Int /\ Len(stores) \in Int
      BY Numbers
    <3>1. k \in 1 .. Len(stores)
      BY <3>a, <3>b
    <3>2. Retracted => k # Len(stores)
      BY <2>2, <2>3, <1>1
    <3>3. QED
      BY <3>1, <3>2, <1>1
  <2>5. StoreInv(k) /\ stores[k].to \in {"slot", "bottom"} /\ stores[k].v \in Int
        /\ stores[k].at \in Int
    <3>1. StoreInv(k)
      BY <2>4 DEF DequeInv, StoresInv
    <3>2. stores[k] \in Entry
      BY <2>4, Facts
    <3>3. QED
      BY <3>1, <3>2, EntryTypes
  <2>6. stores[k].to = "bottom"
    <3> SUFFICES ASSUME stores[k].to = "slot" PROVE FALSE
      BY <2>5
    <3> DEFINE v == stores[k].v
    <3>1. 2 * v = 2 * pushed + 1 - (Last - k) /\ v \in Int
      BY <2>4, <2>5 DEF StoreInv
    <3> HIDE DEF v
    <3>2. Last - k = 2 * (pushed - a)
      BY <2>1, <1>1
    <3> HIDE DEF k
    <3>3. 2 * v = 2 * a + 1
      BY <3>1, <3>2, <2>1, <1>1
    <3>4. QED
      BY <3>1, <3>3, <2>1
  <2>7. stores[k].at > 0 /\ 2 * stores[k].at = 2 * pushed - (Last - k)
    <3>1. stores[k].at = 0 => k = 1
      BY <2>4, <2>5, <2>6 DEF StoreInv
    <3>2. stores[k].at # 0
      <4> SUFFICES ASSUME stores[k].at = 0 PROVE FALSE
        OBVIOUS
      <4>1. k = 1
        BY <3>1
      <4>2. stores[1].at = 0
        BY <4>1, Zenon
      <4>3. First.at > 0
        BY <4>1, <2>2, <1>2
      <4>4. QED
        BY <4>2, <4>3, <1>1
    <3>3. QED
      BY <3>2, <2>4, <2>5, <2>6 DEF StoreInv
  <2>8. stores[k].at = a
    <3> DEFINE b == stores[k].at
    <3>1. Last - k = 2 * (pushed - a)
      BY <2>1, <1>1
    <3>2. 2 * b = 2 * pushed - (Last - k) /\ b \in Int
      BY <2>5, <2>7
    <3> HIDE DEF b, k
    <3>3. b = a
      BY <3>1, <3>2, <2>1, <1>1
    <3>4. QED
      BY <3>3 DEF b
  <2>9. k \in Unpublished
    BY <2>4, <2>6, <2>7 DEF Unpublished
  <2>10. QED
    BY <2>8, <2>9
<1>6. QED
  BY <1>3, <1>4, <1>5, Youngest
-----------------------------------------------------------------------------
(* What the mapping of a step can be.                                      *)
Stutters ==
  /\ Window' = Window
  /\ Popping' <=> Popping
  /\ Spent' = Spent

Maps == Stutters \/ Abstract!Next

(* The store of a lost race finds `top' one ahead of `bottom'.             *)
LEMMA LostStoreIs == DequeInv => (LostStore => top = bottom + 1)
<1> SUFFICES ASSUME DequeInv, LostStore PROVE top = bottom + 1
  OBVIOUS
<1>1. stores # <<>> /\ First.to = "bottom" /\ First.v = bottom + 2 /\ bottom \in Int
  BY Numbers DEF LostStore, First
<1>2. First.v # bottom + 1 /\ First.v # bottom - 1
  BY <1>1
<1>3. QED
  BY <1>1, <1>2 DEF DequeInv, FirstInv

LEMMA LostStoreNext == (DequeInv => (LostStore => top = bottom + 1))'
BY LostStoreIs, PTL

(* The owner puts a store into its buffer: nobody sees a difference.       *)
LEMMA StoringMaps ==
  ASSUME DequeInv, DequeInv', NEW e \in Entry, Store(e), UNCHANGED <<top, bottom, buffer>>,
         own.pc \notin {"popCas", "popRead"}, own'.pc # "popCas"
  PROVE  /\ Window' = Window
         /\ LostStore' <=> IF stores = <<>> THEN e.to = "bottom" /\ e.v = bottom + 2
                           ELSE LostStore
<1>1. stores' # <<>> /\ Head(stores') = IF stores = <<>> THEN e ELSE Head(stores)
  BY Facts, Appended
<1>2. WindowEnd = bottom /\ WindowEnd' = bottom
  BY <1>1 DEF WindowEnd, Fence
<1>3. Window' = Window
  BY <1>2, SameWindow
<1>4. LostStore' <=> IF stores = <<>> THEN e.to = "bottom" /\ e.v = bottom + 2
                     ELSE LostStore
  BY <1>1 DEF LostStore
<1>5. QED
  BY <1>3, <1>4

(* The owner's steps that change nothing of the sequence.                  *)
LEMMA PushCheckMaps ==
  ASSUME DequeInv, DequeInv', PushCheck
  PROVE  Stutters
<1>1. /\ own.pc = "idle" /\ own'.pc = "pushStore"
      /\ UNCHANGED <<top, bottom, buffer, stores, pushed>>
  BY Types DEF PushCheck, DequeInv, OwnType
<1>2. WindowEnd' = WindowEnd
  BY <1>1 DEF WindowEnd
<1>3. Window' = Window
  BY <1>1, <1>2, SameWindow
<1>4. Popping' <=> Popping
  BY <1>1 DEF Popping, LostRace, LostStore
<1>5. Spent' = Spent
  BY <1>1 DEF Spent, Published, Unpublished
<1>6. QED
  BY <1>3, <1>4, <1>5 DEF Stutters

LEMMA PushStoreMaps ==
  ASSUME DequeInv, DequeInv', PushStore
  PROVE  Stutters
<1> DEFINE e == ToSlot(Slot(own.b), pushed + 1)
<1>1. /\ own.pc = "pushStore" /\ own'.pc = "pushPublish" /\ Store(e) /\ pushed < MaxIndex
      /\ UNCHANGED <<top, bottom, buffer, pushed>>
  BY Types DEF PushStore, DequeInv, OwnType, OwnInv
<1>2. e \in Entry /\ e.to = "slot"
  <2>1. Slot(own.b) \in 0 .. Capacity - 1
    BY Numbers, SlotType
  <2>2. pushed + 1 \in Task
    BY <1>1, Numbers DEF Task
  <2>3. QED
    BY <2>1, <2>2 DEF ToSlot, Entry
<1> HIDE DEF e
<1>3. Window' = Window /\ (LostStore' <=> stores # <<>> /\ LostStore)
  BY <1>1, <1>2, StoringMaps
<1>4. Popping' <=> Popping
  BY <1>1, <1>3 DEF Popping, LostRace, LostStore
<1>5. Spent' = Spent
  BY <1>1, <1>2, OtherStore DEF Spent, Published
<1>6. QED
  BY <1>3, <1>4, <1>5 DEF Stutters

LEMMA PushPublishMaps ==
  ASSUME DequeInv, DequeInv', PushPublish
  PROVE  Stutters
<1> DEFINE e == ToBottom(own.b + 1, pushed + 1)
<1>1. /\ own.pc = "pushPublish" /\ own' = Idle /\ Store(e) /\ pushed' = pushed + 1
      /\ own.b = Bottom /\ own.b < MaxIndex /\ pushed < MaxIndex /\ top <= own.b
      /\ UNCHANGED <<top, bottom, buffer>>
  BY Types DEF PushPublish, DequeInv, OwnInv, IndexInv, End
<1>2. e \in Entry /\ e.to = "bottom" /\ e.at > 0 /\ e.v = own.b + 1
  <2>1. own.b + 1 \in -1 .. MaxIndex + 2 /\ pushed + 1 \in 0 .. MaxIndex /\ pushed + 1 > 0
    BY <1>1, Numbers
  <2>2. QED
    BY <2>1 DEF ToBottom, Entry
<1> HIDE DEF e
<1>a. own'.pc = "idle"
  BY <1>1 DEF Idle
<1>3. /\ Window' = Window
      /\ LostStore' <=> IF stores = <<>> THEN e.v = bottom + 2 ELSE LostStore
  BY <1>1, <1>a, <1>2, StoringMaps
<1>4. Popping' <=> Popping
  <2>1. stores = <<>> => e.v # bottom + 2
    BY <1>1, <1>2, NothingStored, Numbers
  <2>2. QED
    BY <2>1, <1>1, <1>a, <1>3 DEF Popping, LostRace, LostStore
<1>5. Spent' = Spent
  <2>1. Cardinality(Unpublished') = Cardinality(Unpublished) + 1
    BY <1>1, <1>2, PublishingStore
  <2>2. Published' = Published
    BY <2>1, <1>1, UnpublishedFinite, Numbers DEF Published
  <2>3. QED
    BY <2>2 DEF Spent
<1>6. QED
  BY <1>3, <1>4, <1>5 DEF Stutters

LEMMA PopRetractMaps ==
  ASSUME DequeInv, DequeInv', PopRetract
  PROVE  Stutters
<1> DEFINE e == ToBottom(Bottom - 1, 0)
<1>1. /\ own.pc = "idle" /\ own'.pc = "popRead" /\ Store(e)
      /\ Bottom <= MaxIndex /\ top <= Bottom
      /\ UNCHANGED <<top, bottom, buffer, pushed>>
  BY Types DEF PopRetract, DequeInv, OwnType, IndexInv, End
<1>2. e \in Entry /\ e.to = "bottom" /\ e.at = 0 /\ e.v = Bottom - 1
  <2>1. Bottom - 1 \in -1 .. MaxIndex + 2 /\ 0 \in 0 .. MaxIndex
    BY <1>1, Numbers
  <2>2. QED
    BY <2>1 DEF ToBottom, Entry
<1> HIDE DEF e
<1>3. /\ Window' = Window
      /\ LostStore' <=> IF stores = <<>> THEN e.v = bottom + 2 ELSE LostStore
  BY <1>1, <1>2, StoringMaps
<1>4. Popping' <=> Popping
  <2>1. stores = <<>> => e.v # bottom + 2
    BY <1>1, <1>2, NothingStored, Numbers
  <2>2. QED
    BY <2>1, <1>1, <1>3 DEF Popping, LostRace, LostStore
<1>5. Spent' = Spent
  BY <1>1, <1>2, OtherStore DEF Spent, Published
<1>6. QED
  BY <1>3, <1>4, <1>5 DEF Stutters

LEMMA PopStoreMaps ==
  ASSUME DequeInv, DequeInv', PopStore
  PROVE  Stutters
<1> DEFINE e == ToBottom(own.t + 1, 0)
<1>1. /\ own.pc = "popStore" /\ own' = Idle /\ Store(e) /\ stores = <<>>
      /\ own.b = bottom /\ own.t \in {own.b, own.b + 1} /\ own.b < MaxIndex /\ top = own.b + 1
      /\ UNCHANGED <<top, bottom, buffer, pushed>>
  BY NothingStored DEF PopStore, DequeInv, OwnInv, IndexInv
<1>2. e \in Entry /\ e.to = "bottom" /\ e.at = 0 /\ e.v = own.t + 1
  <2>1. own.t + 1 \in -1 .. MaxIndex + 2 /\ 0 \in 0 .. MaxIndex
    BY <1>1, Numbers, SMTT(30)
  <2>2. QED
    BY <2>1 DEF ToBottom, Entry
<1> HIDE DEF e
<1>a. own'.pc = "idle"
  BY <1>1 DEF Idle
<1>3. Window' = Window /\ (LostStore' <=> e.v = bottom + 2)
  BY <1>1, <1>a, <1>2, StoringMaps
<1>4. Popping' <=> Popping
  <2>1. e.v = bottom + 2 <=> own.t # own.b
    BY <1>1, <1>2, Numbers
  <2>2. QED
    BY <2>1, <1>1, <1>a, <1>3 DEF Popping, LostRace, LostStore
<1>5. Spent' = Spent
  BY <1>1, <1>2, OtherStore DEF Spent, Published
<1>6. QED
  BY <1>3, <1>4, <1>5 DEF Stutters

LEMMA PopResetMaps ==
  ASSUME DequeInv, DequeInv', PopReset
  PROVE  Stutters
<1> DEFINE e == ToBottom(own.t, 0)
<1>1. /\ own.pc = "popReset" /\ own' = Idle /\ Store(e) /\ stores = <<>>
      /\ own.b = bottom /\ own.t = own.b + 1 /\ own.b < MaxIndex /\ top = own.b + 1
      /\ UNCHANGED <<top, bottom, buffer, pushed>>
  BY NothingStored DEF PopReset, DequeInv, OwnInv, IndexInv
<1>2. e \in Entry /\ e.to = "bottom" /\ e.at = 0 /\ e.v = own.t
  <2>1. own.t \in -1 .. MaxIndex + 2 /\ 0 \in 0 .. MaxIndex
    BY <1>1, Numbers
  <2>2. QED
    BY <2>1 DEF ToBottom, Entry
<1> HIDE DEF e
<1>a. own'.pc = "idle"
  BY <1>1 DEF Idle
<1>3. Window' = Window /\ (LostStore' <=> e.v = bottom + 2)
  BY <1>1, <1>a, <1>2, StoringMaps
<1>4. Popping' <=> Popping
  <2>1. e.v # bottom + 2
    BY <1>1, <1>2, Numbers
  <2>2. QED
    BY <2>1, <1>1, <1>a, <1>3 DEF Popping, LostRace, LostStore
<1>5. Spent' = Spent
  BY <1>1, <1>2, OtherStore DEF Spent, Published
<1>6. QED
  BY <1>3, <1>4, <1>5 DEF Stutters

(* Only a store entering or leaving the buffer changes what is published.  *)
LEMMA SameSpent ==
  ASSUME UNCHANGED <<stores, pushed>>
  PROVE  Spent' = Spent
BY DEF Spent, Published, Unpublished

(* A pop that sees two tasks takes one, one that sees the last task        *)
(* commits to it, one that sees none changes nothing.                      *)
LEMMA PopReadMaps ==
  ASSUME DequeInv, DequeInv', PopRead
  PROVE  Maps
<1>1. /\ own.pc = "popRead" /\ stores = <<>>
      /\ UNCHANGED <<top, bottom, buffer, stores, thief, pushed, phantoms>>
  BY DEF PopRead, Fence
<1>2. /\ own.b = bottom /\ WindowEnd = bottom + 1 /\ top <= bottom + 1
      /\ ~ Popping /\ ~ LostStore'
  BY <1>1, NothingStored
  DEF DequeInv, OwnInv, IndexInv, End, WindowEnd, Fence, Popping, LostRace, LostStore
<1>3. \/ top < own.b /\ own'.pc = "idle"
      \/ top = own.b /\ own'.pc = "popCas"
      \/ top > own.b /\ own'.pc = "popReset"
  <2>1. own \in OwnType
    BY Types DEF DequeInv
  <2>2. CASE top < own.b /\ own' = Idle
    BY <2>2 DEF Idle
  <2>3. CASE top = own.b /\ own' = [own EXCEPT !.pc = "popCas", !.t = top, !.item = Ring(own.b)]
    BY <2>1, <2>3 DEF OwnType
  <2>4. CASE top > own.b /\ own' = [own EXCEPT !.pc = "popReset", !.t = top]
    BY <2>1, <2>4 DEF OwnType
  <2>5. QED
    BY <2>2, <2>3, <2>4 DEF PopRead
<1>4. Spent' = Spent
  BY <1>1, SameSpent
<1>5. CASE top < own.b
  <2>1. own'.pc = "idle" /\ ~ Popping'
    BY <1>2, <1>3, <1>5, Numbers DEF Popping, LostRace
  <2>2. WindowEnd' = WindowEnd - 1 /\ top < WindowEnd
    BY <1>1, <1>2, <1>5, <2>1, Numbers DEF WindowEnd
  <2>3. Window' = SubSeq(Window, 1, Len(Window) - 1) /\ Len(Window) = WindowEnd - top
    BY <1>1, <2>2, ShorterWindow
  <2>4. Len(Window) > 1
    BY <1>2, <1>5, <2>3, Numbers
  <2>5. Abstract!Pop
    BY <1>2, <1>4, <2>1, <2>3, <2>4
    DEF Abstract!Pop, Abstract!Front, Popping, Spent, Published
  <2>6. QED
    BY <2>5 DEF Maps, Abstract!Next
<1>6. CASE top = own.b
  <2>1. own'.pc = "popCas" /\ Popping'
    BY <1>3, <1>6, Numbers DEF Popping
  <2>2. WindowEnd' = WindowEnd
    BY <1>1, <1>2, <2>1 DEF WindowEnd
  <2>3. Window' = Window
    BY <1>1, <2>2, SameWindow
  <2>4. Len(Window) = 1
    <3>1. WindowFacts
      BY WindowIs
    <3>2. WindowEnd = top + 1 /\ top \in Int
      BY <1>1, <1>2, <1>6, NothingStored, Numbers
    <3>3. Claimed = 1
      BY <3>2 DEF Claimed
    <3>4. QED
      BY <3>1, <3>3 DEF WindowFacts
  <2>5. Abstract!PopLast
    BY <1>2, <1>4, <2>1, <2>3, <2>4 DEF Abstract!PopLast, Popping, Spent, Published
  <2>6. QED
    BY <2>5 DEF Maps, Abstract!Next
<1>7. CASE top > own.b
  <2>1. own'.pc = "popReset" /\ ~ Popping'
    BY <1>2, <1>3, <1>7, Numbers DEF Popping, LostRace
  <2>2. WindowEnd' = bottom /\ WindowEnd <= top /\ WindowEnd' <= top'
    BY <1>1, <1>2, <1>7, <2>1, Numbers DEF WindowEnd
  <2>3. Window = <<>> /\ Window' = <<>>
    BY <2>2, EmptyWindow, EmptyWindowNext
  <2>4. QED
    BY <1>2, <1>4, <2>1, <2>3 DEF Maps, Stutters
<1>8. QED
  BY <1>3, <1>5, <1>6, <1>7

(* The compare-exchange for the last task wins it, or leaves the pop       *)
(* losing.                                                                 *)
LEMMA PopCasMaps ==
  ASSUME DequeInv, DequeInv', PopCas
  PROVE  Maps
<1>1. /\ own.pc = "popCas" /\ stores = <<>>
      /\ UNCHANGED <<bottom, buffer, stores, thief, pushed, phantoms>>
  BY DEF PopCas
<1>2. /\ own.b = bottom /\ own.t = own.b /\ WindowEnd = bottom + 1
      /\ bottom <= top /\ top <= bottom + 1
      /\ Popping /\ ~ LostStore'
  BY <1>1, NothingStored
  DEF DequeInv, OwnInv, IndexInv, End, WindowEnd, Popping, LostStore
<1>3. \/ /\ top = own.t /\ top' = top + 1
         /\ own'.pc = "popStore" /\ own'.t = own.t /\ own'.b = own.b
      \/ /\ top # own.t /\ top' = top
         /\ own'.pc = "popStore" /\ own'.t = top /\ own'.b = own.b
  <2>1. own \in OwnType
    BY Types DEF DequeInv
  <2>2. CASE top = own.t /\ top' = top + 1 /\ own' = [own EXCEPT !.pc = "popStore"]
    BY <2>1, <2>2 DEF OwnType
  <2>3. CASE /\ top # own.t /\ top' = top
             /\ own' = [own EXCEPT !.pc = "popStore", !.t = top, !.item = Null]
    BY <2>1, <2>3 DEF OwnType
  <2>4. QED
    BY <2>2, <2>3 DEF PopCas
<1>4. Spent' = Spent
  BY <1>1, SameSpent
<1>5. WindowEnd' = bottom /\ bottom \in Int /\ top \in Int
  BY <1>1, <1>3, Numbers DEF WindowEnd
<1>6. Window' = <<>>
  <2>1. WindowEnd' <= top'
    BY <1>2, <1>3, <1>5
  <2>2. QED
    BY <2>1, EmptyWindowNext
<1>7. CASE top = own.t
  <2>1. ~ Popping'
    BY <1>2, <1>3, <1>7 DEF Popping, LostRace
  <2>2. Window # <<>>
    <3>1. Len(Window) = 1 /\ Window \in Seq(Task \cup {Null})
      BY <1>2, <1>5, <1>7, WindowIs DEF WindowFacts, Claimed
    <3>2. QED
      BY <3>1, EmptySeq
  <2>3. Abstract!PopWin
    BY <1>2, <1>4, <1>6, <2>1, <2>2 DEF Abstract!PopWin, Popping, Spent, Published
  <2>4. QED
    BY <2>3 DEF Maps, Abstract!Next
<1>8. CASE top # own.t
  <2>1. Popping'
    BY <1>2, <1>3, <1>8 DEF Popping, LostRace
  <2>2. Window = <<>>
    <3>1. WindowEnd <= top
      BY <1>2, <1>5, <1>8
    <3>2. QED
      BY <3>1, EmptyWindow
  <2>3. QED
    BY <1>2, <1>4, <1>6, <2>1, <2>2 DEF Maps, Stutters
<1>9. QED
  BY <1>7, <1>8

(* A thief's compare-exchange, if it succeeds, steals the oldest task.     *)
LEMMA StealMaps ==
  ASSUME DequeInv, DequeInv', NEW w \in Thief, Steal(w)
  PROVE  Maps
<1>1. UNCHANGED <<bottom, buffer, stores, own, pushed, phantoms>>
  BY DEF Steal, StealTop, StealBottom, StealRead, StealCas
<1>2. WindowEnd' = WindowEnd /\ Spent' = Spent
  BY <1>1, SameSpent DEF WindowEnd, Fence
<1>3. Popping' <=> Popping
  BY <1>1 DEF Popping, LostRace, LostStore
<1>4. CASE top' = top
  <2>1. Window' = Window
    BY <1>1, <1>2, <1>4, SameWindow
  <2>2. QED
    BY <1>2, <1>3, <2>1 DEF Maps, Stutters
<1>5. CASE top' # top
  <2>1. thief[w].pc = "cas" /\ top = thief[w].t /\ top' = top + 1
    BY <1>5 DEF Steal, StealTop, StealBottom, StealRead, StealCas
  <2>2. top < WindowEnd
    BY <2>1, ThiefFacts
  <2>3. Window' = Tail(Window) /\ Window # <<>>
    BY <1>1, <1>2, <2>1, <2>2, StolenWindow
  <2>4. Abstract!Steal
    BY <1>2, <1>3, <2>3 DEF Abstract!Steal, Popping, Spent, Published
  <2>5. QED
    BY <2>4 DEF Maps, Abstract!Next
<1>6. QED
  BY <1>4, <1>5

(* A store that reaches the memory: one to `bottom' that publishes a task  *)
(* is the push of it, one that a lost race left is the loss, any other     *)
(* changes nothing.                                                        *)
LEMMA DrainMaps ==
  ASSUME DequeInv, DequeInv', Drain
  PROVE  Maps
<1>1. /\ stores # <<>> /\ stores' = Tail(stores)
      /\ \/ /\ First.to = "slot" /\ buffer' = [buffer EXCEPT ![First.at] = First.v]
            /\ bottom' = bottom
         \/ First.to = "bottom" /\ bottom' = First.v /\ buffer' = buffer
      /\ UNCHANGED <<top, own, thief, pushed, handed, phantoms>>
  BY DEF Drain, First
<1>2. /\ Len(stores) \in Nat \ {0} /\ Len(stores') = Len(stores) - 1
      /\ (stores' = <<>> <=> Len(stores) = 1)
  <2>1. /\ Len(stores) \in Nat \ {0} /\ Len(stores') = Len(stores) - 1
        /\ stores' \in Seq(Entry)
    BY <1>1, Facts, Drained
  <2>2. QED
    BY <2>1, EmptySeq
<1>3. own.pc \notin {"popCas", "popStore", "popReset"}
  BY <1>1 DEF DequeInv, OwnInv
<1>4. /\ WindowEnd = bottom /\ First.v \in Int
      /\ FirstFills \/ FirstPublishes \/ FirstRestores \/ FirstRetracts
  BY <1>1, Heads
<1>5. ~ (Retracted /\ Len(stores) = 1) => WindowEnd' = bottom'
  BY <1>1, <1>2, <1>3 DEF WindowEnd, Fence, Retracted
<1>6. (Popping <=> LostStore) /\ (Popping' <=> LostStore')
  BY <1>1, <1>3 DEF Popping, LostRace
<1>7. First.to = "slot" \/ First.at = 0 => Spent' = Spent
  <2> SUFFICES ASSUME First.to = "slot" \/ First.at = 0 PROVE Spent' = Spent
    OBVIOUS
  <2>1. 1 \notin Unpublished
    BY <1>1, DrainedCount
  <2>2. Cardinality(Unpublished') = Cardinality(Unpublished)
    BY <2>1, DrainedCount, Unpublished \ {1} = Unpublished
  <2>3. QED
    BY <2>2, <1>1 DEF Spent, Published
<1>8. CASE FirstFills
  <2>1. /\ First.to = "slot" /\ First.at = Slot(bottom) /\ top <= bottom
        /\ WindowEnd' = bottom
    BY <1>1, <1>5, <1>8 DEF FirstFills
  <2>2. bottom' = bottom /\ buffer' = [buffer EXCEPT ![Slot(bottom)] = First.v]
    BY <1>1, <2>1
  <2>3. ASSUME NEW i \in Int, top <= i, i < bottom PROVE buffer'[Slot(i)] = buffer[Slot(i)]
    <3>1. bottom - i < Capacity
      <4>1. top <= End /\ End - top <= Capacity - 1 /\ bottom <= End
        BY <1>3, <1>4, MemoryBehind DEF DequeInv, IndexInv
      <4>2. QED
        BY <4>1, <2>3, Numbers
    <3>2. Slot(i) # Slot(bottom)
      BY <2>3, <3>1, SlotsDiffer, Numbers
    <3>3. QED
      BY <2>2, <3>2, Types DEF DequeInv
  <2>4. Window' = Window
    BY <1>1, <1>4, <2>1, <2>3, SameWindow
  <2>5. ~ LostStore /\ ~ LostStore'
    <3>1. ~ (top = bottom + 1) /\ ~ (top' = bottom' + 1)
      BY <1>1, <2>1, <2>2, Numbers
    <3>2. QED
      BY <3>1, LostStoreIs, LostStoreNext
  <2>6. QED
    BY <1>6, <1>7, <2>1, <2>4, <2>5 DEF Maps, Stutters
<1>9. CASE FirstPublishes
  <2>1. /\ First.to = "bottom" /\ First.at > 0 /\ First.v = bottom + 1
        /\ 2 * First.v = 2 * End + 1 - Last /\ 2 * First.at = 2 * pushed + 1 - Last
        /\ buffer[Slot(bottom)] = First.at
        /\ top <= bottom /\ WindowEnd' = bottom'
    BY <1>5, <1>9 DEF FirstPublishes
  <2>2. bottom' = bottom + 1 /\ buffer' = buffer /\ top' = top
    BY <1>1, <2>1
  <2>3. Window' = Append(Window, First.at) /\ Len(Window) = bottom - top
    BY <1>4, <2>1, <2>2, LongerWindow
  <2>4. ~ LostStore /\ ~ LostStore'
    <3>1. ~ (top = bottom + 1) /\ ~ (top' = bottom' + 1)
      BY <2>1, <2>2, Numbers
    <3>2. QED
      BY <3>1, LostStoreIs, LostStoreNext
  <2> DEFINE a == First.at
             f == First.v
             d == End - f
  <2>5. /\ a \in Int /\ f \in Int /\ 2 * f = 2 * End + 1 - Last /\ 2 * a = 2 * pushed + 1 - Last
        /\ f = bottom + 1 /\ a > 0
    BY <1>1, <2>1, Heads
  <2>6. Last >= 0
    BY <1>2, Numbers DEF Last
  <2> HIDE DEF a, f
  <2>7. d \in Nat /\ 2 * d = Last - 1 /\ a = pushed - d
    BY <2>5, <2>6, Numbers
  <2>8. Published = a - 1
    <3>1. Published = pushed - d - 1
      BY <1>1, <1>9, <2>7, PublishedTo
    <3>2. QED
      BY <3>1, <2>5, <2>7, Numbers
  <2>9. Published' = a
    <3>1. 1 \in Unpublished /\ Cardinality(Unpublished') = Cardinality(Unpublished \ {1})
      BY <2>1, DrainedCount
    <3>2. Cardinality(Unpublished') = Cardinality(Unpublished) - 1
      BY <3>1, UnpublishedFinite, FS_RemoveElement
    <3>3. Published' = Published + 1
      BY <1>1, <3>2, UnpublishedFinite, Numbers DEF Published
    <3>4. QED
      BY <3>3, <2>5, <2>8
  <2>10. Spent' = Spent \cup {a}
    <3>1. 1 .. a = 1 .. (a - 1) \cup {a}
      BY <2>5
    <3>2. QED
      BY <3>1, <2>8, <2>9 DEF Spent
  <2>11. Len(Window) < Capacity - 1
    <3>1. top <= End /\ End - top <= Capacity - 1
      BY <1>3 DEF DequeInv, IndexInv
    <3>2. f <= End
      BY <2>5, <2>7, Numbers
    <3>3. bottom - top < Capacity - 1
      BY <3>1, <3>2, <2>5, Numbers
    <3>4. QED
      BY <3>3, <2>3
  <2>12. a \in Task
    <3>1. a <= pushed
      BY <2>5, <2>7, Numbers
    <3>2. pushed <= MaxIndex
      BY Facts
    <3>3. QED
      BY <3>1, <3>2, <2>5, Numbers DEF Task
  <2>13. Abstract!Push(a)
    <3>1. Window' = Append(Window, a)
      BY <2>3 DEF a
    <3>2. QED
      BY <3>1, <1>6, <2>4, <2>10, <2>11 DEF Abstract!Push, Popping, Spent, Published
  <2>14. QED
    BY <2>12, <2>13 DEF Maps, Abstract!Next
<1>10. CASE FirstRestores
  <2>1. /\ First.to = "bottom" /\ First.at = 0 /\ First.v \in {bottom + 1, bottom + 2}
        /\ 2 * First.v = 2 * End + 1 - Last
        /\ top = bottom + 1 /\ WindowEnd' = bottom'
    BY <1>5, <1>10 DEF FirstRestores
  <2>2. bottom' = First.v /\ buffer' = buffer /\ top' = top /\ bottom \in Int
    BY <1>1, <2>1, Numbers
  <2>3. Window = <<>>
    <3>1. WindowEnd <= top
      BY <1>4, <2>1, <2>2
    <3>2. QED
      BY <3>1, EmptyWindow
  <2>4. Spent' = Spent
    BY <1>7, <2>1
  <2>5. ~ Popping'
    <3>1. ~ (top' = bottom' + 1)
      BY <2>1, <2>2
    <3>2. QED
      BY <3>1, <1>6, LostStoreNext
  <2>6. CASE First.v = bottom + 1
    <3>1. ~ Popping
      BY <1>6, <2>2, <2>6 DEF LostStore, First
    <3>2. WindowEnd' <= top'
      BY <2>1, <2>2, <2>6
    <3>3. Window' = <<>>
      BY <3>2, EmptyWindowNext
    <3>4. QED
      BY <3>1, <3>3, <2>3, <2>4, <2>5 DEF Maps, Stutters
  <2>7. CASE First.v = bottom + 2
    <3> DEFINE x == buffer[Slot(top)]
               f == First.v
               d == End - f
    <3>1. Popping
      BY <1>1, <1>6, <2>1, <2>7 DEF LostStore, First
    <3>2. WindowEnd' = top + 1
      BY <2>1, <2>2, <2>7
    <3>3. Window' = <<x>>
      <4>1. /\ Window' \in Seq(Task \cup {Null}) /\ Len(Window') = 1
            /\ Window'[1] = buffer[Slot(top + 1 - 1)]
        <5>1. WindowFacts'
          BY WindowNext
        <5>2. Claimed' = 1 /\ top' = top /\ buffer' = buffer
          BY <2>1, <2>2, <3>2 DEF Claimed
        <5>3. 1 \in 1 .. 1
          OBVIOUS
        <5>4. QED
          BY <5>1, <5>2, <5>3 DEF WindowFacts
      <4>2. top + 1 - 1 = top
        BY <2>1, <2>2
      <4>3. QED
        BY <4>1, <4>2
    <3>4. f \in Int /\ 2 * f = 2 * End + 1 - Last /\ Last >= 0
      <4>1. Last >= 0
        BY <1>2, Numbers DEF Last
      <4>2. QED
        BY <4>1, <1>4, <2>1
    <3>5. x = Null \/ (x \in Int /\ x >= 1 /\ 2 * x <= 2 * pushed - Last + 1)
      <4>1. Slot(top) \in 0 .. Capacity - 1
        BY SlotType, Numbers
      <4>2. x \in Task \cup {Null}
        BY <4>1, Types DEF DequeInv
      <4>3. x = Null \/ 2 * x <= 2 * pushed - Last + 1
        BY <4>1 DEF DequeInv, BufferInv
      <4>4. QED
        BY <4>2, <4>3, Numbers DEF Task
    <3> HIDE DEF x, f
    <3>6. d \in Nat /\ 2 * d = Last - 1
      BY <3>4, Numbers
    <3>7. Published = pushed - d
      <4>1. ~ FirstPublishes
        BY <2>1 DEF FirstPublishes
      <4>2. QED
        BY <1>1, <1>10, <3>6, <4>1, PublishedTo
    <3>8. x = Null \/ x \in 1 .. Published
      BY <3>5, <3>6, <3>7, Numbers
    <3>9. x \in Spent
      BY <3>8 DEF Spent
    <3>10. Abstract!PopLose
      BY <2>3, <2>4, <2>5, <3>1, <3>3, <3>9 DEF Abstract!PopLose, Popping, Spent, Published
    <3>11. QED
      BY <3>10 DEF Maps, Abstract!Next
  <2>8. QED
    BY <2>1, <2>6, <2>7
<1>11. CASE FirstRetracts
  <2>1. /\ First.to = "bottom" /\ First.at = 0 /\ First.v = bottom - 1
        /\ own.pc = "popRead" /\ Len(stores) = 1 /\ top <= bottom
    BY <1>11 DEF FirstRetracts, Retracted
  <2>2. bottom' = bottom - 1 /\ buffer' = buffer /\ top' = top /\ stores' = <<>> /\ bottom \in Int
    BY <1>1, <1>2, <2>1, Numbers
  <2>3. WindowEnd' = WindowEnd
    BY <1>1, <1>4, <2>1, <2>2 DEF WindowEnd, Fence
  <2>4. Window' = Window
    BY <2>2, <2>3, SameWindow
  <2>5. ~ Popping /\ ~ Popping'
    BY <1>6, <2>1, <2>2 DEF LostStore, First
  <2>6. QED
    BY <1>7, <2>1, <2>4, <2>5 DEF Maps, Stutters
<1>12. QED
  BY <1>4, <1>8, <1>9, <1>10, <1>11

(* Every step of the code is a step of the sequence or changes nothing of  *)
(* it.                                                                     *)
LEMMA NextMaps ==
  ASSUME DequeInv, DequeInv', [Next]_vars
  PROVE  Maps
<1>1. CASE UNCHANGED vars
  BY <1>1 DEF vars, Maps, Stutters, Window, TasksTo, Fence, Popping, LostRace, LostStore,
              Spent, Published, Unpublished
<1>2. CASE Owner
  BY <1>2, PushCheckMaps, PushStoreMaps, PushPublishMaps, PopRetractMaps, PopReadMaps,
     PopCasMaps, PopStoreMaps, PopResetMaps DEF Owner, Maps
<1>3. QED
  BY <1>1, <1>2, DrainMaps, StealMaps DEF Next

(* The unlocked ring is the sequence of TaskDeque.                         *)
THEOREM Refinement == Spec => ImplementsTaskDeque
<1>1. Init => Abstract!Init
  <2> SUFFICES ASSUME Init PROVE Abstract!Init
    OBVIOUS
  <2>1. DequeInv /\ stores = <<>> /\ own.pc = "idle" /\ pushed = 0 /\ bottom = 0 /\ top = 0
    BY InitInv DEF Init, Idle
  <2>2. Window = <<>>
    <3>1. WindowEnd <= top
      BY <2>1 DEF WindowEnd
    <3>2. QED
      BY <2>1, <3>1, EmptyWindow
  <2>3. ~ (own.pc = "popCas" \/ LostRace \/ LostStore)
    BY <2>1 DEF LostRace, LostStore
  <2>4. 1 .. (pushed - Cardinality(Unpublished)) = {}
    <3>1. Unpublished = {}
      BY <2>1 DEF Unpublished
    <3>2. QED
      BY <3>1, <2>1, FS_EmptySet
  <2>5. QED
    BY <2>2, <2>3, <2>4 DEF Abstract!Init
<1>2. Maps => [Abstract!Next]_(Abstract!dequeVars)
  BY DEF Maps, Stutters, Abstract!dequeVars, Popping, Spent, Published
<1>3. DequeInv /\ DequeInv' /\ [Next]_vars => [Abstract!Next]_(Abstract!dequeVars)
  BY <1>2, NextMaps
<1>4. Spec => []DequeInv
  BY Invariance
<1>5. QED
  BY <1>1, <1>3, <1>4, PTL DEF Spec, ImplementsTaskDeque, Abstract!Spec
=============================================================================
