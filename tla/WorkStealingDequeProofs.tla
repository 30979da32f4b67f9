----------------------- MODULE WorkStealingDequeProofs -----------------------
(***************************************************************************)
(* Proofs about WorkStealingDeque.tla, for any capacity, any number of     *)
(* thieves and any bound on the indices: its type invariant and the two    *)
(* properties of its history.  The refinement of TaskDeque is proved in    *)
(* WorkStealingDequeRefinement.tla.                                        *)
(*                                                                         *)
(* What makes it work is what the store buffer can hold.  The owner's      *)
(* stores alternate: a slot, then the `bottom' that publishes it, again    *)
(* and again, perhaps after one `bottom' left by the pop before, perhaps   *)
(* followed by the `bottom' retracted by the pop that waits at its fence.  *)
(* So the index and the task of a store follow from its place counted from *)
(* the end of the buffer; twice the number, as two places make one push.   *)
(***************************************************************************)
EXTENDS WorkStealingDeque, SequenceTheorems, FiniteSetTheorems, TLAPS

(* A slot of the ring, and two indices less than a ring apart have         *)
(* different ones.                                                         *)
LEMMA SlotType ==
  ASSUME NEW i \in Int
  PROVE  Slot(i) \in 0 .. Capacity - 1
BY CapacityAssumption DEF Slot

LEMMA SlotsDiffer ==
  ASSUME NEW i \in Int, NEW j \in Int, i < j, j - i < Capacity
  PROVE  Slot(i) # Slot(j)
<1> DEFINE p == i \div Capacity
           q == j \div Capacity
<1>1. /\ p \in Int /\ q \in Int /\ Capacity \in Nat /\ Capacity > 0
      /\ i = Capacity * p + Slot(i)
      /\ j = Capacity * q + Slot(j)
  BY CapacityAssumption DEF Slot
<1> HIDE DEF p, q
<1> SUFFICES ASSUME Slot(i) = Slot(j) PROVE FALSE
  OBVIOUS
<1>2. Slot(i) \in Int
  BY SlotType
<1>3. j - i = Capacity * (q - p)
  BY <1>1, <1>2
<1>4. q - p > 0
  BY <1>1, <1>3
<1>5. Capacity * (q - p) >= Capacity
  BY <1>1, <1>4
<1>6. QED
  BY <1>3, <1>5, <1>1, <1>2, Capacity * (q - p) \in Int

(* The largest element of a set of numbers.                                *)
LEMMA MaxIs ==
  ASSUME NEW S \in SUBSET Int, NEW m \in S, \A y \in S : m >= y
  PROVE  Max(S) = m
<1>1. Max(S) \in S /\ \A y \in S : Max(S) >= y
  BY Zenon DEF Max
<1>2. Max(S) \in Int /\ m \in Int /\ Max(S) >= m /\ m >= Max(S)
  BY <1>1, Zenon
<1>3. QED
  BY <1>2

(* A set of positions has a last one.                                      *)
LEMMA LastOf ==
  ASSUME NEW n \in Nat, NEW S \in SUBSET (1 .. n), S # {}
  PROVE  Max(S) \in S /\ \A y \in S : Max(S) >= y
<1> DEFINE T == {n - k : k \in S}
<1>1. T \subseteq Nat /\ T # {}
  <2>1. \A k \in S : k \in 1 .. n /\ n - k \in Nat
    OBVIOUS
  <2>2. QED
    BY <2>1, Zenon
<1>2. PICK x \in T : \A y \in T : ~ (<<y, x>> \in OpToRel(<, Nat))
  BY <1>1, NatLessThanWellFounded, WFMin, Zenon
<1>3. \A y \in T : ~ (y < x)
  BY <1>1, <1>2 DEF OpToRel
<1>4. PICK m \in S : x = n - m
  OBVIOUS
<1>5. \A y \in S : m >= y
  <2> SUFFICES ASSUME NEW y \in S PROVE m >= y
    OBVIOUS
  <2>1. n - y \in T
    OBVIOUS
  <2>2. ~ (n - y < n - m)
    BY <2>1, <1>3, <1>4
  <2>3. QED
    BY <2>2
<1>6. QED
  BY <1>5, MaxIs

-----------------------------------------------------------------------------
(* A store of the owner, and the positions of those to `bottom' and to a   *)
(* slot.                                                                   *)
Entry == [to : {"slot"}, at : 0 .. Capacity - 1, v : Task]
         \cup [to : {"bottom"}, at : 0 .. MaxIndex, v : -1 .. MaxIndex + 2]

BottomStores == {k \in DOMAIN stores : stores[k].to = "bottom"}
SlotStores(i) ==
  {k \in DOMAIN stores : stores[k].to = "slot" /\ stores[k].at = Slot(i)}

(* The owner's view of an index or a slot: its last store to it, or the    *)
(* memory.                                                                 *)
LEMMA Views ==
  /\ Bottom = IF BottomStores = {} THEN bottom ELSE stores[Max(BottomStores)].v
  /\ \A i : Ring(i) = IF SlotStores(i) = {} THEN buffer[Slot(i)]
                      ELSE stores[Max(SlotStores(i))].v
BY DEF Bottom, Ring, Latest, BottomStores, SlotStores

LEMMA ViewsNext ==
  /\ Bottom' = IF BottomStores' = {} THEN bottom' ELSE stores'[Max(BottomStores')].v
  /\ \A i : Ring(i)' = IF SlotStores(i)' = {} THEN buffer'[Slot(i)]
                       ELSE stores'[Max(SlotStores(i)')].v
BY DEF Bottom, Ring, Latest, BottomStores, SlotStores

(* What the store buffer is after a store entered it or left it.           *)
LEMMA Appended ==
  ASSUME stores \in Seq(Entry), NEW e \in Entry, Store(e)
  PROVE  /\ stores' \in Seq(Entry)
         /\ Len(stores) \in Nat /\ Len(stores') = Len(stores) + 1
         /\ DOMAIN stores = 1 .. Len(stores) /\ DOMAIN stores' = 1 .. Len(stores')
         /\ \A k \in DOMAIN stores : stores'[k] = stores[k]
         /\ stores'[Len(stores) + 1] = e
         /\ stores' # <<>>
         /\ Head(stores') = IF stores = <<>> THEN e ELSE Head(stores)
BY AppendProperties, HeadTailProperties, EmptySeq DEF Store

LEMMA Drained ==
  ASSUME stores \in Seq(Entry), stores # <<>>, stores' = Tail(stores)
  PROVE  /\ stores' \in Seq(Entry)
         /\ Len(stores) \in Nat \ {0} /\ Len(stores') = Len(stores) - 1
         /\ DOMAIN stores = 1 .. Len(stores) /\ DOMAIN stores' = 1 .. Len(stores')
         /\ \A k \in DOMAIN stores' : k + 1 \in DOMAIN stores /\ stores'[k] = stores[k + 1]
         /\ Head(stores) = stores[1]
BY HeadTailProperties

(* A store to `bottom' changes what the owner sees there and nothing else. *)
LEMMA StoreToBottom ==
  ASSUME stores \in Seq(Entry), NEW v, NEW a, ToBottom(v, a) \in Entry,
         Store(ToBottom(v, a)), UNCHANGED <<bottom, buffer>>
  PROVE  /\ Bottom' = v
         /\ \A i : Ring(i)' = Ring(i)
<1> DEFINE e == ToBottom(v, a)
<1>1. /\ Len(stores) \in Nat /\ Len(stores') = Len(stores) + 1
      /\ DOMAIN stores = 1 .. Len(stores) /\ DOMAIN stores' = 1 .. Len(stores')
      /\ \A k \in DOMAIN stores : stores'[k] = stores[k]
      /\ stores'[Len(stores) + 1] = e
  BY Appended
<1>2. e.to = "bottom" /\ e.v = v
  BY DEF ToBottom
<1> HIDE DEF e
<1>3. Bottom' = v
  <2>1. Len(stores) + 1 \in BottomStores' /\ BottomStores' \subseteq 1 .. Len(stores) + 1
    BY <1>1, <1>2 DEF BottomStores
  <2>2. Max(BottomStores') = Len(stores) + 1
    BY <2>1, <1>1, MaxIs
  <2>3. QED
    BY <2>1, <2>2, <1>1, <1>2, ViewsNext
<1>4. ASSUME NEW i PROVE Ring(i)' = Ring(i)
  <2>1. SlotStores(i)' = SlotStores(i) /\ SlotStores(i) \subseteq 1 .. Len(stores)
    BY <1>1, <1>2 DEF SlotStores
  <2>2. CASE SlotStores(i) = {}
    BY <2>1, <2>2, Views, ViewsNext
  <2>3. CASE SlotStores(i) # {}
    <3>1. Max(SlotStores(i)) \in SlotStores(i)
      BY <2>1, <2>3, <1>1, LastOf
    <3>2. stores'[Max(SlotStores(i))] = stores[Max(SlotStores(i))]
      BY <3>1, <1>1, <2>1
    <3>3. QED
      BY <3>2, <2>1, <2>3, Views, ViewsNext
  <2>4. QED
    BY <2>2, <2>3
<1>5. QED
  BY <1>3, <1>4

(* A store to a slot changes what the owner sees in that slot and nothing  *)
(* else.                                                                   *)
LEMMA StoreToSlot ==
  ASSUME stores \in Seq(Entry), NEW b \in Int, NEW x, ToSlot(Slot(b), x) \in Entry,
         Store(ToSlot(Slot(b), x)), UNCHANGED <<bottom, buffer>>
  PROVE  /\ Bottom' = Bottom
         /\ \A i : Ring(i)' = IF Slot(i) = Slot(b) THEN x ELSE Ring(i)
<1> DEFINE e == ToSlot(Slot(b), x)
<1>1. /\ Len(stores) \in Nat /\ Len(stores') = Len(stores) + 1
      /\ DOMAIN stores = 1 .. Len(stores) /\ DOMAIN stores' = 1 .. Len(stores')
      /\ \A k \in DOMAIN stores : stores'[k] = stores[k]
      /\ stores'[Len(stores) + 1] = e
  BY Appended
<1>2. e.to = "slot" /\ e.v = x /\ e.at = Slot(b)
  BY DEF ToSlot
<1> HIDE DEF e
<1>3. Bottom' = Bottom
  <2>1. BottomStores' = BottomStores /\ BottomStores \subseteq 1 .. Len(stores)
    BY <1>1, <1>2 DEF BottomStores
  <2>2. CASE BottomStores = {}
    BY <2>1, <2>2, Views, ViewsNext
  <2>3. CASE BottomStores # {}
    <3>1. Max(BottomStores) \in BottomStores
      BY <2>1, <2>3, <1>1, LastOf
    <3>2. stores'[Max(BottomStores)] = stores[Max(BottomStores)]
      BY <3>1, <1>1, <2>1
    <3>3. QED
      BY <3>2, <2>1, <2>3, Views, ViewsNext
  <2>4. QED
    BY <2>2, <2>3
<1>4. ASSUME NEW i PROVE Ring(i)' = IF Slot(i) = Slot(b) THEN x ELSE Ring(i)
  <2>1. CASE Slot(i) = Slot(b)
    <3>1. /\ Len(stores) + 1 \in SlotStores(i)'
          /\ SlotStores(i)' \subseteq 1 .. Len(stores) + 1
      BY <1>1, <1>2, <2>1 DEF SlotStores
    <3>2. Max(SlotStores(i)') = Len(stores) + 1
      BY <3>1, <1>1, MaxIs
    <3>3. QED
      BY <2>1, <3>1, <3>2, <1>1, <1>2, ViewsNext
  <2>2. CASE Slot(i) # Slot(b)
    <3>1. SlotStores(i)' = SlotStores(i) /\ SlotStores(i) \subseteq 1 .. Len(stores)
      BY <1>1, <1>2, <2>2 DEF SlotStores
    <3>2. CASE SlotStores(i) = {}
      BY <2>2, <3>1, <3>2, Views, ViewsNext
    <3>3. CASE SlotStores(i) # {}
      <4>1. Max(SlotStores(i)) \in SlotStores(i)
        BY <3>1, <3>3, <1>1, LastOf
      <4>2. stores'[Max(SlotStores(i))] = stores[Max(SlotStores(i))]
        BY <4>1, <1>1, <3>1
      <4>3. QED
        BY <4>2, <2>2, <3>1, <3>3, Views, ViewsNext
    <3>4. QED
      BY <3>2, <3>3
  <2>3. QED
    BY <2>1, <2>2
<1>5. QED
  BY <1>3, <1>4

(* Draining shifts positions by one: the latest store of a kind stays the  *)
(* latest, unless it was the one that left.                                *)
LEMMA LatestShifts ==
  ASSUME stores \in Seq(Entry), stores # <<>>, stores' = Tail(stores),
         NEW S \in SUBSET DOMAIN stores, NEW T \in SUBSET DOMAIN stores',
         \A k \in DOMAIN stores' : k \in T <=> k + 1 \in S
  PROVE  /\ T # {} => S # {} /\ stores'[Max(T)] = stores[Max(S)]
         /\ T = {} /\ S # {} => 1 \in S /\ stores[Max(S)] = Head(stores)
<1>1. /\ Len(stores) \in Nat \ {0} /\ Len(stores') = Len(stores) - 1
      /\ DOMAIN stores = 1 .. Len(stores) /\ DOMAIN stores' = 1 .. Len(stores')
      /\ \A k \in DOMAIN stores' : k + 1 \in DOMAIN stores /\ stores'[k] = stores[k + 1]
      /\ Head(stores) = stores[1]
  BY Drained
<1>2. \A k \in S : k # 1 => k - 1 \in T
  <2>1. \A k \in DOMAIN stores : k # 1 => k - 1 \in DOMAIN stores' /\ (k - 1) + 1 = k
    BY <1>1
  <2>2. QED
    BY <2>1
<1>3. ASSUME T # {} PROVE S # {} /\ stores'[Max(T)] = stores[Max(S)]
  <2>1. Max(T) \in T /\ \A y \in T : Max(T) >= y
    <3>1. Len(stores') \in Nat /\ T \in SUBSET (1 .. Len(stores'))
      BY <1>1
    <3>2. QED
      BY <3>1, <1>3, LastOf
  <2>2. Max(T) + 1 \in S
    BY <2>1
  <2>3. \A y \in S : Max(T) + 1 >= y
    BY <2>1, <1>1, <1>2
  <2>4. Max(S) = Max(T) + 1
    BY <2>2, <2>3, <1>1, MaxIs
  <2>5. QED
    BY <2>1, <2>2, <2>4, <1>1
<1>4. ASSUME T = {}, S # {} PROVE 1 \in S /\ stores[Max(S)] = Head(stores)
  <2>1. S = {1}
    BY <1>2, <1>4
  <2>2. Max(S) = 1
    BY <2>1, MaxIs, SMTT(30)
  <2>3. QED
    BY <2>1, <2>2, <1>1
<1>5. QED
  BY <1>3, <1>4

(* The owner does not see its stores reach the memory.                     *)
LEMMA DrainHidden ==
  ASSUME stores \in Seq(Entry), buffer \in [0 .. Capacity - 1 -> Task \cup {Null}], Drain
  PROVE  /\ Bottom' = Bottom
         /\ \A i \in Int : Ring(i)' = Ring(i)
<1>1. /\ stores # <<>> /\ stores' = Tail(stores)
      /\ \A k \in DOMAIN stores' : k + 1 \in DOMAIN stores /\ stores'[k] = stores[k + 1]
      /\ Head(stores) = stores[1] /\ Head(stores) \in Entry
      /\ 1 \in DOMAIN stores
  BY Drained DEF Drain
<1>2. Bottom' = Bottom
  <2>1. \A k \in DOMAIN stores' : k \in BottomStores' <=> k + 1 \in BottomStores
    BY <1>1 DEF BottomStores
  <2>2. /\ BottomStores' # {} => BottomStores # {}
                                 /\ stores'[Max(BottomStores')] = stores[Max(BottomStores)]
        /\ BottomStores' = {} /\ BottomStores # {} => 
             1 \in BottomStores /\ stores[Max(BottomStores)] = Head(stores)
    <3>1. BottomStores \in SUBSET DOMAIN stores /\ BottomStores' \in SUBSET DOMAIN stores'
      BY DEF BottomStores
    <3>2. QED
      BY <3>1, <2>1, <1>1, LatestShifts
  <2>3. CASE BottomStores' # {}
    BY <2>2, <2>3, Views, ViewsNext
  <2>4. CASE BottomStores' = {} /\ BottomStores # {}
    <3>1. Head(stores).to = "bottom"
      BY <2>2, <2>4, <1>1 DEF BottomStores
    <3>2. bottom' = Head(stores).v
      BY <3>1 DEF Drain
    <3>3. QED
      BY <2>2, <2>4, <3>2, Views, ViewsNext
  <2>5. CASE BottomStores' = {} /\ BottomStores = {}
    <3>1. Head(stores).to # "bottom"
      BY <2>5, <1>1 DEF BottomStores
    <3>2. bottom' = bottom
      BY <3>1 DEF Drain
    <3>3. QED
      BY <2>5, <3>2, Views, ViewsNext
  <2>6. QED
    BY <2>3, <2>4, <2>5
<1>3. ASSUME NEW i \in Int PROVE Ring(i)' = Ring(i)
  <2>0. Slot(i) \in 0 .. Capacity - 1
    BY SlotType
  <2>1. \A k \in DOMAIN stores' : k \in SlotStores(i)' <=> k + 1 \in SlotStores(i)
    BY <1>1 DEF SlotStores
  <2>2. /\ SlotStores(i)' # {} => SlotStores(i) # {}
                /\ stores'[Max(SlotStores(i)')] = stores[Max(SlotStores(i))]
        /\ SlotStores(i)' = {} /\ SlotStores(i) # {} =>
             1 \in SlotStores(i) /\ stores[Max(SlotStores(i))] = Head(stores)
    <3>1. SlotStores(i) \in SUBSET DOMAIN stores /\ SlotStores(i)' \in SUBSET DOMAIN stores'
      BY DEF SlotStores
    <3>2. QED
      BY <3>1, <2>1, <1>1, LatestShifts
  <2>3. CASE SlotStores(i)' # {}
    BY <2>2, <2>3, Views, ViewsNext
  <2>4. CASE SlotStores(i)' = {} /\ SlotStores(i) # {}
    <3>1. Head(stores).to = "slot" /\ Head(stores).at = Slot(i)
      BY <2>2, <2>4, <1>1 DEF SlotStores
    <3>2. buffer'[Slot(i)] = Head(stores).v
      BY <3>1, <2>0 DEF Drain
    <3>3. QED
      BY <2>2, <2>4, <3>2, Views, ViewsNext
  <2>5. CASE SlotStores(i)' = {} /\ SlotStores(i) = {}
    <3>1. ~ (Head(stores).to = "slot" /\ Head(stores).at = Slot(i))
      BY <2>5, <1>1 DEF SlotStores
    <3>2. buffer'[Slot(i)] = buffer[Slot(i)]
      BY <3>1, <1>1, <2>0 DEF Drain, Entry
    <3>3. QED
      BY <2>5, <3>2, Views, ViewsNext
  <2>6. QED
    BY <2>3, <2>4, <2>5
<1>4. QED
  BY <1>2, <1>3

(* With an empty store buffer the owner sees the memory.                   *)
LEMMA NothingStored ==
  ASSUME stores = <<>>
  PROVE  /\ Bottom = bottom
         /\ \A i : Ring(i) = buffer[Slot(i)]
<1>1. BottomStores = {} /\ \A i : SlotStores(i) = {}
  BY DEF BottomStores, SlotStores
<1>2. QED
  BY <1>1, Views

(* Only a store changes what the owner sees.                               *)
LEMMA ViewsKept ==
  ASSUME UNCHANGED <<stores, bottom, buffer>>
  PROVE  Bottom' = Bottom /\ \A i : Ring(i)' = Ring(i)
BY DEF Bottom, Ring, Latest
-----------------------------------------------------------------------------
(* The types of the two views.                                             *)
LEMMA ViewTypes ==
  ASSUME TypeOK
  PROVE  /\ Bottom \in -1 .. MaxIndex + 2
         /\ \A i \in Int : Ring(i) \in Task \cup {Null}
<1>0. /\ stores \in Seq(Entry) /\ DOMAIN stores = 1 .. Len(stores) /\ Len(stores) \in Nat
      /\ bottom \in -1 .. MaxIndex + 2
      /\ buffer \in [0 .. Capacity - 1 -> Task \cup {Null}]
  BY LenProperties DEF TypeOK, Entry
<1>1. Bottom \in -1 .. MaxIndex + 2
  <2>1. BottomStores \subseteq 1 .. Len(stores)
    BY <1>0 DEF BottomStores
  <2>2. CASE BottomStores # {}
    <3>1. Max(BottomStores) \in BottomStores
      BY <2>1, <2>2, <1>0, LastOf
    <3>2. /\ stores[Max(BottomStores)].to = "bottom"
          /\ stores[Max(BottomStores)] \in Entry
      BY <3>1, <1>0, ElementOfSeq DEF BottomStores
    <3>3. QED
      BY <3>2, <2>2, Views DEF Entry
  <2>3. QED
    BY <2>2, <1>0, Views
<1>2. ASSUME NEW i \in Int PROVE Ring(i) \in Task \cup {Null}
  <2>1. SlotStores(i) \subseteq 1 .. Len(stores)
    BY <1>0 DEF SlotStores
  <2>2. CASE SlotStores(i) # {}
    <3>1. Max(SlotStores(i)) \in SlotStores(i)
      BY <2>1, <2>2, <1>0, LastOf
    <3>2. /\ stores[Max(SlotStores(i))].to = "slot"
          /\ stores[Max(SlotStores(i))] \in Entry
      BY <3>1, <1>0, ElementOfSeq DEF SlotStores
    <3>3. QED
      BY <3>2, <2>2, Views DEF Entry
  <2>3. QED
    BY <2>2, <1>0, Views, SlotType
<1>3. QED
  BY <1>1, <1>2

-----------------------------------------------------------------------------
(* The inductive invariant.                                                *)

OwnType == [pc : {"idle", "pushStore", "pushPublish", "popRead", "popCas",
                  "popStore", "popReset"},
            b : -1 .. MaxIndex + 1, t : 0 .. MaxIndex + 1,
            item : Task \cup {Null}]

ThiefType == [pc : {"idle", "bottom", "read", "cas"}, b : {0}, t : 0 .. MaxIndex + 1,
              item : Task \cup {Null}]

(* The type invariant with its sets named, now and after a step.           *)
LEMMA Types ==
  TypeOK <=> /\ top \in 0 .. MaxIndex + 1
             /\ bottom \in -1 .. MaxIndex + 2
             /\ buffer \in [0 .. Capacity - 1 -> Task \cup {Null}]
             /\ stores \in Seq(Entry)
             /\ own \in OwnType
             /\ thief \in [Thief -> ThiefType]
             /\ pushed \in 0 .. MaxIndex
             /\ handed \in [Task -> Nat]
             /\ phantoms \in Nat
BY DEF TypeOK, Entry, OwnType, ThiefType

LEMMA TypesNext ==
  TypeOK' <=> /\ top' \in 0 .. MaxIndex + 1
              /\ bottom' \in -1 .. MaxIndex + 2
              /\ buffer' \in [0 .. Capacity - 1 -> Task \cup {Null}]
              /\ stores' \in Seq(Entry)
              /\ own' \in OwnType
              /\ thief' \in [Thief -> ThiefType]
              /\ pushed' \in 0 .. MaxIndex
              /\ handed' \in [Task -> Nat]
              /\ phantoms' \in Nat
BY DEF TypeOK, Entry, OwnType, ThiefType

(* The owner waits at its fence with the retracted `bottom' still in its   *)
(* buffer; where its own view ends and where the memory's does; the place  *)
(* of the last store that belongs to a finished push or pop; the oldest    *)
(* store.                                                                  *)
Retracted == own.pc = "popRead" /\ stores # <<>>
End == IF own.pc \in {"popRead", "popCas"} THEN Bottom + 1 ELSE Bottom
WindowEnd == IF own.pc = "popCas" \/ (own.pc = "popRead" /\ Fence)
             THEN bottom + 1 ELSE bottom
Last == Len(stores) - (IF own.pc = "pushPublish" \/ Retracted THEN 1 ELSE 0)
First == Head(stores)

(* What the owner's locals say about its view, at each program counter.    *)
OwnInv ==
  /\ own.pc # "idle" => own.b = Bottom /\ own.b < MaxIndex
  /\ own.pc \in {"pushStore", "pushPublish"} =>
       own.b - top < Capacity - 1 /\ pushed < MaxIndex
  /\ own.pc = "pushPublish" => Ring(own.b) = pushed + 1
  /\ own.pc \in {"popCas", "popStore", "popReset"} => stores = <<>>
  /\ own.pc = "popCas" => own.t = own.b /\ own.b <= top /\ own.item = Ring(own.b)
  /\ own.pc = "popStore" => own.t \in {own.b, own.b + 1}
  /\ own.pc = "popReset" => own.t = own.b + 1
  /\ own.pc \in {"popCas", "popStore"} => Capacity > 1

(* How the two indices are ordered: the view holds less than a ring, and   *)
(* `top' passes it by one only while a pop is still to restore `bottom'.   *)
IndexInv ==
  /\ own.pc \in {"popStore", "popReset"} => top = own.b + 1
  /\ own.pc \notin {"popStore", "popReset"} => top <= End /\ End - top <= Capacity - 1
  /\ End <= MaxIndex + 1

(* What the k-th store is.                                                 *)
StoreInv(k) ==
  \/ Retracted /\ k = Len(stores) /\ stores[k] = ToBottom(own.b, 0)
  \/ /\ ~ (Retracted /\ k = Len(stores))
     /\ stores[k].to = "bottom"
     /\ 2 * stores[k].v = 2 * End - (Last - k)
     /\ \/ stores[k].at = 0 /\ k = 1
        \/ stores[k].at > 0 /\ 2 * stores[k].at = 2 * pushed - (Last - k)
  \/ /\ ~ (Retracted /\ k = Len(stores))
     /\ stores[k].to = "slot"
     /\ 2 * stores[k].v = 2 * pushed + 1 - (Last - k)
     /\ stores[k].at = Slot(End - 1 + stores[k].v - pushed)

StoresInv == \A k \in DOMAIN stores : StoreInv(k)

(* What the oldest store will do to the memory.                            *)
FirstInv ==
  stores # <<>> =>
     \/ /\ First.to = "slot"
        /\ bottom = End - 1 + First.v - pushed
        /\ top <= bottom
     \/ /\ First.to = "bottom" /\ First.at > 0
        /\ First.v = bottom + 1
        /\ buffer[Slot(bottom)] = First.at
        /\ top <= bottom
     \/ /\ First.to = "bottom" /\ First.at = 0 /\ Last > 0
        /\ First.v \in {bottom + 1, bottom + 2}
        /\ top = bottom + 1
     \/ /\ First.to = "bottom" /\ First.at = 0 /\ Last = 0
        /\ First.v = bottom - 1
        /\ top <= bottom

(* A thief is never ahead of `top', and one that `top' has not passed      *)
(* since it looked holds a task that is there and, once it has read the    *)
(* slot, that task.                                                        *)
ThiefInv ==
  \A w \in Thief :
     /\ thief[w].t <= top
     /\ thief[w].t = top /\ thief[w].pc \in {"read", "cas"} => top < WindowEnd
     /\ thief[w].t = top /\ thief[w].pc = "cas" => thief[w].item = buffer[Slot(top)]

(* The ring holds no task younger than the stores that are still in the    *)
(* buffer allow: none that was pushed after the oldest of them.            *)
BufferInv ==
  \A i \in 0 .. Capacity - 1 :
    buffer[i] = Null \/ 2 * buffer[i] <= 2 * pushed - Last + 1

DequeInv ==
  TypeOK /\ OwnInv /\ IndexInv /\ StoresInv /\ FirstInv /\ ThiefInv /\ BufferInv

(* The invariant holds initially.                                          *)
LEMMA InitInv ==
  ASSUME Init
  PROVE  DequeInv
<1>1. /\ stores = <<>> /\ Len(stores) = 0 /\ DOMAIN stores = {} /\ stores \in Seq(Entry)
      /\ Bottom = 0 /\ own = Idle /\ own.pc = "idle"
  BY NothingStored, EmptySeq DEF Init, Idle
<1>2. End = 0 /\ Last = 0 /\ WindowEnd = 0
  BY <1>1 DEF End, Last, WindowEnd, Retracted, Init
<1>3. TypeOK
  BY <1>1, BoundAssumption, CapacityAssumption DEF TypeOK, Init, Entry, Idle
<1>4. OwnInv /\ IndexInv /\ StoresInv /\ FirstInv /\ ThiefInv /\ BufferInv
  BY <1>1, <1>2, BoundAssumption, CapacityAssumption
  DEF OwnInv, IndexInv, StoresInv, FirstInv, ThiefInv, BufferInv, Init, Idle
<1>5. QED
  BY <1>3, <1>4 DEF DequeInv

(* What the invariant says in the terms of the provers.                    *)
LEMMA Facts ==
  ASSUME DequeInv
  PROVE  /\ stores \in Seq(Entry) /\ Len(stores) \in Nat /\ DOMAIN stores = 1 .. Len(stores)
         /\ (stores = <<>> <=> Len(stores) = 0)
         /\ \A k \in 1 .. Len(stores) : stores[k] \in Entry
         /\ stores # <<>> => First = stores[1] /\ First \in Entry
         /\ Bottom \in -1 .. MaxIndex + 2 /\ bottom \in -1 .. MaxIndex + 2
         /\ top \in 0 .. MaxIndex + 1 /\ pushed \in 0 .. MaxIndex
         /\ own.pc \in {"idle", "pushStore", "pushPublish", "popRead", "popCas",
                        "popStore", "popReset"}
         /\ own.b \in -1 .. MaxIndex + 1 /\ own.t \in 0 .. MaxIndex + 1
         /\ own.item \in Task \cup {Null}
         /\ End \in Int /\ Last \in Int /\ MaxIndex \in Nat
         /\ Capacity \in Nat /\ Capacity > 0
<1>1. /\ stores \in Seq(Entry) /\ Len(stores) \in Nat /\ DOMAIN stores = 1 .. Len(stores)
      /\ bottom \in -1 .. MaxIndex + 2
      /\ top \in 0 .. MaxIndex + 1 /\ pushed \in 0 .. MaxIndex
      /\ own.pc \in {"idle", "pushStore", "pushPublish", "popRead", "popCas",
                        "popStore", "popReset"}
      /\ own.b \in -1 .. MaxIndex + 1 /\ own.t \in 0 .. MaxIndex + 1
      /\ own.item \in Task \cup {Null}
      /\ MaxIndex \in Nat /\ Capacity \in Nat /\ Capacity > 0
  BY LenProperties, BoundAssumption, CapacityAssumption DEF DequeInv, TypeOK, Entry
<1>2. /\ stores = <<>> <=> Len(stores) = 0
      /\ \A k \in 1 .. Len(stores) : stores[k] \in Entry
      /\ stores # <<>> => Head(stores) = stores[1] /\ Head(stores) \in Entry
  BY <1>1, EmptySeq, ElementOfSeq, HeadTailProperties
<1>3. Bottom \in -1 .. MaxIndex + 2
  BY ViewTypes DEF DequeInv
<1>4. End \in Int /\ Last \in Int
  BY <1>1, <1>3 DEF End, Last
<1>5. QED
  BY <1>1, <1>2, <1>3, <1>4 DEF First

LEMMA Numbers ==
  ASSUME DequeInv
  PROVE  /\ End \in Int /\ Last \in Int /\ top \in Int /\ bottom \in Int /\ Bottom \in Int
         /\ pushed \in Int /\ own.b \in Int /\ own.t \in Int
         /\ Capacity \in Int /\ MaxIndex \in Int /\ 0 <= top /\ 0 <= pushed /\ 0 <= MaxIndex
         /\ Len(stores) \in Int
BY Facts
-----------------------------------------------------------------------------
(* The store buffer.                                                       *)

(* The oldest store is the first of the buffer.                            *)
LEMMA FirstStore ==
  ASSUME DequeInv, stores # <<>>
  PROVE  StoreInv(1) /\ WindowEnd = bottom /\ First = stores[1] /\ 1 \in DOMAIN stores
<1>1. 1 \in DOMAIN stores /\ First = stores[1]
  BY Facts
<1>2. own.pc # "popCas" /\ ~ Fence
  BY DEF DequeInv, OwnInv, Fence
<1>3. QED
  BY <1>1, <1>2 DEF DequeInv, StoresInv, WindowEnd

(* The fields of a store.                                                  *)
LEMMA EntryTypes ==
  ASSUME NEW e \in Entry
  PROVE  /\ e.to \in {"slot", "bottom"} /\ e.at \in Nat /\ e.v \in Int
         /\ e.to = "slot" => e.at \in 0 .. Capacity - 1 /\ e.v \in Task
         /\ e.to = "bottom" => e.v \in -1 .. MaxIndex + 2 /\ e.at \in 0 .. MaxIndex
BY BoundAssumption, CapacityAssumption DEF Entry, Task

(* A pending store to a slot is to a slot outside of what the memory       *)
(* claims, and less than a ring away from `top'.                           *)
LEMMA Pending ==
  ASSUME DequeInv, NEW k \in DOMAIN stores, stores[k].to = "slot"
  PROVE  LET i == End - 1 + stores[k].v - pushed
         IN  /\ i \in Int /\ stores[k].at = Slot(i)
             /\ bottom <= i /\ top <= i /\ i <= End /\ i - top < Capacity
             /\ i = End => own.pc = "pushPublish"
<1> DEFINE v == stores[k].v
           f == First.v
           i == End - 1 + v - pushed
<1>1. /\ k \in 1 .. Len(stores) /\ Len(stores) \in Nat /\ stores # <<>>
      /\ stores[k] \in Entry /\ First \in Entry
      /\ End \in Int /\ Last \in Int /\ bottom \in Int /\ top \in Int /\ pushed \in Int
      /\ Capacity \in Nat
  BY Facts
<1>2. v \in Int /\ f \in Int /\ First.to \in {"slot", "bottom"}
  BY <1>1, EntryTypes
<1>3. ~ (Retracted /\ k = Len(stores))
  BY <1>1 DEF StoreInv, DequeInv, StoresInv, ToBottom
<1>4. 2 * v = 2 * pushed + 1 - (Last - k) /\ stores[k].at = Slot(i)
  BY <1>1, <1>3 DEF StoreInv, DequeInv, StoresInv
<1>a. 2 * v = 2 * pushed + 1 - (Last - k)
  BY <1>4
<1>5. /\ k <= Last + 1
      /\ k = Last + 1 => own.pc = "pushPublish"
  BY <1>1, <1>3 DEF Last
<1>6. /\ top <= End /\ End - top <= Capacity - 1
      /\ own.pc = "pushPublish" => End - top < Capacity - 1
  <2>1. own.pc \notin {"popStore", "popReset"}
    BY <1>1 DEF DequeInv, OwnInv
  <2>2. own.pc = "pushPublish" => End = own.b
    BY DEF DequeInv, OwnInv, End
  <2>3. QED
    BY <2>1, <2>2 DEF DequeInv, IndexInv, OwnInv
<1>7. StoreInv(1) /\ First = stores[1]
  BY <1>1, FirstStore
<1>b. /\ End \in Int /\ Last \in Int /\ bottom \in Int /\ top \in Int /\ Capacity \in Int
      /\ pushed \in Int /\ k \in Int
  BY <1>1
<1> DEFINE Goal == /\ i \in Int /\ bottom <= i /\ top <= i /\ i <= End /\ i - top < Capacity
                   /\ i = End => own.pc = "pushPublish"
<1>8. ASSUME First.to = "slot" PROVE Goal
  <2>1. bottom = End - 1 + f - pushed /\ top <= bottom
    BY <1>1, <1>8 DEF DequeInv, FirstInv
  <2>2. 2 * f = 2 * pushed + 1 - (Last - 1)
    BY <1>7, <1>8 DEF StoreInv, ToBottom
  <2> HIDE DEF v, f
  <2>3. 2 * bottom = 2 * End - Last /\ 2 * i = 2 * End - 1 - Last + k
    BY <2>1, <2>2, <1>1, <1>2, <1>a, SMTT(30)
  <2>4. i \in Int /\ 1 <= k /\ k \in Int
    BY <1>1, <1>2
  <2> HIDE DEF i
  <2>5. QED
    BY <2>1, <2>3, <2>4, <1>b, <1>5, <1>6
<1>9. ASSUME First.to = "bottom", Last > 0 PROVE Goal
  <2>1. 2 * f = 2 * End - (Last - 1)
    BY <1>7, <1>9, <1>1, <1>3 DEF StoreInv, Last
  <2>2. k # 1
    BY <1>7, <1>9
  <2>3. bottom < f /\ top <= f
    BY <1>1, <1>2, <1>9 DEF DequeInv, FirstInv
  <2> HIDE DEF v, f
  <2>4. 2 * f = 2 * End - Last + 1
    BY <2>1, <1>b, <1>2
  <2>7. 2 * i = 2 * End - 1 - Last + k
    BY <1>b, <1>2, <1>a
  <2>5. i \in Int /\ 2 <= k /\ k \in Int
    BY <1>1, <1>2, <2>2
  <2> HIDE DEF i
  <2>6. QED
    BY <2>3, <2>4, <2>5, <2>7, <1>b, <1>2, <1>5, <1>6
<1>10. ASSUME First.to = "bottom", Last <= 0 PROVE Goal
  BY <1>7, <1>10, <1>1, <1>3, <1>5
<1>11. Goal
  BY <1>8, <1>9, <1>10, <1>1, <1>2
<1>12. QED
  BY <1>4, <1>11

(* So the slots the memory claims hold what the owner put there.           *)
LEMMA MemoryAgrees ==
  ASSUME DequeInv, NEW i \in Int, top <= i, i < bottom
  PROVE  Ring(i) = buffer[Slot(i)]
<1>1. SlotStores(i) = {}
  <2> SUFFICES ASSUME NEW k \in SlotStores(i) PROVE FALSE
    OBVIOUS
  <2> DEFINE j == End - 1 + stores[k].v - pushed
  <2>1. k \in DOMAIN stores /\ stores[k].to = "slot" /\ stores[k].at = Slot(i)
    BY DEF SlotStores
  <2>2. j \in Int /\ Slot(j) = Slot(i) /\ bottom <= j /\ j - top < Capacity
    BY <2>1, Pending
  <2>3. i < j /\ j - i < Capacity
    <3>1. top \in Int /\ bottom \in Int /\ Capacity \in Int
      BY Facts
    <3> HIDE DEF j
    <3>2. QED
      BY <3>1, <2>2
  <2>4. QED
    BY <2>2, <2>3, SlotsDiffer
<1>2. QED
  BY <1>1, Views

-----------------------------------------------------------------------------
(* Every step keeps the invariant.                                         *)

LEMMA PushCheckStep ==
  ASSUME DequeInv, PushCheck
  PROVE  DequeInv'
<1>0. /\ own.pc = "idle" /\ own' = [own EXCEPT !.pc = "pushStore", !.b = Bottom]
      /\ UNCHANGED <<top, bottom, buffer, stores, thief, pushed, handed, phantoms>>
      /\ Bottom < MaxIndex /\ pushed < MaxIndex /\ Bottom - top < Capacity - 1
  BY DEF PushCheck
<1>1. own \in OwnType /\ own'.pc = "pushStore" /\ own'.b = Bottom
  BY <1>0, Types DEF DequeInv, OwnType
<1>2. Bottom' = Bottom /\ \A i : Ring(i)' = Ring(i)
  BY <1>0, ViewsKept
<1>3. /\ End' = End /\ Last' = Last /\ WindowEnd' = WindowEnd /\ ~ Retracted /\ ~ Retracted'
      /\ First' = First
  BY <1>0, <1>1, <1>2 DEF End, Last, WindowEnd, Retracted, First
<1>4. own' \in OwnType
  <2>1. Bottom \in -1 .. MaxIndex + 1
    BY <1>0, Facts
  <2>2. QED
    BY <2>1, <1>0, <1>1 DEF OwnType
<1>5. TypeOK'
  BY <1>0, <1>4, Types, TypesNext DEF DequeInv
<1>6. OwnInv'
  BY <1>0, <1>1, <1>2 DEF OwnInv
<1>7. IndexInv'
  BY <1>0, <1>1, <1>3 DEF IndexInv, DequeInv
<1>8. StoresInv'
  BY <1>0, <1>3 DEF StoresInv, StoreInv, DequeInv
<1>9. FirstInv' /\ ThiefInv' /\ BufferInv'
  BY <1>0, <1>3 DEF FirstInv, ThiefInv, BufferInv, DequeInv
<1>10. QED
  BY <1>5, <1>6, <1>7, <1>8, <1>9 DEF DequeInv

LEMMA PushStoreStep ==
  ASSUME DequeInv, PushStore
  PROVE  DequeInv'
<1> DEFINE e == ToSlot(Slot(own.b), pushed + 1)
<1>0. /\ own.pc = "pushStore" /\ own' = [own EXCEPT !.pc = "pushPublish"]
      /\ Store(e)
      /\ UNCHANGED <<top, bottom, buffer, thief, pushed, handed, phantoms>>
  BY DEF PushStore
<1>a. own \in OwnType
  BY Types DEF DequeInv
<1>1. /\ own' \in OwnType /\ own'.pc = "pushPublish" /\ own'.b = own.b
      /\ own.b \in Int
  BY <1>0, <1>a, Numbers DEF OwnType
<1>2. /\ own.b = Bottom /\ own.b < MaxIndex /\ own.b - top < Capacity - 1 /\ pushed < MaxIndex
  BY <1>0 DEF DequeInv, OwnInv
<1>3. e \in Entry
  <2>1. Slot(own.b) \in 0 .. Capacity - 1
    BY <1>1, SlotType
  <2>2. pushed + 1 \in Task
    BY <1>2, Numbers DEF Task
  <2>3. QED
    BY <2>1, <2>2 DEF ToSlot, Entry
<1>4. /\ Bottom' = Bottom
      /\ \A i : Ring(i)' = IF Slot(i) = Slot(own.b) THEN pushed + 1 ELSE Ring(i)
  BY <1>0, <1>1, <1>3, Facts, StoreToSlot
<1>5. /\ stores' \in Seq(Entry)
      /\ Len(stores) \in Nat /\ Len(stores') = Len(stores) + 1
      /\ DOMAIN stores = 1 .. Len(stores) /\ DOMAIN stores' = 1 .. Len(stores')
      /\ \A k \in DOMAIN stores : stores'[k] = stores[k]
      /\ stores'[Len(stores) + 1] = e
      /\ stores' # <<>>
      /\ First' = IF stores = <<>> THEN e ELSE First
  BY <1>0, <1>3, Facts, Appended DEF First
<1>6. /\ End' = End /\ Last' = Last /\ ~ Retracted /\ ~ Retracted'
      /\ WindowEnd' = WindowEnd /\ WindowEnd = bottom /\ Last = Len(stores)
      /\ End = Bottom
  BY <1>0, <1>1, <1>4, <1>5, Facts DEF End, Last, WindowEnd, Retracted
<1>7. TypeOK'
  BY <1>0, <1>1, <1>5, Types, TypesNext DEF DequeInv
<1>8. OwnInv'
  BY <1>0, <1>1, <1>2, <1>4 DEF OwnInv
<1>9. IndexInv'
  BY <1>0, <1>1, <1>6 DEF IndexInv, DequeInv
<1>10. StoresInv'
  <2> SUFFICES ASSUME NEW k \in DOMAIN stores' PROVE StoreInv(k)'
    BY DEF StoresInv
  <2>1. CASE k \in DOMAIN stores
    BY <2>1, <1>0, <1>5, <1>6 DEF StoreInv, StoresInv, DequeInv
  <2>2. CASE k = Len(stores) + 1
    <3>1. /\ stores'[k].to = "slot" /\ stores'[k].at = Slot(own.b) /\ stores'[k].v = pushed + 1
      BY <2>2, <1>5 DEF ToSlot
    <3>2. /\ 2 * (pushed + 1) = 2 * pushed + 1 - (Last - k)
          /\ own.b = End - 1 + (pushed + 1) - pushed
      BY <2>2, <1>2, <1>6, Numbers
    <3>3. QED
      BY <3>1, <3>2, <1>0, <1>6 DEF StoreInv
  <2>3. QED
    BY <2>1, <2>2, <1>5
<1>11. FirstInv'
  <2>1. CASE stores = <<>>
    <3>1. First'.to = "slot" /\ First'.v = pushed + 1
      BY <2>1, <1>5 DEF ToSlot
    <3>2. bottom = Bottom /\ top <= End
      BY <2>1, <1>0, NothingStored DEF DequeInv, IndexInv
    <3>3. bottom' = End' - 1 + First'.v - pushed' /\ top' <= bottom'
      BY <3>1, <3>2, <1>0, <1>6, Facts
    <3>4. QED
      BY <3>1, <3>3 DEF FirstInv
  <2>2. CASE stores # <<>>
    BY <2>2, <1>0, <1>5, <1>6 DEF FirstInv, DequeInv
  <2>3. QED
    BY <2>1, <2>2
<1>12. ThiefInv' /\ BufferInv'
  BY <1>0, <1>6 DEF ThiefInv, BufferInv, DequeInv
<1>13. QED
  BY <1>7, <1>8, <1>9, <1>10, <1>11, <1>12 DEF DequeInv

LEMMA PushPublishStep ==
  ASSUME DequeInv, PushPublish
  PROVE  DequeInv'
<1> DEFINE e == ToBottom(own.b + 1, pushed + 1)
<1>0. /\ own.pc = "pushPublish" /\ own' = Idle
      /\ Store(e) /\ pushed' = pushed + 1
      /\ UNCHANGED <<top, bottom, buffer, thief, handed, phantoms>>
  BY DEF PushPublish
<1>1. /\ own' \in OwnType /\ own'.pc = "idle" /\ own.b \in Int
  BY <1>0, Facts DEF OwnType, Idle
<1>2. /\ own.b = Bottom /\ own.b < MaxIndex /\ own.b - top < Capacity - 1 /\ pushed < MaxIndex
      /\ Ring(own.b) = pushed + 1
  BY <1>0 DEF DequeInv, OwnInv
<1>3. e \in Entry /\ e.to = "bottom" /\ e.at = pushed + 1 /\ e.v = own.b + 1
  BY <1>1, <1>2, Facts, SMTT(30) DEF ToBottom, Entry
<1>4. Bottom' = own.b + 1 /\ \A i : Ring(i)' = Ring(i)
  BY <1>0, <1>1, <1>3, Facts, StoreToBottom
<1>5. /\ stores' \in Seq(Entry)
      /\ Len(stores) \in Nat /\ Len(stores') = Len(stores) + 1
      /\ DOMAIN stores = 1 .. Len(stores) /\ DOMAIN stores' = 1 .. Len(stores')
      /\ \A k \in DOMAIN stores : stores'[k] = stores[k]
      /\ stores'[Len(stores) + 1] = e
      /\ stores' # <<>>
      /\ First' = IF stores = <<>> THEN e ELSE First
  BY <1>0, <1>3, Facts, Appended DEF First
<1> HIDE DEF e
<1>6. /\ End = own.b /\ End' = End + 1 /\ Last' = Last + 2 /\ ~ Retracted /\ ~ Retracted'
      /\ WindowEnd' = WindowEnd /\ WindowEnd = bottom /\ Last = Len(stores) - 1
  BY <1>0, <1>1, <1>2, <1>4, <1>5, Facts DEF End, Last, WindowEnd, Retracted
<1>7. TypeOK'
  <2>1. pushed' \in 0 .. MaxIndex
    BY <1>0, <1>2, Numbers
  <2>2. QED
    BY <2>1, <1>0, <1>1, <1>5, Types, TypesNext DEF DequeInv
<1>8. OwnInv'
  BY <1>1 DEF OwnInv
<1>9. IndexInv'
  <2>1. top <= End
    BY <1>0 DEF DequeInv, IndexInv
  <2>2. top \in Int /\ End \in Int /\ Capacity \in Int /\ MaxIndex \in Int
    BY Facts
  <2>3. QED
    BY <2>1, <2>2, <1>0, <1>1, <1>2, <1>6 DEF IndexInv
<1>10. StoresInv'
  <2> SUFFICES ASSUME NEW k \in DOMAIN stores' PROVE StoreInv(k)'
    BY DEF StoresInv
  <2>0. /\ End \in Int /\ Last \in Int /\ pushed \in Int /\ k \in Int
        /\ End' = End + 1 /\ Last' = Last + 2 /\ pushed' = pushed + 1
        /\ ~ Retracted /\ ~ Retracted'
    BY Facts, <1>0, <1>5, <1>6
  <2>1. CASE k \in DOMAIN stores
    <3> DEFINE s == stores[k]
               v == s.v
    <3>1. s = stores'[k] /\ StoreInv(k) /\ v \in Int /\ s.to \in {"slot", "bottom"} /\ s.at \in Int
      BY <2>1, <1>5, Facts, EntryTypes, SMTT(30) DEF StoresInv, DequeInv
    <3>2. CASE s.to = "bottom"
      <4>1. /\ 2 * v = 2 * End - (Last - k)
            /\ \/ s.at = 0 /\ k = 1
               \/ s.at > 0 /\ 2 * s.at = 2 * pushed - (Last - k)
        BY <3>1, <3>2, <2>0 DEF StoreInv
      <4>2. /\ 2 * v = 2 * End' - (Last' - k)
            /\ \/ s.at = 0 /\ k = 1
               \/ s.at > 0 /\ 2 * s.at = 2 * pushed' - (Last' - k)
        BY <4>1, <2>0, <3>1
      <4>3. QED
        BY <4>2, <3>1, <3>2, <2>0 DEF StoreInv
    <3>3. CASE s.to = "slot"
      <4>1. /\ 2 * v = 2 * pushed + 1 - (Last - k)
            /\ s.at = Slot(End - 1 + v - pushed)
        BY <3>1, <3>3, <2>0 DEF StoreInv
      <4>2. /\ 2 * v = 2 * pushed' + 1 - (Last' - k)
            /\ End' - 1 + v - pushed' = End - 1 + v - pushed
        BY <4>1, <2>0, <3>1
      <4>3. QED
        BY <4>1, <4>2, <3>1, <3>3, <2>0 DEF StoreInv
    <3>4. QED
      BY <3>1, <3>2, <3>3
  <2>2. CASE k = Len(stores) + 1
    <3>1. stores'[k] = e /\ k = Last'
      BY <2>2, <1>5, <1>6
    <3>2. /\ 2 * (own.b + 1) = 2 * End' - (Last' - k)
          /\ 2 * (pushed + 1) = 2 * pushed' - (Last' - k) /\ pushed + 1 > 0
      BY <3>1, <2>0, <1>1, <1>6, Facts, SMTT(30)
    <3>3. QED
      BY <3>1, <3>2, <1>3, <2>0 DEF StoreInv
  <2>3. QED
    BY <2>1, <2>2, <1>5
<1>11. FirstInv'
  <2>1. CASE stores = <<>>
    <3>1. bottom = Bottom /\ top <= End /\ buffer[Slot(bottom)] = Ring(own.b)
      BY <2>1, <1>0, <1>2, NothingStored DEF DequeInv, IndexInv
    <3>2. First'.to = "bottom" /\ First'.at = pushed + 1 /\ First'.v = own.b + 1
      BY <2>1, <1>5, <1>3
    <3>3. /\ First'.at > 0 /\ First'.v = bottom' + 1
          /\ buffer'[Slot(bottom')] = First'.at /\ top' <= bottom'
      BY <3>1, <3>2, <1>0, <1>2, <1>6, Facts, SMTT(30)
    <3>4. QED
      BY <3>2, <3>3 DEF FirstInv
  <2>2. CASE stores # <<>>
    <3>1. First.to = "slot" => First.v \in Int
      BY <2>2, Facts, EntryTypes
    <3>2. \A v \in Int : End' - 1 + v - pushed' = End - 1 + v - pushed
      <4>1. End \in Int /\ pushed \in Int /\ End' = End + 1 /\ pushed' = pushed + 1
        BY <1>0, <1>6, Numbers
      <4>2. QED
        BY <4>1
    <3>3. ~ (First.to = "bottom" /\ Last = 0)
      <4>1. First.to = "bottom" => 2 * First.v = 2 * End - (Last - 1)
        BY <2>2, FirstStore, <1>6 DEF StoreInv
      <4>2. First.v \in Int /\ End \in Int
        BY <2>2, Facts, EntryTypes
      <4> DEFINE f == First.v
      <4>3. First.to = "bottom" /\ Last = 0 => 2 * f = 2 * End + 1
        BY <4>1, <4>2
      <4>4. f \in Int
        BY <4>2
      <4> HIDE DEF f
      <4>5. QED
        BY <4>2, <4>3, <4>4
    <3>4. Last > 0 => Last' > 0
      BY <1>6, Facts
    <3>5. QED
      BY <2>2, <3>1, <3>2, <3>3, <3>4, <1>0, <1>5 DEF FirstInv, DequeInv
  <2>3. QED
    BY <2>1, <2>2
<1>12. ThiefInv'
  BY <1>0, <1>6 DEF ThiefInv, DequeInv
<1>13. BufferInv'
  <2>0. pushed \in Int /\ Last \in Int /\ pushed' = pushed + 1 /\ Last' = Last + 2
    BY <1>0, <1>6, Numbers
  <2>1. 2 * pushed' - Last' + 1 = 2 * pushed - Last + 1
    BY <2>0
  <2>2. QED
    BY <2>1, <1>0 DEF BufferInv, DequeInv
<1>14. QED
  BY <1>7, <1>8, <1>9, <1>10, <1>11, <1>12, <1>13 DEF DequeInv

LEMMA PopRetractStep ==
  ASSUME DequeInv, PopRetract
  PROVE  DequeInv'
<1> DEFINE e == ToBottom(Bottom - 1, 0)
<1>0. /\ own.pc = "idle" /\ own' = [own EXCEPT !.pc = "popRead", !.b = Bottom - 1]
      /\ Store(e) /\ Bottom <= MaxIndex
      /\ UNCHANGED <<top, bottom, buffer, thief, pushed, handed, phantoms>>
  BY DEF PopRetract
<1>a. own \in OwnType
  BY Types DEF DequeInv
<1>b. End = Bottom /\ top <= Bottom /\ Bottom \in Int /\ Bottom >= 0
  <2>1. End = Bottom /\ top <= End
    BY <1>0 DEF End, DequeInv, IndexInv
  <2>2. QED
    BY <2>1, Numbers
<1>1. /\ own' \in OwnType /\ own'.pc = "popRead" /\ own'.b = Bottom - 1
  <2>1. Bottom - 1 \in -1 .. MaxIndex + 1
    BY <1>b, <1>0, Numbers
  <2>2. QED
    BY <2>1, <1>0, <1>a, Numbers DEF OwnType
<1>3. e \in Entry /\ e.to = "bottom" /\ e.at = 0 /\ e.v = Bottom - 1
  <2>1. Bottom - 1 \in -1 .. MaxIndex + 2 /\ 0 \in 0 .. MaxIndex
    BY <1>b, <1>0, Numbers
  <2>2. QED
    BY <2>1 DEF ToBottom, Entry
<1>4. Bottom' = Bottom - 1 /\ \A i : Ring(i)' = Ring(i)
  BY <1>0, <1>3, Facts, StoreToBottom
<1>5. /\ stores' \in Seq(Entry)
      /\ Len(stores) \in Nat /\ Len(stores') = Len(stores) + 1
      /\ DOMAIN stores = 1 .. Len(stores) /\ DOMAIN stores' = 1 .. Len(stores')
      /\ \A k \in DOMAIN stores : stores'[k] = stores[k]
      /\ stores'[Len(stores) + 1] = e
      /\ stores' # <<>>
      /\ First' = IF stores = <<>> THEN e ELSE First
  BY <1>0, <1>3, Facts, Appended DEF First
<1>6. /\ End' = End /\ Last' = Last /\ ~ Retracted /\ Retracted'
      /\ WindowEnd' = WindowEnd /\ WindowEnd = bottom /\ Last = Len(stores)
  BY <1>0, <1>1, <1>b, <1>4, <1>5 DEF End, Last, WindowEnd, Retracted, Fence
<1>7. TypeOK'
  BY <1>0, <1>1, <1>5, Types, TypesNext DEF DequeInv
<1>8. OwnInv'
  BY <1>0, <1>1, <1>4, Numbers DEF OwnInv
<1>9. IndexInv'
  BY <1>0, <1>1, <1>6 DEF IndexInv, DequeInv
<1>10. StoresInv'
  <2> SUFFICES ASSUME NEW k \in DOMAIN stores' PROVE StoreInv(k)'
    BY DEF StoresInv
  <2>1. CASE k \in DOMAIN stores
    <3>1. k # Len(stores')
      BY <2>1, <1>5
    <3>2. QED
      BY <2>1, <3>1, <1>0, <1>5, <1>6 DEF StoreInv, StoresInv, DequeInv
  <2>2. CASE k = Len(stores) + 1
    <3>1. stores'[k] = ToBottom(own'.b, 0) /\ k = Len(stores')
      BY <2>2, <1>1, <1>5
    <3>2. QED
      BY <3>1, <1>6 DEF StoreInv
  <2>3. QED
    BY <2>1, <2>2, <1>5
<1>11. FirstInv'
  <2>1. CASE stores = <<>>
    <3>1. bottom = Bottom /\ Last = 0
      BY <2>1, <1>6, Facts, NothingStored
    <3>2. First' = e
      BY <2>1, <1>5
    <3>3. QED
      BY <3>1, <3>2, <1>0, <1>3, <1>6, <1>b DEF FirstInv
  <2>2. CASE stores # <<>>
    BY <2>2, <1>0, <1>5, <1>6 DEF FirstInv, DequeInv
  <2>3. QED
    BY <2>1, <2>2
<1>12. ThiefInv' /\ BufferInv'
  BY <1>0, <1>6 DEF ThiefInv, BufferInv, DequeInv
<1>13. QED
  BY <1>7, <1>8, <1>9, <1>10, <1>11, <1>12 DEF DequeInv

(* HandOut counts a task or nothing.                                       *)
LEMMA HandOutType ==
  ASSUME handed \in [Task -> Nat], NEW x \in Task \cup {Null}, HandOut(x)
  PROVE  /\ handed' \in [Task -> Nat]
         /\ \A y \in Task : handed'[y] = IF y = x THEN handed[y] + 1 ELSE handed[y]
BY BoundAssumption DEF HandOut, Task

LEMMA PopReadStep ==
  ASSUME DequeInv, PopRead
  PROVE  DequeInv'
<1>0. /\ own.pc = "popRead" /\ stores = <<>>
      /\ UNCHANGED <<top, bottom, buffer, stores, thief, pushed, phantoms>>
  BY DEF PopRead, Fence
<1>a. own \in OwnType /\ handed \in [Task -> Nat]
  BY Types DEF DequeInv
<1>b. /\ own.b = Bottom /\ Bottom = bottom /\ own.b < MaxIndex
      /\ End = own.b + 1 /\ WindowEnd = own.b + 1 /\ ~ Retracted
      /\ top <= own.b + 1 /\ own.b + 1 - top <= Capacity - 1
  <2>1. own.b = Bottom /\ Bottom = bottom /\ own.b < MaxIndex
    BY <1>0, NothingStored DEF DequeInv, OwnInv
  <2>2. End = own.b + 1 /\ WindowEnd = own.b + 1 /\ ~ Retracted
    BY <1>0, <2>1 DEF End, WindowEnd, Retracted, Fence
  <2>3. top <= End /\ End - top <= Capacity - 1
    BY <1>0 DEF DequeInv, IndexInv
  <2>4. QED
    BY <2>1, <2>2, <2>3, Numbers
<1>2. Bottom' = Bottom /\ \A i : Ring(i)' = Ring(i)
  BY <1>0, ViewsKept
<1>c. Ring(own.b) \in Task \cup {Null}
  BY ViewTypes, Numbers DEF DequeInv
<1>3. \/ /\ top < own.b /\ HandOut(Ring(own.b)) /\ own' = Idle
      \/ /\ top = own.b /\ UNCHANGED handed
         /\ own' = [own EXCEPT !.pc = "popCas", !.t = top, !.item = Ring(own.b)]
      \/ /\ top > own.b /\ UNCHANGED handed
         /\ own' = [own EXCEPT !.pc = "popReset", !.t = top]
  BY DEF PopRead
<1>4. /\ own' \in OwnType
      /\ \/ top < own.b /\ own'.pc = "idle"
         \/ /\ top = own.b /\ own'.pc = "popCas" /\ own'.b = own.b /\ own'.t = top
            /\ own'.item = Ring(own.b)
         \/ top > own.b /\ own'.pc = "popReset" /\ own'.b = own.b /\ own'.t = top
  <2>1. top \in 0 .. MaxIndex + 1 /\ 0 \in -1 .. MaxIndex + 1 /\ 0 \in 0 .. MaxIndex + 1
    BY Facts
  <2>2. CASE top < own.b /\ own' = Idle
    BY <2>1, <2>2 DEF OwnType, Idle
  <2>3. CASE top = own.b /\ own' = [own EXCEPT !.pc = "popCas", !.t = top, !.item = Ring(own.b)]
    BY <2>1, <2>3, <1>a, <1>c DEF OwnType
  <2>4. CASE top > own.b /\ own' = [own EXCEPT !.pc = "popReset", !.t = top]
    BY <2>1, <2>4, <1>a DEF OwnType
  <2>5. QED
    BY <2>2, <2>3, <2>4, <1>3
<1>5. handed' \in [Task -> Nat]
  BY <1>3, <1>a, <1>c, HandOutType
<1>6. /\ Last = 0 /\ Last' = 0
      /\ End' = IF own'.pc = "popCas" THEN own.b + 1 ELSE own.b
      /\ WindowEnd' = End'
  BY <1>0, <1>b, <1>2, <1>4, Facts, SMTT(30) DEF Last, Retracted, End, WindowEnd
<1>7. TypeOK'
  BY <1>0, <1>4, <1>5, Types, TypesNext DEF DequeInv
<1>8. OwnInv'
  BY <1>0, <1>2, <1>4, <1>b, Numbers, SMTT(30) DEF OwnInv
<1>9. IndexInv'
  <2>1. /\ own.b \in Int /\ top \in Int /\ Capacity \in Int /\ MaxIndex \in Int
        /\ top' = top /\ End' \in {own.b, own.b + 1}
    BY <1>0, <1>6, Numbers
  <2>2. End' <= MaxIndex + 1
    BY <2>1, <1>b
  <2>3. own'.pc = "popReset" => top' = own'.b + 1
    BY <1>4, <1>b, <2>1
  <2>4. own'.pc # "popReset" => top' <= End' /\ End' - top' <= Capacity - 1
    <3>1. CASE top < own.b /\ own'.pc = "idle"
      BY <3>1, <2>1, <1>b, <1>6
    <3>2. CASE top = own.b /\ own'.pc = "popCas"
      BY <3>2, <2>1, <1>b, <1>6
    <3>3. QED
      BY <3>1, <3>2, <1>4
  <2>5. QED
    BY <1>4, <2>2, <2>3, <2>4 DEF IndexInv
<1>10. StoresInv' /\ FirstInv'
  BY <1>0, EmptySeq DEF StoresInv, FirstInv
<1>11. ThiefInv'
  <2>1. \A w \in Thief : thief[w].t = top /\ thief[w].pc \in {"read", "cas"} => top < own.b + 1
    BY <1>b DEF DequeInv, ThiefInv
  <2>2. top < own.b + 1 => top < WindowEnd'
    BY <1>4, <1>6, Numbers
  <2>3. QED
    BY <2>1, <2>2, <1>0 DEF ThiefInv, DequeInv
<1>12. BufferInv'
  BY <1>0, <1>6 DEF BufferInv, DequeInv
<1>13. QED
  BY <1>7, <1>8, <1>9, <1>10, <1>11, <1>12 DEF DequeInv

LEMMA PopCasStep ==
  ASSUME DequeInv, PopCas
  PROVE  DequeInv'
<1>0. /\ own.pc = "popCas" /\ stores = <<>>
      /\ UNCHANGED <<bottom, buffer, stores, thief, pushed, phantoms>>
  BY DEF PopCas
<1>a. own \in OwnType /\ handed \in [Task -> Nat] /\ own.item \in Task \cup {Null}
  BY Types, Facts DEF DequeInv
<1>b. /\ own.b = Bottom /\ Bottom = bottom /\ own.b < MaxIndex /\ own.t = own.b
      /\ End = own.b + 1 /\ WindowEnd = own.b + 1 /\ ~ Retracted
      /\ top <= own.b + 1 /\ Capacity > 1
  BY <1>0, NothingStored DEF DequeInv, OwnInv, End, WindowEnd, Retracted, IndexInv
<1>2. Bottom' = Bottom /\ \A i : Ring(i)' = Ring(i)
  BY <1>0, ViewsKept
<1>3. \/ /\ top = own.t /\ top' = top + 1 /\ HandOut(own.item)
         /\ own' = [own EXCEPT !.pc = "popStore"]
      \/ /\ top # own.t /\ UNCHANGED <<top, handed>>
         /\ own' = [own EXCEPT !.pc = "popStore", !.t = top, !.item = Null]
  BY DEF PopCas
<1>c. \A w \in Thief : thief[w].t <= top
                       /\ (thief[w].t = top /\ thief[w].pc \in {"read", "cas"} => top < own.b + 1)
  BY <1>b DEF DequeInv, ThiefInv
<1>d. own.b <= top /\ (top # own.t => top = own.b + 1)
  <2>1. own.b <= top
    BY <1>0 DEF DequeInv, OwnInv
  <2>2. QED
    BY <2>1, <1>b, Numbers
<1>4. /\ own' \in OwnType /\ own'.pc = "popStore" /\ own'.b = own.b
      /\ own'.t \in {own.b, own.b + 1} /\ top' \in 0 .. MaxIndex + 1
      /\ top' = own.b + 1 /\ handed' \in [Task -> Nat]
  <2>1. top \in 0 .. MaxIndex + 1 /\ own.b + 1 \in Int /\ own.b + 1 <= MaxIndex + 1
    BY Facts, <1>b
  <2>2. CASE /\ top = own.t /\ top' = top + 1 /\ HandOut(own.item)
             /\ own' = [own EXCEPT !.pc = "popStore"]
    <3>1. own' \in OwnType /\ own'.pc = "popStore" /\ own'.b = own.b /\ own'.t = own.t
      BY <2>2, <1>a DEF OwnType
    <3>2. handed' \in [Task -> Nat]
      BY <2>2, <1>a, HandOutType
    <3>3. top' = own.b + 1 /\ top' \in 0 .. MaxIndex + 1
      BY <2>2, <2>1, <1>b, Numbers
    <3>4. QED
      BY <3>1, <3>2, <3>3, <1>b
  <2>3. CASE /\ top # own.t /\ UNCHANGED <<top, handed>>
             /\ own' = [own EXCEPT !.pc = "popStore", !.t = top, !.item = Null]
    <3>1. own' \in OwnType /\ own'.pc = "popStore" /\ own'.b = own.b /\ own'.t = top
      BY <2>1, <2>3, <1>a DEF OwnType
    <3>2. QED
      BY <3>1, <2>1, <2>3, <1>a, <1>d
  <2>4. QED
    BY <2>2, <2>3, <1>3
<1>5. Last' = Last /\ End' = own.b
  BY <1>0, <1>b, <1>2, <1>4 DEF Last, Retracted, End
<1>6. TypeOK'
  BY <1>0, <1>4, Types, TypesNext DEF DequeInv
<1>7. OwnInv'
  BY <1>0, <1>2, <1>4, <1>b DEF OwnInv
<1>8. IndexInv'
  BY <1>4, <1>5, <1>b, Numbers DEF IndexInv
<1>9. StoresInv' /\ FirstInv'
  BY <1>0, EmptySeq DEF StoresInv, FirstInv
<1>10. ThiefInv'
  <2> SUFFICES ASSUME NEW w \in Thief
               PROVE  /\ thief[w].t <= top'
                      /\ thief[w].t = top' => thief[w].pc \notin {"read", "cas"}
    BY <1>0 DEF ThiefInv
  <2> DEFINE t == thief[w].t
             Racing == thief[w].pc \in {"read", "cas"}
  <2>1. t \in Int /\ top \in Int /\ own.b \in Int
    BY Types, Numbers DEF DequeInv, ThiefType
  <2>2. t <= top /\ (t = top /\ Racing => top < own.b + 1)
    BY <1>c
  <2>3. t <= top' /\ (t = top' => ~ Racing)
    <3> HIDE DEF t, Racing
    <3>1. QED
      BY <2>1, <2>2, <1>4, <1>b, <1>d
  <2>4. QED
    BY <2>3
<1>11. BufferInv'
  BY <1>0, <1>5 DEF BufferInv, DequeInv
<1>12. QED
  BY <1>6, <1>7, <1>8, <1>9, <1>10, <1>11 DEF DequeInv

(* A store that leaves the store buffer with one index to `bottom'.        *)
LEMMA RestoreStep ==
  ASSUME DequeInv, own.pc \in {"popStore", "popReset"}, NEW v \in {own.b + 1, own.b + 2},
         v = own.b + 2 => Capacity > 1,
         Store(ToBottom(v, 0)), own' = Idle, phantoms' \in Nat,
         UNCHANGED <<top, bottom, buffer, thief, pushed, handed>>
  PROVE  DequeInv'
<1> DEFINE e == ToBottom(v, 0)
<1>0. stores = <<>> /\ own.b = Bottom /\ Bottom = bottom /\ own.b < MaxIndex /\ top = own.b + 1
  BY NothingStored DEF DequeInv, OwnInv, IndexInv
<1>1. own' \in OwnType /\ own'.pc = "idle"
  BY Facts DEF OwnType, Idle
<1>2. e \in Entry /\ e.to = "bottom" /\ e.at = 0 /\ e.v = v
  <2>1. v \in -1 .. MaxIndex + 2 /\ 0 \in 0 .. MaxIndex
    BY <1>0, Numbers
  <2>2. QED
    BY <2>1 DEF ToBottom, Entry
<1>3. Bottom' = v
  BY <1>2, Facts, StoreToBottom
<1>4. /\ stores' \in Seq(Entry) /\ Len(stores') = 1 /\ DOMAIN stores' = 1 .. 1
      /\ stores'[1] = e /\ stores' # <<>> /\ First' = e /\ Len(stores) = 0
  BY <1>0, <1>2, Facts, Appended DEF First
<1> HIDE DEF e
<1>5. /\ End' = v /\ Last' = 1 /\ ~ Retracted' /\ WindowEnd' = bottom
      /\ Last = 0
  BY <1>0, <1>1, <1>3, <1>4 DEF End, Last, WindowEnd, Retracted
<1>6. TypeOK'
  BY <1>1, <1>4, Types, TypesNext DEF DequeInv
<1>7. OwnInv'
  BY <1>1 DEF OwnInv
<1>8. IndexInv'
  <2>1. /\ own.b \in Int /\ v \in Int /\ MaxIndex \in Int /\ Capacity \in Nat /\ Capacity > 0
        /\ top' = own.b + 1
    BY <1>0, Numbers, Facts
  <2>2. QED
    BY <2>1, <1>0, <1>1, <1>5 DEF IndexInv
<1>9. StoresInv'
  BY <1>2, <1>4, <1>5, Numbers, SMTT(30) DEF StoresInv, StoreInv
<1>10. FirstInv'
  BY <1>0, <1>2, <1>4, <1>5, Numbers DEF FirstInv
<1>11. ThiefInv'
  <2>1. WindowEnd = bottom
    BY DEF WindowEnd
  <2>2. QED
    BY <2>1, <1>5 DEF ThiefInv, DequeInv
<1>12. BufferInv'
  <2> SUFFICES ASSUME NEW i \in 0 .. Capacity - 1, buffer[i] # Null
               PROVE  2 * buffer[i] <= 2 * pushed
    BY <1>5, Numbers DEF BufferInv
  <2> DEFINE x == buffer[i]
  <2>0. x \in Int
    <3>1. buffer \in [0 .. Capacity - 1 -> Task \cup {Null}]
      BY Types DEF DequeInv
    <3>2. x \in Task
      BY <3>1
    <3>3. QED
      BY <3>2, BoundAssumption DEF Task
  <2>1. 2 * x <= 2 * pushed - Last + 1
    BY DEF BufferInv, DequeInv
  <2> HIDE DEF x
  <2>2. 2 * x <= 2 * pushed
    BY <2>0, <2>1, <1>5, Numbers
  <2>3. QED
    BY <2>2 DEF x
<1>13. QED
  BY <1>6, <1>7, <1>8, <1>9, <1>10, <1>11, <1>12 DEF DequeInv

(* The two ways out of a pop that found nothing left.                      *)
LEMMA PopStoreStep ==
  ASSUME DequeInv, PopStore
  PROVE  DequeInv'
<1>1. /\ own.pc = "popStore" /\ Store(ToBottom(own.t + 1, 0)) /\ own' = Idle
      /\ UNCHANGED <<top, bottom, buffer, thief, pushed, handed>>
      /\ phantoms' \in {phantoms, phantoms + 1}
  BY DEF PopStore
<1>2. own.t + 1 \in {own.b + 1, own.b + 2} /\ Capacity > 1
  BY <1>1, Numbers DEF DequeInv, OwnInv
<1>3. phantoms' \in Nat
  BY <1>1, Types DEF DequeInv
<1>4. QED
  BY <1>1, <1>2, <1>3, RestoreStep

LEMMA PopResetStep ==
  ASSUME DequeInv, PopReset
  PROVE  DequeInv'
<1>1. /\ own.pc = "popReset" /\ Store(ToBottom(own.t, 0)) /\ own' = Idle
      /\ UNCHANGED <<top, bottom, buffer, thief, pushed, handed, phantoms>>
  BY DEF PopReset
<1>2. own.t = own.b + 1 /\ own.b \in Int
  BY <1>1, Numbers DEF DequeInv, OwnInv
<1>3. phantoms' \in Nat
  BY <1>1, Types DEF DequeInv
<1>4. own.t \in {own.b + 1, own.b + 2} /\ own.t # own.b + 2
  BY <1>2
<1>5. QED
  BY <1>1, <1>3, <1>4, RestoreStep

(* What the oldest store can be: one to a slot, the one that publishes it, *)
(* the one that ends a pop, or the retraction that begins one.             *)
FirstFills ==
  /\ First.to = "slot" /\ First.v \in Task /\ First.at = Slot(bottom)
  /\ 2 * First.v = 2 * pushed + 2 - Last
  /\ bottom = End - 1 + First.v - pushed
  /\ top <= bottom /\ ~ (Retracted /\ Len(stores) = 1)

FirstPublishes ==
  /\ First.to = "bottom" /\ First.at > 0 /\ First.v = bottom + 1
  /\ 2 * First.v = 2 * End + 1 - Last /\ 2 * First.at = 2 * pushed + 1 - Last
  /\ buffer[Slot(bottom)] = First.at
  /\ top <= bottom /\ ~ (Retracted /\ Len(stores) = 1)

FirstRestores ==
  /\ First.to = "bottom" /\ First.at = 0 /\ First.v \in {bottom + 1, bottom + 2}
  /\ 2 * First.v = 2 * End + 1 - Last
  /\ top = bottom + 1 /\ ~ (Retracted /\ Len(stores) = 1)

FirstRetracts ==
  /\ First.to = "bottom" /\ First.at = 0 /\ First.v = bottom - 1
  /\ Retracted /\ Len(stores) = 1 /\ Last = 0
  /\ own.b = bottom - 1 /\ End = bottom /\ top <= bottom

(* The oldest store is one of those four.                                  *)
LEMMA Heads ==
  ASSUME DequeInv, stores # <<>>
  PROVE  /\ WindowEnd = bottom /\ First = stores[1]
         /\ First.v \in Int /\ First.at \in Int
         /\ FirstFills \/ FirstPublishes \/ FirstRestores \/ FirstRetracts
<1>1. StoreInv(1) /\ WindowEnd = bottom /\ First = stores[1] /\ 1 \in DOMAIN stores
  BY FirstStore
<1>2. /\ First.to \in {"slot", "bottom"} /\ First.v \in Int /\ First.at \in Int
      /\ First.to = "slot" => First.v \in Task
      /\ Len(stores) \in Nat /\ Len(stores) > 0
  BY Facts, EntryTypes
<1>3. CASE First.to = "slot"
  <2>1. bottom = End - 1 + First.v - pushed /\ top <= bottom
    BY <1>3 DEF DequeInv, FirstInv
  <2>2. /\ ~ (Retracted /\ Len(stores) = 1) /\ 2 * First.v = 2 * pushed + 1 - (Last - 1)
        /\ First.at = Slot(End - 1 + First.v - pushed)
    BY <1>1, <1>3 DEF StoreInv, ToBottom
  <2>3. 2 * First.v = 2 * pushed + 2 - Last
    BY <2>2, Numbers
  <2>4. FirstFills
    BY <1>1, <1>2, <1>3, <2>1, <2>2, <2>3 DEF FirstFills
  <2>5. QED
    BY <1>1, <1>2, <2>4
<1>4. CASE First.to = "bottom" /\ First.at > 0
  <2>1. First.v = bottom + 1 /\ buffer[Slot(bottom)] = First.at /\ top <= bottom
    BY <1>2, <1>4, Numbers DEF DequeInv, FirstInv
  <2>2. /\ ~ (Retracted /\ Len(stores) = 1)
        /\ 2 * First.v = 2 * End - (Last - 1)
        /\ 2 * First.at = 2 * pushed - (Last - 1)
    BY <1>1, <1>4 DEF StoreInv, ToBottom
  <2>3. 2 * First.v = 2 * End + 1 - Last /\ 2 * First.at = 2 * pushed + 1 - Last
    BY <2>2, Numbers
  <2>4. FirstPublishes
    BY <1>1, <1>2, <1>4, <2>1, <2>2, <2>3 DEF FirstPublishes
  <2>5. QED
    BY <1>1, <1>2, <2>4
<1>5. CASE First.to = "bottom" /\ First.at = 0 /\ Last > 0
  <2>1. First.v \in {bottom + 1, bottom + 2} /\ top = bottom + 1
    BY <1>5 DEF DequeInv, FirstInv
  <2>2. ~ (Retracted /\ Len(stores) = 1)
    <3>1. Retracted /\ Len(stores) = 1 => Last = 0
      BY DEF Last
    <3>2. QED
      BY <3>1, <1>5
  <2>3. 2 * First.v = 2 * End - (Last - 1)
    BY <1>1, <1>5, <2>2 DEF StoreInv
  <2>4. 2 * First.v = 2 * End + 1 - Last
    BY <2>3, Numbers
  <2>5. FirstRestores
    BY <1>1, <1>2, <1>5, <2>1, <2>2, <2>4 DEF FirstRestores
  <2>6. QED
    BY <1>1, <1>2, <2>5
<1>6. CASE First.to = "bottom" /\ First.at = 0 /\ ~ (Last > 0)
  <2>1. First.v = bottom - 1 /\ Last = 0 /\ top <= bottom
    BY <1>6 DEF DequeInv, FirstInv
  <2>2. (own.pc = "pushPublish" \/ Retracted) /\ Len(stores) = 1
    BY <1>2, <2>1 DEF Last
  <2>3. own.pc # "pushPublish"
    <3> SUFFICES ASSUME own.pc = "pushPublish" PROVE FALSE
      OBVIOUS
    <3>1. 2 * First.v = 2 * End - (Last - 1)
      BY <1>1, <1>6 DEF StoreInv, Retracted
    <3> DEFINE f == First.v
    <3>2. 2 * f = 2 * End + 1 /\ f \in Int
      BY <3>1, <1>2, <2>1, Numbers
    <3> HIDE DEF f
    <3>3. QED
      BY <3>2, Numbers
  <2>4. First = ToBottom(own.b, 0)
    BY <1>1, <2>2, <2>3 DEF DequeInv, OwnInv, Retracted, StoreInv
  <2>5. own.b = Bottom /\ End = Bottom + 1 /\ First.v = own.b
    BY <2>2, <2>3, <2>4 DEF DequeInv, OwnInv, Retracted, End, ToBottom
  <2>6. own.b = bottom - 1 /\ End = bottom
    BY <2>1, <2>5, Numbers
  <2>7. FirstRetracts
    BY <1>1, <1>2, <1>6, <2>1, <2>2, <2>3, <2>6 DEF FirstRetracts
  <2>8. QED
    BY <1>1, <1>2, <2>7
<1>7. First.at = 0 \/ First.at > 0
  <2>1. First.at \in Nat
    BY Facts, EntryTypes
  <2>2. QED
    BY <2>1
<1>8. QED
  BY <1>2, <1>3, <1>4, <1>5, <1>6, <1>7

(* The deque never claims more in memory than the owner knows it to hold.  *)
LEMMA MemoryBehind ==
  ASSUME DequeInv
  PROVE  WindowEnd <= End /\ bottom <= WindowEnd /\ WindowEnd \in Int
<1>1. CASE stores = <<>>
  <2>1. Bottom = bottom
    BY <1>1, NothingStored
  <2>2. WindowEnd = End /\ WindowEnd \in {bottom, bottom + 1}
    BY <1>1, <2>1 DEF WindowEnd, End, Fence
  <2>3. QED
    BY <2>2, Numbers
<1>2. CASE stores # <<>>
  <2> DEFINE f == First.v
  <2>1. WindowEnd = bottom /\ f \in Int
    BY <1>2, Heads
  <2>2. ~ (Retracted /\ Len(stores) = 1) => Last >= 0
    BY <1>2, Facts DEF Last
  <2>3. CASE FirstFills
    <3>1. First = stores[1] /\ 1 \in DOMAIN stores
      BY <1>2, FirstStore
    <3>2. End - 1 + f - pushed <= End /\ bottom = End - 1 + f - pushed
      BY <2>3, <3>1, Pending DEF FirstFills
    <3>3. QED
      BY <3>2, <2>1, Numbers
  <2>4. CASE FirstPublishes \/ FirstRestores
    <3>1. f \in {bottom + 1, bottom + 2} /\ 2 * f = 2 * End + 1 - Last /\ Last >= 0
      BY <2>2, <2>4 DEF FirstPublishes, FirstRestores
    <3> HIDE DEF f
    <3>2. f > bottom
      BY <2>1, <3>1, Numbers
    <3>3. f <= End
      BY <2>1, <3>1, Numbers
    <3>4. QED
      BY <2>1, <3>2, <3>3, Numbers
  <2>5. CASE FirstRetracts
    BY <2>1, <2>5, Numbers DEF FirstRetracts
  <2>6. QED
    BY <1>2, <2>3, <2>4, <2>5, Heads
<1>3. QED
  BY <1>1, <1>2

(* A store reaches the memory.                                             *)
LEMMA DrainStep ==
  ASSUME DequeInv, Drain
  PROVE  DequeInv'
<1>0. /\ stores # <<>> /\ stores' = Tail(stores)
      /\ \/ /\ First.to = "slot" /\ buffer' = [buffer EXCEPT ![First.at] = First.v]
            /\ bottom' = bottom
         \/ First.to = "bottom" /\ bottom' = First.v /\ buffer' = buffer
      /\ UNCHANGED <<top, own, thief, pushed, handed, phantoms>>
  BY DEF Drain, First
<1>1. /\ stores' \in Seq(Entry)
      /\ Len(stores) \in Nat \ {0} /\ Len(stores') = Len(stores) - 1
      /\ DOMAIN stores = 1 .. Len(stores) /\ DOMAIN stores' = 1 .. Len(stores')
      /\ \A k \in DOMAIN stores' : k + 1 \in DOMAIN stores /\ stores'[k] = stores[k + 1]
      /\ (stores' = <<>> <=> Len(stores') = 0)
      /\ stores' # <<>> => First' = stores[2] /\ 2 \in DOMAIN stores
  <2>1. /\ stores' \in Seq(Entry)
        /\ Len(stores) \in Nat \ {0} /\ Len(stores') = Len(stores) - 1
        /\ DOMAIN stores = 1 .. Len(stores) /\ DOMAIN stores' = 1 .. Len(stores')
        /\ \A k \in DOMAIN stores' : k + 1 \in DOMAIN stores /\ stores'[k] = stores[k + 1]
    BY <1>0, Facts, Drained
  <2>2. (stores' = <<>> <=> Len(stores') = 0)
    BY <2>1, EmptySeq
  <2>3. stores' # <<>> => First' = stores'[1] /\ 1 \in DOMAIN stores'
    BY <2>1, <2>2, HeadTailProperties DEF First
  <2>4. QED
    BY <2>1, <2>2, <2>3
<1>2. Bottom' = Bottom /\ \A i \in Int : Ring(i)' = Ring(i)
  BY Facts, Types, DrainHidden DEF DequeInv
<1>3. /\ StoreInv(1) /\ WindowEnd = bottom /\ First = stores[1] /\ 1 \in DOMAIN stores
      /\ First.to \in {"slot", "bottom"} /\ First.at \in Nat /\ First.v \in Int
      /\ First.to = "slot" => First.at \in 0 .. Capacity - 1 /\ First.v \in Task
      /\ First.to = "bottom" => First.v \in -1 .. MaxIndex + 2
  BY <1>0, FirstStore, Facts, EntryTypes
<1>4. /\ End' = End
      /\ stores' # <<>> => Last' = Last - 1 /\ (Retracted' <=> Retracted)
      /\ ~ Retracted => Last' = Last - 1
      /\ Retracted /\ stores' = <<>> => Last' = Last /\ Last = 0
  BY <1>0, <1>1, <1>2 DEF End, Last, Retracted
<1>5. own.pc \notin {"popCas", "popStore", "popReset"}
  BY <1>0 DEF DequeInv, OwnInv
<1>6. TypeOK'
  <2>1. bottom' \in -1 .. MaxIndex + 2
    BY <1>0, <1>3, Types DEF DequeInv
  <2>2. buffer' \in [0 .. Capacity - 1 -> Task \cup {Null}]
    BY <1>0, <1>3, Types DEF DequeInv
  <2>3. QED
    BY <2>1, <2>2, <1>0, <1>1, Types, TypesNext DEF DequeInv
<1>7. OwnInv'
  BY <1>0, <1>2, <1>5, Numbers DEF OwnInv, DequeInv
<1>8. IndexInv'
  BY <1>0, <1>4 DEF IndexInv, DequeInv
<1>9. StoresInv'
  <2> SUFFICES ASSUME NEW k \in DOMAIN stores' PROVE StoreInv(k)'
    BY DEF StoresInv
  <2>1. /\ k + 1 \in DOMAIN stores /\ stores'[k] = stores[k + 1] /\ StoreInv(k + 1)
        /\ k \in Int /\ k + 1 # 1 /\ stores' # <<>>
    BY <1>1 DEF DequeInv, StoresInv
  <2>2. (Retracted' /\ k = Len(stores')) <=> (Retracted /\ k + 1 = Len(stores))
    BY <2>1, <1>1, <1>4
  <2>3. Last' - k = Last - (k + 1)
    BY <2>1, <1>4, Numbers
  <2>4. QED
    BY <2>1, <2>2, <2>3, <1>0, <1>4 DEF StoreInv
<1>10. First.to = "bottom" => bottom' = First.v /\ buffer' = buffer
  BY <1>0
<1>a. /\ First.to = "slot" => FirstFills
      /\ First.to = "bottom" => FirstPublishes \/ FirstRestores \/ FirstRetracts
  BY <1>0, Heads DEF FirstFills, FirstPublishes, FirstRestores, FirstRetracts
<1>11. ASSUME First.to = "slot"
       PROVE  /\ bottom' = bottom /\ Slot(bottom) \in 0 .. Capacity - 1
              /\ buffer' = [buffer EXCEPT ![Slot(bottom)] = First.v]
              /\ buffer'[Slot(bottom)] = First.v
  <2>1. bottom' = bottom /\ buffer' = [buffer EXCEPT ![First.at] = First.v]
        /\ First.at = Slot(bottom)
    BY <1>0, <1>11, <1>a DEF FirstFills
  <2>2. Slot(bottom) \in 0 .. Capacity - 1 /\ buffer \in [0 .. Capacity - 1 -> Task \cup {Null}]
    BY SlotType, Numbers, Types DEF DequeInv
  <2>3. QED
    BY <2>1, <2>2
<1>12. FirstInv'
  <2> SUFFICES ASSUME stores' # <<>> PROVE FirstInv'
    BY DEF FirstInv
  <2> DEFINE s == stores[2]
             v == s.v
             f == First.v
             a == s.at
  <2>0. /\ First' = s /\ 2 \in 1 .. Len(stores) /\ Len(stores) \in Nat
        /\ Last' = Last - 1 /\ f \in Int
    BY <1>1, <1>3, <1>4
  <2>1. /\ First' = s /\ Len(stores) >= 2 /\ StoreInv(2) /\ v \in Int /\ f \in Int /\ a \in Int
        /\ s.to \in {"slot", "bottom"} /\ ~ (Retracted /\ Len(stores) = 1)
        /\ Last' = Last - 1
    <3>1. StoreInv(2) /\ s \in Entry
      BY <2>0, Facts DEF DequeInv, StoresInv
    <3>2. v \in Int /\ a \in Int /\ s.to \in {"slot", "bottom"}
      BY <3>1, EntryTypes
    <3>3. QED
      BY <2>0, <3>1, <3>2
  <2>2. Retracted /\ Len(stores) = 2 => Last = 1
    BY DEF Last
  <2>3. /\ End' = End /\ pushed' = pushed /\ top' = top
        /\ End \in Int /\ pushed \in Int /\ Last \in Int /\ top \in Int /\ bottom \in Int
    BY <1>0, <1>4, Numbers
  <2>4. CASE First.to = "slot"
    <3>1. 2 * f = 2 * pushed + 2 - Last /\ bottom = End - 1 + f - pushed /\ top <= bottom
      BY <1>a, <2>4 DEF FirstFills
    <3>2. ~ (Retracted /\ Len(stores) = 2)
      <4> HIDE DEF f
      <4>1. QED
        BY <2>1, <2>2, <2>3, <3>1
    <3>3. s.to # "slot"
      <4>1. s.to = "slot" => 2 * v = 2 * pushed + 1 - (Last - 2)
        BY <2>1, <3>2 DEF StoreInv
      <4> HIDE DEF f, v
      <4>2. ~ (2 * v = 2 * pushed + 1 - (Last - 2))
        BY <2>1, <2>3, <3>1
      <4>3. QED
        BY <4>1, <4>2
    <3>4. 2 * v = 2 * End - (Last - 2) /\ a > 0 /\ 2 * a = 2 * pushed - (Last - 2)
      BY <2>1, <3>2, <3>3 DEF StoreInv
    <3>5. v = bottom + 1 /\ a = f
      <4> HIDE DEF f, v, a
      <4>1. QED
        BY <2>1, <2>3, <3>1, <3>4
    <3>6. QED
      BY <2>1, <2>3, <2>4, <3>1, <3>3, <3>4, <3>5, <1>11 DEF FirstInv
  <2>5. CASE First.to = "bottom"
    <3>1. /\ 2 * f = 2 * End + 1 - Last /\ bottom' = f
          /\ f \in {bottom + 1, bottom + 2} /\ top <= bottom + 1
      BY <1>a, <2>1, <2>3, <2>5, <1>10 DEF FirstPublishes, FirstRestores, FirstRetracts
    <3>2. top <= f
      BY <2>3, <3>1
    <3>3. CASE Retracted /\ Len(stores) = 2
      <4>1. s = ToBottom(own.b, 0) /\ Last = 1
        BY <3>3, <2>1, <2>2 DEF StoreInv
      <4>2. f = End
        <5> HIDE DEF f
        <5>1. QED
          BY <2>1, <2>3, <3>1, <4>1
      <4>3. own.b = End - 1
        BY <3>3, Numbers DEF DequeInv, OwnInv, End, Retracted
      <4>4. s.to = "bottom" /\ s.at = 0 /\ v = own.b
        BY <4>1 DEF ToBottom
      <4>5. Last' = 0 /\ v = bottom' - 1
        BY <4>1, <4>2, <4>3, <4>4, <2>1, <2>3, <3>1
      <4>6. QED
        BY <2>1, <2>3, <3>1, <3>2, <4>4, <4>5 DEF FirstInv
    <3>4. CASE ~ (Retracted /\ Len(stores) = 2) /\ s.to = "slot"
      <4>1. 2 * v = 2 * pushed + 1 - (Last - 2)
        BY <2>1, <3>4 DEF StoreInv
      <4>2. f = End - 1 + v - pushed
        <5> HIDE DEF f, v
        <5>1. QED
          BY <2>1, <2>3, <3>1, <4>1
      <4>3. QED
        BY <2>1, <2>3, <3>1, <3>2, <3>4, <4>2 DEF FirstInv
    <3>5. CASE ~ (Retracted /\ Len(stores) = 2) /\ s.to = "bottom"
      <4>1. 2 * v = 2 * End - (Last - 2)
        BY <2>1, <3>5 DEF StoreInv
      <4> HIDE DEF f, v
      <4>2. QED
        BY <2>1, <2>3, <3>1, <4>1
    <3>6. QED
      BY <2>1, <3>3, <3>4, <3>5
  <2>6. QED
    BY <1>3, <2>4, <2>5
<1>13. ThiefInv'
  <2>1. WindowEnd' >= bottom
    <3>1. CASE First.to = "slot"
      <4>1. WindowEnd' \in {bottom, bottom + 1}
        BY <3>1, <1>0, <1>11 DEF WindowEnd
      <4>2. QED
        BY <4>1, Numbers
    <3>2. CASE FirstPublishes \/ FirstRestores
      <4>1. PICK b \in {bottom + 1, bottom + 2} : bottom' = b
        BY <3>2, <1>10 DEF FirstPublishes, FirstRestores
      <4>2. WindowEnd' \in {b, b + 1}
        BY <4>1 DEF WindowEnd
      <4>3. QED
        BY <4>2, Numbers
    <3>3. CASE FirstRetracts
      <4>1. own'.pc = "popRead" /\ stores' = <<>> /\ bottom' = bottom - 1
        BY <3>3, <1>0, <1>1, <1>10 DEF Retracted, FirstRetracts
      <4>2. WindowEnd' = bottom
        BY <4>1, Numbers DEF WindowEnd, Fence
      <4>3. QED
        BY <4>2, Numbers
    <3>4. QED
      BY <1>3, <1>a, <3>1, <3>2, <3>3
  <2>2. ASSUME top < bottom PROVE buffer'[Slot(top)] = buffer[Slot(top)] /\ top < WindowEnd'
    <3>1. top < WindowEnd'
      <4>1. WindowEnd' \in Int
        <5>1. bottom' \in Int
          BY <1>6, TypesNext, BoundAssumption
        <5>2. QED
          BY <5>1 DEF WindowEnd
      <4>2. QED
        BY <4>1, <2>1, <2>2, Numbers
    <3>2. CASE First.to = "slot"
      <4>1. bottom - top < Capacity
        <5>1. top <= End /\ End - top <= Capacity - 1 /\ bottom <= End
          BY <1>3, <1>5, MemoryBehind DEF DequeInv, IndexInv
        <5>2. QED
          BY <5>1, Numbers
      <4>2. Slot(top) # Slot(bottom)
        BY <2>2, <4>1, SlotsDiffer, Numbers
      <4>3. buffer' = [buffer EXCEPT ![Slot(bottom)] = First.v]
        BY <3>2, <1>11
      <4>4. QED
        BY <4>2, <4>3, <3>1
    <3>3. QED
      BY <3>1, <3>2, <1>3, <1>10
  <2>3. QED
    BY <2>2, <1>0, <1>3 DEF ThiefInv, DequeInv
<1>14. BufferInv'
  <2> SUFFICES ASSUME NEW i \in 0 .. Capacity - 1, buffer'[i] # Null
               PROVE  2 * buffer'[i] <= 2 * pushed - Last' + 1
    BY <1>0 DEF BufferInv
  <2> DEFINE x == buffer'[i]
  <2>0. x \in Int
    <3>1. x \in Task
      BY <1>6, TypesNext
    <3>2. QED
      BY <3>1, BoundAssumption DEF Task
  <2>1. CASE First.to = "slot" /\ i = Slot(bottom)
    <3>1. x = First.v /\ 2 * First.v = 2 * pushed + 2 - Last /\ ~ (Retracted /\ Len(stores) = 1)
      BY <2>1, <1>a, <1>11 DEF FirstFills
    <3>3. Last' = Last - 1
      BY <3>1, <1>1, <1>4
    <3>2. QED
      BY <3>1, <3>3, Numbers
  <2>2. CASE ~ (First.to = "slot" /\ i = Slot(bottom))
    <3>1. x = buffer[i]
      BY <2>2, <1>3, <1>10, <1>11, Types DEF DequeInv
    <3>2. 2 * x <= 2 * pushed - Last + 1
      BY <3>1 DEF BufferInv, DequeInv
    <3>3. Last' \in {Last, Last - 1}
      BY <1>4
    <3> HIDE DEF x
    <3>4. 2 * x <= 2 * pushed - Last' + 1
      BY <2>0, <3>2, <3>3, Numbers
    <3>5. QED
      BY <3>4 DEF x
  <2>3. QED
    BY <2>1, <2>2
<1>15. QED
  BY <1>6, <1>7, <1>8, <1>9, <1>12, <1>13, <1>14 DEF DequeInv

(* A step of a thief that moves neither index leaves everything but the    *)
(* thief itself as it was.                                                 *)
LEMMA OthersKept ==
  ASSUME DequeInv, thief' \in [Thief -> ThiefType], ThiefInv',
         UNCHANGED <<top, bottom, buffer, stores, own, pushed, handed, phantoms>>
  PROVE  DequeInv'
<1>1. Bottom' = Bottom /\ \A i : Ring(i)' = Ring(i)
  BY ViewsKept
<1>2. End' = End /\ Last' = Last /\ (Retracted' <=> Retracted) /\ First' = First
  BY <1>1 DEF End, Last, Retracted, First
<1>3. TypeOK'
  BY Types, TypesNext DEF DequeInv
<1>4. OwnInv' /\ IndexInv'
  BY <1>1, <1>2 DEF DequeInv, OwnInv, IndexInv
<1>5. StoresInv' /\ FirstInv' /\ BufferInv'
  BY <1>2 DEF DequeInv, StoresInv, StoreInv, FirstInv, BufferInv
<1>6. QED
  BY <1>3, <1>4, <1>5 DEF DequeInv

(* What the invariant says of one thief.                                   *)
LEMMA ThiefFacts ==
  ASSUME DequeInv, NEW w \in Thief
  PROVE  /\ thief \in [Thief -> ThiefType] /\ thief[w].t \in 0 .. MaxIndex + 1
         /\ thief[w].t <= top
         /\ thief[w].t = top /\ thief[w].pc \in {"read", "cas"} => top < WindowEnd
         /\ thief[w].t = top /\ thief[w].pc = "cas" => thief[w].item = buffer[Slot(top)]
         /\ thief[w].item \in Task \cup {Null}
<1>1. thief \in [Thief -> ThiefType]
  BY Types DEF DequeInv
<1>2. QED
  BY <1>1 DEF DequeInv, ThiefInv, ThiefType

(* The four steps of a thief.                                              *)
LEMMA StealTopStep ==
  ASSUME DequeInv, NEW w \in Thief, StealTop(w)
  PROVE  DequeInv'
<1>0. /\ thief' = [thief EXCEPT ![w].pc = "bottom", ![w].t = top]
      /\ UNCHANGED <<top, bottom, buffer, stores, own, pushed, handed, phantoms>>
  BY DEF StealTop
<1>1. thief \in [Thief -> ThiefType] /\ top \in 0 .. MaxIndex + 1
  BY Types DEF DequeInv
<1>2. /\ thief' \in [Thief -> ThiefType]
      /\ thief'[w].pc = "bottom" /\ thief'[w].t = top
      /\ \A u \in Thief : u # w => thief'[u] = thief[u]
  BY <1>0, <1>1 DEF ThiefType
<1>3. WindowEnd' = WindowEnd
  BY <1>0 DEF WindowEnd, Fence
<1>4. ThiefInv'
  BY <1>0, <1>2, <1>3, Numbers DEF ThiefInv, DequeInv
<1>5. QED
  BY <1>0, <1>2, <1>4, OthersKept

LEMMA StealBottomStep ==
  ASSUME DequeInv, NEW w \in Thief, StealBottom(w)
  PROVE  DequeInv'
<1>0. /\ thief' = IF thief[w].t < bottom
                  THEN [thief EXCEPT ![w].pc = "read"]
                  ELSE [thief EXCEPT ![w] = Idle]
      /\ UNCHANGED <<top, bottom, buffer, stores, own, pushed, handed, phantoms>>
  BY DEF StealBottom
<1>1. thief \in [Thief -> ThiefType]
  BY Types DEF DequeInv
<1>2. WindowEnd' = WindowEnd /\ bottom <= WindowEnd /\ WindowEnd \in Int
  BY <1>0, MemoryBehind DEF WindowEnd, Fence
<1>3. CASE thief[w].t < bottom
  <2>1. /\ thief' \in [Thief -> ThiefType]
        /\ thief'[w].pc = "read" /\ thief'[w].t = thief[w].t
        /\ \A u \in Thief : u # w => thief'[u] = thief[u]
    BY <1>0, <1>1, <1>3 DEF ThiefType
  <2>2. thief[w].t = top => top < WindowEnd
    BY <1>2, <1>3, Numbers
  <2>3. ThiefInv'
    BY <1>0, <1>2, <2>1, <2>2 DEF ThiefInv, DequeInv
  <2>4. QED
    BY <1>0, <2>1, <2>3, OthersKept
<1>4. CASE ~ (thief[w].t < bottom)
  <2>1. /\ thief' \in [Thief -> ThiefType]
        /\ thief'[w].pc = "idle" /\ thief'[w].t = 0
        /\ \A u \in Thief : u # w => thief'[u] = thief[u]
    BY <1>0, <1>1, <1>4, BoundAssumption DEF ThiefType, Idle
  <2>2. ThiefInv'
    BY <1>0, <1>2, <2>1, Numbers DEF ThiefInv, DequeInv
  <2>3. QED
    BY <1>0, <2>1, <2>2, OthersKept
<1>5. QED
  BY <1>3, <1>4

LEMMA StealReadStep ==
  ASSUME DequeInv, NEW w \in Thief, StealRead(w)
  PROVE  DequeInv'
<1>0. /\ thief[w].pc = "read"
      /\ thief' = [thief EXCEPT ![w].pc = "cas", ![w].item = buffer[Slot(thief[w].t)]]
      /\ UNCHANGED <<top, bottom, buffer, stores, own, pushed, handed, phantoms>>
  BY DEF StealRead
<1>1. thief \in [Thief -> ThiefType] /\ buffer \in [0 .. Capacity - 1 -> Task \cup {Null}]
  BY Types DEF DequeInv
<1>2. buffer[Slot(thief[w].t)] \in Task \cup {Null}
  <2>1. thief[w].t \in Int
    BY ThiefFacts
  <2>2. QED
    BY <1>1, <2>1, SlotType
<1>3. /\ thief' \in [Thief -> ThiefType]
      /\ thief'[w].pc = "cas" /\ thief'[w].t = thief[w].t
      /\ thief'[w].item = buffer[Slot(thief[w].t)]
      /\ \A u \in Thief : u # w => thief'[u] = thief[u]
  BY <1>0, <1>1, <1>2 DEF ThiefType
<1>4. WindowEnd' = WindowEnd
  BY <1>0 DEF WindowEnd, Fence
<1>5. ThiefInv'
  BY <1>0, <1>3, <1>4 DEF ThiefInv, DequeInv
<1>6. QED
  BY <1>0, <1>3, <1>5, OthersKept

LEMMA StealCasStep ==
  ASSUME DequeInv, NEW w \in Thief, StealCas(w)
  PROVE  DequeInv'
<1>0. /\ thief[w].pc = "cas" /\ thief' = [thief EXCEPT ![w] = Idle]
      /\ UNCHANGED <<bottom, buffer, stores, own, pushed, phantoms>>
      /\ \/ top = thief[w].t /\ top' = top + 1 /\ HandOut(thief[w].item)
         \/ top # thief[w].t /\ UNCHANGED <<top, handed>>
  BY DEF StealCas
<1>1. /\ thief' \in [Thief -> ThiefType]
      /\ thief'[w].pc = "idle" /\ thief'[w].t = 0
      /\ \A u \in Thief : u # w => thief'[u] = thief[u]
  BY <1>0, Types, BoundAssumption DEF ThiefType, Idle, DequeInv
<1>2. /\ WindowEnd' = WindowEnd /\ WindowEnd <= End /\ bottom <= WindowEnd
      /\ WindowEnd \in Int
  BY <1>0, MemoryBehind DEF WindowEnd, Fence
<1>3. CASE top # thief[w].t
  <2>1. ThiefInv'
    BY <1>0, <1>1, <1>2, <1>3, Numbers DEF ThiefInv, DequeInv
  <2>2. QED
    BY <1>0, <1>1, <1>3, <2>1, OthersKept
<1>4. CASE top = thief[w].t
  <2>1. top' = top + 1 /\ HandOut(thief[w].item) /\ top < WindowEnd
    BY <1>0, <1>4, ThiefFacts
  <2>2. Bottom' = Bottom /\ \A i : Ring(i)' = Ring(i)
    BY <1>0, ViewsKept
  <2>3. End' = End /\ Last' = Last /\ (Retracted' <=> Retracted) /\ First' = First
    BY <1>0, <2>2 DEF End, Last, Retracted, First
  <2>4. own.pc \notin {"popStore", "popReset"}
    <3> SUFFICES ASSUME own.pc \in {"popStore", "popReset"} PROVE FALSE
      OBVIOUS
    <3>1. stores = <<>> /\ own.b = Bottom /\ top = own.b + 1
      BY DEF DequeInv, OwnInv, IndexInv
    <3>2. WindowEnd = bottom /\ Bottom = bottom
      BY <3>1, NothingStored DEF WindowEnd
    <3>3. QED
      BY <2>1, <3>1, <3>2, Numbers
  <2>5. top <= End /\ End - top <= Capacity - 1 /\ End <= MaxIndex + 1
    BY <2>4 DEF DequeInv, IndexInv
  <2>6. TypeOK'
    <3>1. top' \in 0 .. MaxIndex + 1
      BY <2>1, <2>5, <1>2, Numbers
    <3>2. handed' \in [Task -> Nat]
      BY <2>1, ThiefFacts, HandOutType, Types DEF DequeInv
    <3>3. QED
      BY <3>1, <3>2, <1>0, <1>1, Types, TypesNext DEF DequeInv
  <2>7. OwnInv'
    BY <1>0, <2>1, <2>2, <2>4, Numbers DEF DequeInv, OwnInv
  <2>8. IndexInv'
    <3>1. top' <= End' /\ End' - top' <= Capacity - 1 /\ End' <= MaxIndex + 1
      BY <1>2, <2>1, <2>3, <2>5, Numbers
    <3>2. QED
      BY <3>1, <1>0, <2>4 DEF IndexInv
  <2>9. FirstInv'
    <3> SUFFICES ASSUME stores # <<>> PROVE FirstInv'
      BY <1>0 DEF FirstInv
    <3>1. WindowEnd = bottom
      BY Heads
    <3>2. top' <= bottom /\ top # bottom + 1
      BY <3>1, <2>1, Numbers
    <3>3. QED
      BY <3>2, <1>0, <2>3 DEF FirstInv, DequeInv
  <2>10. ThiefInv'
    <3> SUFFICES ASSUME NEW u \in Thief PROVE thief'[u].t < top'
      BY <1>0, <2>1, Numbers, <1>1 DEF ThiefInv, ThiefType
    <3>1. CASE u = w
      BY <3>1, <1>1, <2>1, Numbers
    <3>2. CASE u # w
      BY <3>2, <1>1, <2>1, ThiefFacts, Numbers
    <3>3. QED
      BY <3>1, <3>2
  <2>11. StoresInv' /\ BufferInv'
    BY <1>0, <2>3 DEF StoresInv, StoreInv, BufferInv, DequeInv
  <2>12. QED
    BY <2>6, <2>7, <2>8, <2>9, <2>10, <2>11 DEF DequeInv
<1>5. QED
  BY <1>3, <1>4

(* Every step keeps the invariant.                                         *)
LEMMA NextInv ==
  ASSUME DequeInv, [Next]_vars
  PROVE  DequeInv'
<1>1. CASE UNCHANGED vars
  <2>1. /\ thief' \in [Thief -> ThiefType]
        /\ UNCHANGED <<top, bottom, buffer, stores, own, pushed, handed, phantoms>>
    BY <1>1, Types DEF vars, DequeInv
  <2>2. ThiefInv'
    BY <1>1 DEF vars, DequeInv, ThiefInv, WindowEnd, Fence
  <2>3. QED
    BY <2>1, <2>2, OthersKept
<1>2. CASE Next
  BY <1>2, PushCheckStep, PushStoreStep, PushPublishStep, PopRetractStep, PopReadStep,
     PopCasStep, PopStoreStep, PopResetStep, DrainStep,
     StealTopStep, StealBottomStep, StealReadStep, StealCasStep
  DEF Next, Owner, Steal
<1>3. QED
  BY <1>1, <1>2

-----------------------------------------------------------------------------
(* The invariant holds in every reachable state.                           *)
THEOREM Invariance == Spec => []DequeInv
<1>1. Init => DequeInv
  BY InitInv
<1>2. DequeInv /\ [Next]_vars => DequeInv'
  BY NextInv
<1>3. QED
  BY <1>1, <1>2, PTL DEF Spec

(* Every variable keeps its type: the indices, which nothing ever reduces, *)
(* stay within the bounds, `bottom' no less than -1, and slots hold tasks  *)
(* or Null.                                                                *)
THEOREM TypeCorrect == Spec => []TypeOK
<1>1. DequeInv => TypeOK
  BY DEF DequeInv
<1>2. QED
  BY <1>1, Invariance, PTL

-----------------------------------------------------------------------------
(* Tasks that wait and tasks that were handed out.                         *)

Win == top .. End - 1
Waiting(x) == {i \in Win : Ring(i) = x}
Total(x) == handed[x] + Cardinality(Waiting(x))
Excess == UNION {{x} \X (2 .. Total(x)) : x \in Task}

HistoryInv ==
  /\ \A x \in 1 .. pushed : handed[x] > 0 \/ Waiting(x) # {}
  /\ \A x \in Task : x > pushed => handed[x] = 0
  /\ \A i \in Win : Ring(i) \in {Null} \cup 1 .. pushed
  /\ IsFiniteSet(Excess) /\ Cardinality(Excess) <= phantoms

(* What a step can do to the owner's window: nothing, take a task out and  *)
(* return it, put a new task in, or, after a lost race, put in whatever    *)
(* the next slot holds.                                                    *)
Same == \A i \in Win : Ring(i)' = Ring(i)

Keeps == Same /\ Win' = Win /\ UNCHANGED <<pushed, handed, phantoms>>

Takes(j) == /\ Same /\ Win' = Win \ {j} /\ j \in Win
            /\ HandOut(Ring(j))
            /\ UNCHANGED <<pushed, phantoms>>

Pushes(j) == /\ Same /\ Win' = Win \cup {j} /\ j \notin Win
             /\ Ring(j)' = pushed + 1 /\ pushed' = pushed + 1
             /\ UNCHANGED <<handed, phantoms>>

Claims(j) == /\ Win = {} /\ Win' = {j}
             /\ Ring(j)' \in {Null} \cup 1 .. pushed
             /\ phantoms' = phantoms + 1
             /\ UNCHANGED <<handed, pushed>>

(* Each step of the code does one of these to the owner's window.          *)
LEMMA OwnerKinds ==
  ASSUME DequeInv, Owner
  PROVE  Keeps \/ \E j \in Int : Takes(j) \/ Pushes(j) \/ Claims(j)
<1>1. CASE PushCheck
  <2>1. Bottom' = Bottom /\ \A i : Ring(i)' = Ring(i)
    BY <1>1, ViewsKept DEF PushCheck
  <2>2. own'.pc = "pushStore"
    BY <1>1, Types DEF PushCheck, DequeInv, OwnType
  <2>3. End' = End
    BY <1>1, <2>1, <2>2 DEF PushCheck, End
  <2>4. QED
    BY <1>1, <2>1, <2>3 DEF PushCheck, Keeps, Same, Win
<1>2. CASE PushStore
  <2>1. /\ own.pc = "pushStore" /\ own.b = Bottom /\ own.b - top < Capacity - 1
        /\ Store(ToSlot(Slot(own.b), pushed + 1)) /\ pushed < MaxIndex
        /\ UNCHANGED <<top, bottom, buffer, thief, pushed, handed, phantoms>>
    BY <1>2 DEF PushStore, DequeInv, OwnInv
  <2>2. own'.pc = "pushPublish" /\ End = own.b
    BY <1>2, <2>1, Types DEF PushStore, DequeInv, OwnType, End
  <2>3. ToSlot(Slot(own.b), pushed + 1) \in Entry
    <3>1. Slot(own.b) \in 0 .. Capacity - 1
      BY Numbers, SlotType
    <3>2. pushed + 1 \in Task
      BY <2>1, Numbers DEF Task
    <3>3. QED
      BY <3>1, <3>2 DEF ToSlot, Entry
  <2>4. /\ Bottom' = Bottom
        /\ \A i : Ring(i)' = IF Slot(i) = Slot(own.b) THEN pushed + 1 ELSE Ring(i)
    BY <2>1, <2>3, Numbers, Facts, StoreToSlot
  <2>5. End' = End
    BY <2>1, <2>2, <2>4 DEF End
  <2>6. ASSUME NEW i \in Win PROVE Ring(i)' = Ring(i)
    <3>1. i \in Int /\ i < own.b /\ own.b - i < Capacity
      BY <2>1, <2>2, Numbers DEF Win
    <3>2. Slot(i) # Slot(own.b)
      BY <3>1, SlotsDiffer, Numbers
    <3>3. QED
      BY <3>2, <2>4
  <2>7. QED
    BY <2>1, <2>5, <2>6 DEF Keeps, Same, Win
<1>3. CASE PushPublish
  <2>1. /\ own.pc = "pushPublish" /\ own.b = Bottom /\ Ring(own.b) = pushed + 1
        /\ own.b < MaxIndex /\ pushed < MaxIndex
        /\ Store(ToBottom(own.b + 1, pushed + 1)) /\ own' = Idle /\ pushed' = pushed + 1
        /\ UNCHANGED <<top, bottom, buffer, thief, handed, phantoms>>
    BY <1>3 DEF PushPublish, DequeInv, OwnInv
  <2>2. own'.pc = "idle" /\ End = own.b /\ top <= own.b
    BY <2>1 DEF Idle, End, DequeInv, IndexInv
  <2>3. ToBottom(own.b + 1, pushed + 1) \in Entry
    <3>1. own.b + 1 \in -1 .. MaxIndex + 2 /\ pushed + 1 \in 0 .. MaxIndex
      BY <2>1, <2>2, Numbers
    <3>2. QED
      BY <3>1 DEF ToBottom, Entry
  <2>4. Bottom' = own.b + 1 /\ \A i : Ring(i)' = Ring(i)
    BY <2>1, <2>3, Facts, StoreToBottom
  <2>5. End' = own.b + 1
    BY <2>2, <2>4 DEF End
  <2>6. Win' = Win \cup {own.b} /\ own.b \notin Win
    BY <2>1, <2>2, <2>5, Numbers DEF Win
  <2>7. PICK j \in Int : j = own.b
    BY Numbers
  <2>8. Pushes(j)
    BY <2>1, <2>4, <2>6, <2>7 DEF Pushes, Same
  <2>9. QED
    BY <2>8
<1>4. CASE PopRetract
  <2>1. /\ own.pc = "idle" /\ Store(ToBottom(Bottom - 1, 0)) /\ Bottom <= MaxIndex
        /\ UNCHANGED <<top, bottom, buffer, thief, pushed, handed, phantoms>>
    BY <1>4 DEF PopRetract
  <2>2. own'.pc = "popRead" /\ End = Bottom /\ top <= Bottom
    BY <1>4, <2>1, Types DEF PopRetract, End, DequeInv, OwnType, IndexInv
  <2>3. ToBottom(Bottom - 1, 0) \in Entry
    <3>1. Bottom - 1 \in -1 .. MaxIndex + 2 /\ 0 \in 0 .. MaxIndex
      BY <2>1, <2>2, Numbers
    <3>2. QED
      BY <3>1 DEF ToBottom, Entry
  <2>4. Bottom' = Bottom - 1 /\ \A i : Ring(i)' = Ring(i)
    BY <2>1, <2>3, Facts, StoreToBottom
  <2>5. End' = End
    BY <2>2, <2>4, Numbers DEF End
  <2>6. QED
    BY <2>1, <2>4, <2>5 DEF Keeps, Same, Win
<1>5. CASE PopRead
  <2>1. /\ own.pc = "popRead" /\ own.b = Bottom /\ End = own.b + 1 /\ own.b \in Int
        /\ UNCHANGED <<top, bottom, buffer, stores, thief, pushed, phantoms>>
    BY <1>5, Numbers DEF PopRead, DequeInv, OwnInv, End
  <2>2. Bottom' = Bottom /\ \A i : Ring(i)' = Ring(i)
    BY <2>1, ViewsKept
  <2>7. \/ top < own.b /\ own'.pc = "idle" /\ HandOut(Ring(own.b))
        \/ top = own.b /\ own'.pc = "popCas" /\ UNCHANGED handed
        \/ top > own.b /\ own'.pc = "popReset" /\ UNCHANGED handed
    <3>1. own \in OwnType
      BY Types DEF DequeInv
    <3>2. CASE top < own.b /\ HandOut(Ring(own.b)) /\ own' = Idle
      BY <3>2 DEF Idle
    <3>3. CASE /\ top = own.b /\ UNCHANGED handed
               /\ own' = [own EXCEPT !.pc = "popCas", !.t = top, !.item = Ring(own.b)]
      BY <3>1, <3>3 DEF OwnType
    <3>4. CASE /\ top > own.b /\ UNCHANGED handed
               /\ own' = [own EXCEPT !.pc = "popReset", !.t = top]
      BY <3>1, <3>4 DEF OwnType
    <3>5. QED
      BY <1>5, <3>2, <3>3, <3>4 DEF PopRead
  <2>3. CASE top < own.b
    <3>1. own'.pc = "idle" /\ HandOut(Ring(own.b))
      BY <2>3, <2>7, Numbers
    <3>2. End' = own.b
      BY <2>1, <2>2, <3>1 DEF End
    <3>3. Win' = Win \ {own.b} /\ own.b \in Win
      BY <2>1, <2>3, <3>2, Numbers DEF Win
    <3>4. Takes(own.b)
      BY <2>1, <2>2, <3>1, <3>3 DEF Takes, Same
    <3>5. QED
      BY <2>1, <3>4
  <2>4. CASE top = own.b
    <3>1. own'.pc = "popCas" /\ UNCHANGED handed
      BY <2>4, <2>7, Numbers
    <3>2. End' = End
      BY <2>1, <2>2, <3>1 DEF End
    <3>3. QED
      BY <2>1, <2>2, <3>1, <3>2 DEF Keeps, Same, Win
  <2>5. CASE top > own.b
    <3>1. own'.pc = "popReset" /\ UNCHANGED handed
      BY <2>5, <2>7, Numbers
    <3>2. End' = own.b
      BY <2>1, <2>2, <3>1 DEF End
    <3>3. Win' = {} /\ Win = {}
      BY <2>1, <2>5, <3>2, Numbers DEF Win
    <3>4. QED
      BY <2>1, <3>1, <3>3 DEF Keeps, Same
  <2>6. QED
    BY <2>1, <2>3, <2>4, <2>5, Numbers
<1>6. CASE PopCas
  <2>1. /\ own.pc = "popCas" /\ own.b = Bottom /\ End = own.b + 1 /\ own.b \in Int
        /\ own.t = own.b /\ own.b <= top /\ own.item = Ring(own.b) /\ top <= End
        /\ UNCHANGED <<bottom, buffer, stores, thief, pushed, phantoms>>
    BY <1>6, Numbers DEF PopCas, DequeInv, OwnInv, IndexInv, End
  <2>2. Bottom' = Bottom /\ \A i : Ring(i)' = Ring(i)
    BY <2>1, ViewsKept
  <2>3. own'.pc = "popStore"
    BY <1>6, Types DEF PopCas, DequeInv, OwnType
  <2>4. End' = own.b
    BY <2>1, <2>2, <2>3 DEF End
  <2>5. CASE top = own.b
    <3>1. top' = top + 1 /\ HandOut(Ring(own.b))
      BY <1>6, <2>1, <2>5 DEF PopCas
    <3>2. Win' = Win \ {own.b} /\ own.b \in Win
      BY <2>1, <2>4, <2>5, <3>1, Numbers DEF Win
    <3>3. Takes(own.b)
      BY <2>1, <2>2, <3>1, <3>2 DEF Takes, Same
    <3>4. QED
      BY <2>1, <3>3
  <2>6. CASE top # own.b
    <3>1. UNCHANGED <<top, handed>>
      BY <1>6, <2>1, <2>6 DEF PopCas
    <3>2. Win' = {} /\ Win = {}
      BY <2>1, <2>4, <2>6, <3>1, Numbers DEF Win
    <3>3. QED
      BY <2>1, <3>1, <3>2 DEF Keeps, Same
  <2>7. QED
    BY <2>5, <2>6
<1>7. CASE PopStore
  <2>1. /\ own.pc = "popStore" /\ own.b = Bottom /\ Bottom = bottom /\ top = own.b + 1
        /\ own.t \in {own.b, own.b + 1} /\ own.b < MaxIndex /\ stores = <<>>
        /\ End = own.b /\ own' = Idle /\ own'.pc = "idle" /\ own.b \in Int
        /\ Store(ToBottom(own.t + 1, 0))
        /\ phantoms' = IF own.t # own.b THEN phantoms + 1 ELSE phantoms
        /\ UNCHANGED <<top, bottom, buffer, thief, pushed, handed>>
    BY <1>7, Numbers, NothingStored
    DEF PopStore, DequeInv, OwnInv, IndexInv, End, Idle, LostRace
  <2>2. ToBottom(own.t + 1, 0) \in Entry
    <3>1. own.t + 1 \in -1 .. MaxIndex + 2 /\ 0 \in 0 .. MaxIndex
      BY <2>1, Numbers
    <3>2. QED
      BY <3>1 DEF ToBottom, Entry
  <2>3. Bottom' = own.t + 1 /\ \A i : Ring(i)' = Ring(i)
    BY <2>1, <2>2, Facts, StoreToBottom
  <2>4. Win = {} /\ End' = own.t + 1
    BY <2>1, <2>3, Numbers DEF Win, End
  <2>5. CASE own.t = own.b
    <3>1. Win' = {}
      BY <2>1, <2>4, <2>5, Numbers DEF Win
    <3>2. QED
      BY <2>1, <2>4, <2>5, <3>1 DEF Keeps, Same
  <2>6. CASE own.t # own.b
    <3>1. Win' = {top}
      BY <2>1, <2>4, <2>6, Numbers DEF Win
    <3>2. Ring(top) \in {Null} \cup 1 .. pushed
      <4> DEFINE x == Ring(top)
      <4>1. Last = 0
        BY <2>1, Facts DEF Last, Retracted
      <4>2. x = buffer[Slot(top)] /\ Slot(top) \in 0 .. Capacity - 1
        BY <2>1, NothingStored, Numbers, SlotType
      <4>3. x = Null \/ 2 * x <= 2 * pushed + 1
        BY <4>1, <4>2, Numbers DEF BufferInv, DequeInv
      <4>4. x \in Task \cup {Null}
        BY ViewTypes, Numbers DEF DequeInv
      <4> HIDE DEF x
      <4>5. x = Null \/ (x \in Int /\ 1 <= x /\ x <= pushed)
        BY <4>3, <4>4, Numbers DEF Task
      <4>6. QED
        BY <4>5, Numbers DEF x
    <3>3. Claims(top)
      BY <2>1, <2>3, <2>4, <2>6, <3>1, <3>2 DEF Claims
    <3>4. QED
      BY <3>3, Numbers
  <2>7. QED
    BY <2>5, <2>6
<1>8. CASE PopReset
  <2>1. /\ own.pc = "popReset" /\ own.b = Bottom /\ top = own.b + 1 /\ own.t = own.b + 1
        /\ own.b < MaxIndex /\ End = own.b /\ own.b \in Int
        /\ own' = Idle /\ own'.pc = "idle" /\ Store(ToBottom(own.t, 0))
        /\ UNCHANGED <<top, bottom, buffer, thief, pushed, handed, phantoms>>
    BY <1>8, Numbers DEF PopReset, DequeInv, OwnInv, IndexInv, End, Idle
  <2>2. ToBottom(own.t, 0) \in Entry
    <3>1. own.t \in -1 .. MaxIndex + 2 /\ 0 \in 0 .. MaxIndex
      BY <2>1, Numbers
    <3>2. QED
      BY <3>1 DEF ToBottom, Entry
  <2>3. Bottom' = own.t
    BY <2>1, <2>2, Facts, StoreToBottom
  <2>4. End' = own.t
    BY <2>1, <2>3 DEF End
  <2>5. Win = {} /\ Win' = {}
    BY <2>1, <2>4, Numbers DEF Win
  <2>6. QED
    BY <2>1, <2>5 DEF Keeps, Same
<1>9. QED
  BY <1>1, <1>2, <1>3, <1>4, <1>5, <1>6, <1>7, <1>8 DEF Owner

LEMMA DrainKind ==
  ASSUME DequeInv, Drain
  PROVE  Keeps
<1>1. Bottom' = Bottom /\ \A i \in Int : Ring(i)' = Ring(i)
  BY Facts, Types, DrainHidden DEF DequeInv
<1>2. UNCHANGED <<top, own, pushed, handed, phantoms>>
  BY DEF Drain
<1>3. End' = End
  BY <1>1, <1>2 DEF End
<1>4. Win \subseteq Int
  BY Numbers DEF Win
<1>5. QED
  BY <1>1, <1>2, <1>3, <1>4 DEF Keeps, Same, Win

(* What a thief finds in memory is what the owner knows to be there.       *)
LEMMA StolenIsOldest ==
  ASSUME DequeInv, top < WindowEnd
  PROVE  Ring(top) = buffer[Slot(top)]
<1>1. CASE stores = <<>>
  BY <1>1, NothingStored
<1>2. CASE stores # <<>>
  <2>1. WindowEnd = bottom
    BY <1>2, Heads
  <2>2. QED
    BY <2>1, MemoryAgrees, Numbers
<1>3. QED
  BY <1>1, <1>2

LEMMA ThiefKinds ==
  ASSUME DequeInv, NEW w \in Thief, Steal(w)
  PROVE  Keeps \/ Takes(top)
<1>1. UNCHANGED <<bottom, buffer, stores, own, pushed, phantoms>>
  BY DEF Steal, StealTop, StealBottom, StealRead, StealCas
<1>2. Bottom' = Bottom /\ \A i : Ring(i)' = Ring(i)
  BY <1>1, ViewsKept
<1>3. End' = End
  BY <1>1, <1>2 DEF End
<1>4. CASE UNCHANGED <<top, handed>>
  BY <1>1, <1>2, <1>3, <1>4 DEF Keeps, Same, Win
<1>5. CASE ~ UNCHANGED <<top, handed>>
  <2>1. /\ thief[w].pc = "cas" /\ top = thief[w].t /\ top' = top + 1
        /\ HandOut(thief[w].item)
    BY <1>5 DEF Steal, StealTop, StealBottom, StealRead, StealCas
  <2>2. top < WindowEnd /\ thief[w].item = buffer[Slot(top)]
    BY <2>1, ThiefFacts
  <2>3. HandOut(Ring(top))
    BY <2>1, <2>2, StolenIsOldest
  <2>4. Win' = Win \ {top} /\ top \in Win
    BY <1>3, <2>1, <2>2, MemoryBehind, Numbers DEF Win
  <2>5. QED
    BY <1>1, <1>2, <2>3, <2>4 DEF Takes, Same
<1>6. QED
  BY <1>4, <1>5

LEMMA Kinds ==
  ASSUME DequeInv, Next
  PROVE  Keeps \/ \E j \in Int : Takes(j) \/ Pushes(j) \/ Claims(j)
BY OwnerKinds, DrainKind, ThiefKinds, Numbers DEF Next

(* The sets that are counted are finite.                                   *)
LEMMA WaitingFinite ==
  ASSUME DequeInv, NEW x
  PROVE  IsFiniteSet(Waiting(x)) /\ Cardinality(Waiting(x)) \in Nat
<1>1. IsFiniteSet(Win)
  BY FS_Interval, Numbers DEF Win
<1>2. Waiting(x) \in SUBSET Win
  BY DEF Waiting
<1>3. QED
  BY <1>1, <1>2, FS_Subset, FS_CardinalityType

(* Nothing changes for a task as long as what it loses in waiting it gains *)
(* in having been handed out.                                              *)
LEMMA KeepsHistory ==
  ASSUME DequeInv, HistoryInv, Keeps
  PROVE  HistoryInv'
<1>1. \A x : Waiting(x)' = Waiting(x)
  BY DEF Keeps, Same, Waiting
<1>2. Excess' = Excess
  BY <1>1 DEF Excess, Total, Keeps
<1>3. QED
  BY <1>1, <1>2 DEF HistoryInv, Keeps, Same

(* A task that is returned waits once less.                                *)
LEMMA TakesHistory ==
  ASSUME DequeInv, HistoryInv, NEW j \in Int, Takes(j)
  PROVE  HistoryInv'
<1>0. /\ Win' = Win \ {j} /\ j \in Win /\ UNCHANGED <<pushed, phantoms>>
      /\ \A i \in Win : Ring(i)' = Ring(i)
      /\ HandOut(Ring(j)) /\ handed \in [Task -> Nat]
      /\ Ring(j) \in Task \cup {Null}
  BY Types, ViewTypes DEF Takes, Same, DequeInv
<1>1. /\ handed' \in [Task -> Nat]
      /\ \A y \in Task : handed'[y] = IF y = Ring(j) THEN handed[y] + 1 ELSE handed[y]
  BY <1>0, HandOutType
<1>2. \A y : Waiting(y)' = IF y = Ring(j) THEN Waiting(y) \ {j} ELSE Waiting(y)
  BY <1>0 DEF Waiting
<1>3. ASSUME NEW y \in Task PROVE Total(y)' = Total(y)
  <2>1. CASE y = Ring(j)
    <3>1. j \in Waiting(y)
      BY <1>0, <2>1 DEF Waiting
    <3>2. Cardinality(Waiting(y)') = Cardinality(Waiting(y)) - 1
      BY <1>2, <2>1, <3>1, WaitingFinite, FS_RemoveElement
    <3>3. handed[y] \in Nat /\ Cardinality(Waiting(y)) \in Nat /\ handed'[y] = handed[y] + 1
      BY <1>0, <1>1, <2>1, WaitingFinite
    <3>4. QED
      BY <3>2, <3>3 DEF Total
  <2>2. CASE y # Ring(j)
    BY <1>1, <1>2, <2>2 DEF Total
  <2>3. QED
    BY <2>1, <2>2
<1>4. Excess' = Excess
  BY <1>3 DEF Excess
<1>5. \A x \in 1 .. pushed' : handed'[x] > 0 \/ Waiting(x)' # {}
  <2> SUFFICES ASSUME NEW x \in 1 .. pushed PROVE handed'[x] > 0 \/ Waiting(x)' # {}
    BY <1>0
  <2>1. x \in Task /\ handed[x] \in Nat
    <3>1. pushed \in 0 .. MaxIndex /\ MaxIndex \in Nat
      BY Facts
    <3>2. x \in Task
      BY <3>1 DEF Task
    <3>3. QED
      BY <3>2, <1>0
  <2>2. CASE x = Ring(j)
    BY <2>1, <2>2, <1>1
  <2>3. CASE x # Ring(j)
    BY <2>1, <2>3, <1>1, <1>2 DEF HistoryInv
  <2>4. QED
    BY <2>2, <2>3
<1>6. \A x \in Task : x > pushed' => handed'[x] = 0
  <2> SUFFICES ASSUME NEW x \in Task, x > pushed PROVE handed'[x] = 0
    BY <1>0
  <2>1. Ring(j) \in {Null} \cup 1 .. pushed
    BY <1>0 DEF HistoryInv
  <2>2. x # Ring(j)
    BY <2>1, BoundAssumption, Numbers DEF Task
  <2>3. QED
    BY <2>2, <1>1 DEF HistoryInv
<1>7. QED
  BY <1>0, <1>4, <1>5, <1>6 DEF HistoryInv

(* A pushed task is new: it neither waits nor was returned.                *)
LEMMA PushesHistory ==
  ASSUME DequeInv, HistoryInv, NEW j \in Int, Pushes(j), DequeInv'
  PROVE  HistoryInv'
<1>0. /\ Win' = Win \cup {j} /\ j \notin Win /\ UNCHANGED <<handed, phantoms>>
      /\ \A i \in Win : Ring(i)' = Ring(i)
      /\ Ring(j)' = pushed + 1 /\ pushed' = pushed + 1
      /\ handed \in [Task -> Nat] /\ pushed \in Nat
  BY Types, BoundAssumption DEF Pushes, Same, DequeInv
<1>1. PICK z \in Task : z = pushed + 1
  BY <1>0, Types, TypesNext DEF DequeInv, Task
<1>2. \A y : Waiting(y)' = IF y = z THEN Waiting(y) \cup {j} ELSE Waiting(y)
  BY <1>0, <1>1 DEF Waiting
<1>3. handed[z] = 0 /\ handed'[z] = 0
  <2>1. z > pushed
    BY <1>0, <1>1
  <2>2. QED
    BY <2>1, <1>0 DEF HistoryInv
<1>4. Waiting(z) = {} /\ Waiting(z)' = {j}
  <2>1. z \notin {Null} \cup 1 .. pushed
    BY <1>0, <1>1, BoundAssumption DEF Task
  <2>2. \A i \in Win : Ring(i) # z
    BY <2>1 DEF HistoryInv
  <2>3. Waiting(z) = {}
    BY <2>2 DEF Waiting
  <2>4. QED
    BY <2>3, <1>2
<1>5. Total(z) = 0 /\ Total(z)' = 1
  <2>1. Cardinality({}) = 0 /\ Cardinality({j}) = 1
    BY FS_EmptySet, FS_Singleton
  <2>2. QED
    BY <2>1, <1>3, <1>4 DEF Total
<1>6. Excess' = Excess
  <2>1. \A y \in Task : y # z => Total(y)' = Total(y)
    BY <1>0, <1>2 DEF Total
  <2>2. \A y \in Task : {y} \X (2 .. Total(y)') = {y} \X (2 .. Total(y))
    <3> SUFFICES ASSUME NEW y \in Task PROVE 2 .. Total(y)' = 2 .. Total(y)
      OBVIOUS
    <3>1. CASE y = z
      BY <3>1, <1>5
    <3>2. CASE y # z
      BY <3>2, <2>1
    <3>3. QED
      BY <3>1, <3>2
  <2>3. QED
    BY <2>2 DEF Excess
<1>7. \A x \in 1 .. pushed' : handed'[x] > 0 \/ Waiting(x)' # {}
  <2> SUFFICES ASSUME NEW x \in 1 .. pushed + 1 PROVE handed'[x] > 0 \/ Waiting(x)' # {}
    BY <1>0
  <2>1. x \in 1 .. pushed \/ x = z
    BY <1>0, <1>1
  <2>2. CASE x = z
    BY <2>2, <1>4
  <2>3. CASE x \in 1 .. pushed
    BY <2>3, <1>0, <1>2 DEF HistoryInv
  <2>4. QED
    BY <2>1, <2>2, <2>3
<1>8. \A x \in Task : x > pushed' => handed'[x] = 0
  BY <1>0 DEF HistoryInv, Task
<1>9. \A i \in Win' : Ring(i)' \in {Null} \cup 1 .. pushed'
  <2> SUFFICES ASSUME NEW i \in Win \cup {j}
               PROVE  Ring(i)' \in {Null} \cup 1 .. pushed + 1
    BY <1>0
  <2>1. CASE i \in Win
    BY <2>1, <1>0 DEF HistoryInv
  <2>2. CASE i = j
    BY <2>2, <1>0
  <2>3. QED
    BY <2>1, <2>2
<1>10. QED
  BY <1>0, <1>6, <1>7, <1>8, <1>9 DEF HistoryInv

(* A lost race brings back at most one task, and is counted.               *)
LEMMA ClaimsHistory ==
  ASSUME DequeInv, HistoryInv, NEW j \in Int, Claims(j)
  PROVE  HistoryInv'
<1>0. /\ Win = {} /\ Win' = {j} /\ UNCHANGED <<handed, pushed>>
      /\ Ring(j)' \in {Null} \cup 1 .. pushed /\ phantoms' = phantoms + 1
      /\ handed \in [Task -> Nat] /\ phantoms \in Nat
  BY Types DEF Claims, DequeInv
<1> DEFINE x == Ring(j)'
           n == handed[x] + 1
<1>1. \A y : Waiting(y) = {} /\ Waiting(y)' = IF y = x THEN {j} ELSE {}
  BY <1>0 DEF Waiting
<1>2. \A y \in Task : /\ Total(y) = handed[y]
                     /\ Total(y)' = IF y = x THEN handed[y] + 1 ELSE handed[y]
  <2> SUFFICES ASSUME NEW y \in Task
               PROVE  /\ Total(y) = handed[y]
                      /\ Total(y)' = IF y = x THEN handed[y] + 1 ELSE handed[y]
    OBVIOUS
  <2>1. Cardinality({}) = 0 /\ Cardinality({j}) = 1
    BY FS_EmptySet, FS_Singleton
  <2>2. Waiting(y) = {} /\ Waiting(y)' = IF y = x THEN {j} ELSE {}
    BY <1>1
  <2>3. handed[y] \in Nat /\ handed'[y] = handed[y]
    BY <1>0
  <2>4. Total(y) = handed[y]
    BY <2>1, <2>2, <2>3 DEF Total
  <2>5. Total(y)' = handed[y] + Cardinality(IF y = x THEN {j} ELSE {})
    BY <2>2, <2>3 DEF Total
  <2>6. QED
    BY <2>1, <2>3, <2>4, <2>5
<1>3. Excess' \subseteq Excess \cup {<<x, n>>}
  <2> SUFFICES ASSUME NEW y \in Task, NEW k \in 2 .. Total(y)'
               PROVE  <<y, k>> \in Excess \/ (y = x /\ k = n)
    BY DEF Excess
  <2>1. k \in 2 .. Total(y) \/ (y = x /\ k = n)
    BY <1>0, <1>2
  <2>2. QED
    BY <2>1 DEF Excess
<1>4. IsFiniteSet(Excess') /\ Cardinality(Excess') <= phantoms'
  <2>1. /\ IsFiniteSet(Excess \cup {<<x, n>>})
        /\ Cardinality(Excess \cup {<<x, n>>}) \in {Cardinality(Excess), Cardinality(Excess) + 1}
    BY FS_AddElement DEF HistoryInv
  <2>2. /\ IsFiniteSet(Excess')
        /\ Cardinality(Excess') <= Cardinality(Excess \cup {<<x, n>>})
    BY <1>3, <2>1, FS_Subset
  <2>3. Cardinality(Excess) \in Nat /\ Cardinality(Excess') \in Nat /\ Cardinality(Excess) <= phantoms
    BY <2>2, FS_CardinalityType DEF HistoryInv
  <2>4. QED
    BY <2>1, <2>2, <2>3, <1>0
<1>5. QED
  BY <1>0, <1>1, <1>4 DEF HistoryInv

(* The history is right initially and after every step.                    *)
LEMMA InitHistory ==
  ASSUME Init
  PROVE  HistoryInv
<1>1. DequeInv
  BY InitInv
<1>2. stores = <<>> /\ Bottom = 0 /\ own.pc = "idle" /\ top = 0 /\ pushed = 0 /\ phantoms = 0
      /\ handed = [x \in Task |-> 0]
  BY NothingStored DEF Init, Idle
<1>3. Win = {}
  BY <1>2 DEF Win, End
<1>4. \A x : Waiting(x) = {}
  BY <1>3 DEF Waiting
<1>5. \A x \in Task : Total(x) = 0
  <2> SUFFICES ASSUME NEW x \in Task PROVE Total(x) = 0
    OBVIOUS
  <2>1. Cardinality({}) = 0 /\ Waiting(x) = {} /\ handed[x] = 0
    BY <1>2, <1>4, FS_EmptySet
  <2>2. QED
    BY <2>1 DEF Total
<1>6. Excess = {}
  BY <1>5 DEF Excess
<1>7. QED
  BY <1>2, <1>3, <1>6, FS_EmptySet DEF HistoryInv

LEMMA HistoryStep ==
  ASSUME DequeInv, HistoryInv, [Next]_vars, DequeInv'
  PROVE  HistoryInv'
<1>1. CASE UNCHANGED vars
  <2>1. Bottom' = Bottom /\ \A i : Ring(i)' = Ring(i)
    BY <1>1, ViewsKept DEF vars
  <2>2. Keeps
    BY <1>1, <2>1 DEF vars, Keeps, Same, Win, End
  <2>3. QED
    BY <2>2, KeepsHistory
<1>2. CASE Next
  BY <1>2, Kinds, KeepsHistory, TakesHistory, PushesHistory, ClaimsHistory
<1>3. QED
  BY <1>1, <1>2

LEMMA HistoryInvariant == Spec => [](DequeInv /\ HistoryInv)
<1>1. Init => DequeInv /\ HistoryInv
  BY InitInv, InitHistory
<1>2. DequeInv /\ HistoryInv /\ [Next]_vars => (DequeInv /\ HistoryInv)'
  BY NextInv, HistoryStep
<1>3. QED
  BY <1>1, <1>2, PTL DEF Spec

(* The owner's window as a sequence holds what waits in it.                *)
LEMMA OwnWindowHolds ==
  ASSUME DequeInv, NEW x, Waiting(x) # {}
  PROVE  \E i \in DOMAIN OwnWindow : OwnWindow[i] = x
<1>1. PICK j \in Win : Ring(j) = x
  BY DEF Waiting
<1>2. /\ End \in Int /\ top \in Int /\ j \in Int /\ top <= j /\ j < End
  BY <1>1, Numbers DEF Win
<1>3. OwnWindow = [i \in 1 .. End - top |-> Ring(top + i - 1)]
  <2>1. OwnWindow = [i \in 1 .. (IF End > top THEN End - top ELSE 0) |-> Ring(top + i - 1)]
    BY DEF OwnWindow, TasksTo, End
  <2>2. QED
    BY <1>2, <2>1
<1>4. j - top + 1 \in 1 .. End - top /\ top + (j - top + 1) - 1 = j
  BY <1>2
<1>5. OwnWindow[j - top + 1] = Ring(j)
  BY <1>3, <1>4
<1>6. QED
  BY <1>1, <1>3, <1>4, <1>5

(* No task is lost, however the owner's stores are delayed.                *)
THEOREM NothingLost == Spec => []NoTaskLost
<1>1. DequeInv /\ HistoryInv => NoTaskLost
  BY OwnWindowHolds DEF HistoryInv, NoTaskLost
<1>2. QED
  BY <1>1, HistoryInvariant, PTL

(* A task comes out a second time only after a lost race for a last task.  *)
THEOREM RepeatsBounded == Spec => []RepeatsAreLostRaces
<1>1. ASSUME DequeInv, HistoryInv PROVE RepeatsAreLostRaces
  <2>1. Repeats \subseteq Excess
    <3> SUFFICES ASSUME NEW x \in Task, NEW k \in 2 .. handed[x]
                 PROVE  k \in 2 .. Total(x)
      BY DEF Repeats, Excess
    <3>1. handed[x] \in Nat /\ Cardinality(Waiting(x)) \in Nat
      BY <1>1, WaitingFinite, Types DEF DequeInv
    <3>2. QED
      BY <3>1 DEF Total
  <2>2. /\ IsFiniteSet(Excess) /\ Cardinality(Excess) <= phantoms
        /\ Cardinality(Repeats) <= Cardinality(Excess) /\ phantoms \in Nat
        /\ Cardinality(Excess) \in Nat /\ Cardinality(Repeats) \in Nat
    BY <1>1, <2>1, FS_Subset, FS_CardinalityType, Types DEF HistoryInv, DequeInv
  <2>3. QED
    BY <2>2 DEF RepeatsAreLostRaces
<1>2. QED
  BY <1>1, HistoryInvariant, PTL
=============================================================================
