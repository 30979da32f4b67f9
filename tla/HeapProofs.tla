------------------------------ MODULE HeapProofs ------------------------------
(***************************************************************************)
(* Proofs about Heap.tla, for any number of bins, cells, mappings and      *)
(* frames and any sizes.  Cells is inductive as it stands; Collections is  *)
(* as long as the large allocator makes at most one mapping, since it      *)
(* drops the first when it makes a second.                                 *)
(***************************************************************************)
EXTENDS Heap, SequenceTheorems, WellFoundedInduction, TLAPS

-----------------------------------------------------------------------------
(* Lists.                                                                  *)

(* What is in a list that another one is put in front of.                  *)
LEMMA InFront ==
  ASSUME NEW S, NEW s \in Seq(S), NEW t \in Seq(S), IsInjective(s), IsInjective(t),
         ToSet(s) \cap ToSet(t) = {}
  PROVE  /\ s \o t \in Seq(S)
         /\ IsInjective(s \o t)
         /\ ToSet(s \o t) = ToSet(s) \cup ToSet(t)
<1> DEFINE u == s \o t
<1>1. /\ u \in Seq(S) /\ Len(u) = Len(s) + Len(t) /\ Len(s) \in Nat /\ Len(t) \in Nat
      /\ \A i \in 1 .. Len(s) + Len(t) : u[i] = IF i <= Len(s) THEN s[i] ELSE t[i - Len(s)]
      /\ DOMAIN u = 1 .. Len(u) /\ DOMAIN s = 1 .. Len(s) /\ DOMAIN t = 1 .. Len(t)
  BY ConcatProperties, LenProperties
<1> HIDE DEF u
<1>2. ASSUME NEW i \in DOMAIN u
      PROVE  \/ i \in DOMAIN s /\ u[i] = s[i] /\ u[i] \in ToSet(s)
             \/ i - Len(s) \in DOMAIN t /\ u[i] = t[i - Len(s)] /\ u[i] \in ToSet(t)
  BY <1>1, <1>2 DEF ToSet
<1>3. IsInjective(u)
  <2> SUFFICES ASSUME NEW i \in DOMAIN u, NEW j \in DOMAIN u, u[i] = u[j] PROVE i = j
    BY DEF IsInjective
  <2>1. CASE i \in DOMAIN s /\ j \in DOMAIN s
    BY <2>1, <1>1 DEF IsInjective
  <2>2. CASE i - Len(s) \in DOMAIN t /\ j - Len(s) \in DOMAIN t
    <3>1. t[i - Len(s)] = t[j - Len(s)]
      BY <2>2, <1>1
    <3>2. i - Len(s) = j - Len(s)
      BY <2>2, <3>1 DEF IsInjective
    <3>3. QED BY <3>2, <1>1
  <2>3. QED
    BY <1>2, <2>1, <2>2
<1>4. ToSet(u) = ToSet(s) \cup ToSet(t)
  <2>1. ToSet(u) \subseteq ToSet(s) \cup ToSet(t)
    BY <1>2 DEF ToSet
  <2>2. \A i \in DOMAIN s : i \in DOMAIN u /\ u[i] = s[i]
    BY <1>1
  <2>3. ToSet(s) \subseteq ToSet(u)
    BY <2>2 DEF ToSet
  <2>4. \A i \in DOMAIN t : i + Len(s) \in DOMAIN u /\ u[i + Len(s)] = t[i]
    BY <1>1
  <2>5. ToSet(t) \subseteq ToSet(u)
    BY <2>4 DEF ToSet
  <2>6. QED
    BY <2>1, <2>3, <2>5
<1>5. QED
  BY <1>1, <1>3, <1>4 DEF u

(* What is in a list of one.                                               *)
LEMMA Single ==
  ASSUME NEW S, NEW c \in S
  PROVE  <<c>> \in Seq(S) /\ IsInjective(<<c>>) /\ ToSet(<<c>>) = {c}
<1>1. <<c>> \in Seq(S) /\ DOMAIN <<c>> = {1} /\ <<c>>[1] = c
  OBVIOUS
<1>2. QED
  BY <1>1 DEF IsInjective, ToSet

(* What is left of a list.                                                 *)
LEMMA WithoutOne ==
  ASSUME NEW S, NEW s \in Seq(S), IsInjective(s), NEW k \in DOMAIN s
  PROVE  /\ RemoveAt(s, k) \in Seq(S)
         /\ IsInjective(RemoveAt(s, k))
         /\ ToSet(RemoveAt(s, k)) = ToSet(s) \ {s[k]}
         /\ s[k] \in S
<1> DEFINE a == SubSeq(s, 1, k - 1)
           b == SubSeq(s, k + 1, Len(s))
<1>0. /\ Len(s) \in Nat /\ DOMAIN s = 1 .. Len(s) /\ k \in 1 .. Len(s)
      /\ \A i \in DOMAIN s : s[i] \in S
  BY LenProperties, ElementOfSeq
<1>1. /\ a \in Seq(S) /\ Len(a) = k - 1 /\ \A i \in 1 .. k - 1 : a[i] = s[i]
  <2>1. \A i \in 1 .. k - 1 : s[i] \in S
    BY <1>0
  <2>2. 1 \in Int /\ k - 1 \in Int
    BY <1>0
  <2>3. /\ a \in Seq(S) /\ Len(a) = IF 1 <= k - 1 THEN k - 1 - 1 + 1 ELSE 0
        /\ \A i \in 1 .. k - 1 - 1 + 1 : a[i] = s[1 + i - 1]
    BY <2>1, <2>2, SubSeqProperties
  <2>4. QED
    BY <2>3, <1>0
<1>2. /\ b \in Seq(S) /\ Len(b) = Len(s) - k /\ \A i \in 1 .. Len(s) - k : b[i] = s[k + i]
  <2>1. \A i \in k + 1 .. Len(s) : s[i] \in S
    BY <1>0
  <2>2. k + 1 \in Int /\ Len(s) \in Int
    BY <1>0
  <2>3. /\ b \in Seq(S) /\ Len(b) = IF k + 1 <= Len(s) THEN Len(s) - (k + 1) + 1 ELSE 0
        /\ \A i \in 1 .. Len(s) - (k + 1) + 1 : b[i] = s[k + 1 + i - 1]
    BY <2>1, <2>2, SubSeqProperties
  <2>4. QED
    BY <2>3, <1>0
<1>3. DOMAIN a = 1 .. k - 1 /\ DOMAIN b = 1 .. Len(s) - k
  BY <1>1, <1>2, LenProperties
<1> HIDE DEF a, b
<1>4. IsInjective(a)
  BY <1>0, <1>1, <1>3 DEF IsInjective
<1>5. IsInjective(b)
  <2> SUFFICES ASSUME NEW i \in DOMAIN b, NEW j \in DOMAIN b, b[i] = b[j] PROVE i = j
    BY DEF IsInjective
  <2>1. s[k + i] = s[k + j] /\ k + i \in DOMAIN s /\ k + j \in DOMAIN s
    BY <1>0, <1>2, <1>3
  <2>2. k + i = k + j
    BY <2>1 DEF IsInjective
  <2>3. QED BY <2>2, <1>0, <1>3
<1>6. ToSet(a) = {s[i] : i \in 1 .. k - 1}
  BY <1>1, <1>3 DEF ToSet
<1>7. ToSet(b) = {s[i] : i \in k + 1 .. Len(s)}
  <2>1. \A i \in k + 1 .. Len(s) : i - k \in DOMAIN b /\ b[i - k] = s[i]
    BY <1>0, <1>2, <1>3
  <2>2. \A i \in DOMAIN b : k + i \in k + 1 .. Len(s) /\ b[i] = s[k + i]
    BY <1>0, <1>2, <1>3
  <2>3. QED
    BY <2>1, <2>2 DEF ToSet
<1>8. ToSet(a) \cap ToSet(b) = {} /\ s[k] \notin ToSet(a) \cup ToSet(b)
  BY <1>0, <1>6, <1>7 DEF IsInjective
<1>9. ToSet(s) = ToSet(a) \cup {s[k]} \cup ToSet(b)
  <2>1. \A i \in DOMAIN s : i \in 1 .. k - 1 \/ i = k \/ i \in k + 1 .. Len(s)
    BY <1>0
  <2>2. \A i \in 1 .. k - 1 : i \in DOMAIN s
    BY <1>0
  <2>3. \A i \in k + 1 .. Len(s) : i \in DOMAIN s
    BY <1>0
  <2>4. QED
    BY <1>6, <1>7, <2>1, <2>2, <2>3 DEF ToSet
<1>10. /\ a \o b \in Seq(S) /\ IsInjective(a \o b)
       /\ ToSet(a \o b) = ToSet(a) \cup ToSet(b)
  BY <1>1, <1>2, <1>4, <1>5, <1>8, InFront
<1>11. RemoveAt(s, k) = a \o b
  BY DEF RemoveAt, a, b
<1>12. QED
  BY <1>0, <1>8, <1>9, <1>10, <1>11

(* What is left of a list without its first element.                       *)
LEMMA WithoutFirst ==
  ASSUME NEW S, NEW s \in Seq(S), IsInjective(s), s # <<>>
  PROVE  /\ Tail(s) \in Seq(S) /\ IsInjective(Tail(s))
         /\ Head(s) \in S /\ Head(s) \in ToSet(s)
         /\ ToSet(Tail(s)) = ToSet(s) \ {Head(s)}
<1>1. /\ Len(s) \in Nat \ {0} /\ DOMAIN s = 1 .. Len(s) /\ Head(s) = s[1]
      /\ Tail(s) \in Seq(S) /\ DOMAIN Tail(s) = 1 .. Len(s) - 1
      /\ \A i \in 1 .. Len(s) - 1 : Tail(s)[i] = s[i + 1]
      /\ Head(s) \in S
  BY LenProperties, HeadTailProperties, EmptySeq
<1>2. IsInjective(Tail(s))
  <2> SUFFICES ASSUME NEW i \in DOMAIN Tail(s), NEW j \in DOMAIN Tail(s),
                      Tail(s)[i] = Tail(s)[j]
               PROVE  i = j
    BY DEF IsInjective
  <2>1. s[i + 1] = s[j + 1] /\ i + 1 \in DOMAIN s /\ j + 1 \in DOMAIN s
    BY <1>1
  <2>2. i + 1 = j + 1
    BY <2>1 DEF IsInjective
  <2>3. QED BY <2>2, <1>1
<1>3. ToSet(Tail(s)) = ToSet(s) \ {Head(s)}
  <2>1. \A i \in DOMAIN Tail(s) : i + 1 \in DOMAIN s /\ i + 1 # 1 /\ Tail(s)[i] = s[i + 1]
    BY <1>1
  <2>2. \A i \in DOMAIN s : i # 1 => i - 1 \in DOMAIN Tail(s) /\ Tail(s)[i - 1] = s[i]
    BY <1>1
  <2>3. \A i \in DOMAIN s : s[i] = s[1] => i = 1
    BY <1>1 DEF IsInjective
  <2>4. QED
    BY <1>1, <2>1, <2>2, <2>3 DEF ToSet
<1>4. QED
  BY <1>1, <1>2, <1>3 DEF ToSet

LEMMA WithoutLast ==
  ASSUME NEW S, NEW s \in Seq(S), s # <<>>
  PROVE  LET r == SubSeq(s, 1, Len(s) - 1)
         IN r \in Seq(S) /\ \A k \in DOMAIN r : k \in DOMAIN s /\ r[k] = s[k]
<1> DEFINE n == Len(s) - 1
           r == SubSeq(s, 1, n)
<1>1. /\ Len(s) \in Nat \ {0} /\ DOMAIN s = 1 .. Len(s)
      /\ \A k \in 1 .. Len(s) - 1 : s[k] \in S
  BY LenProperties, ElementOfSeq, EmptySeq
<1>2. 1 \in Int /\ n \in Int /\ n \in Nat
  BY <1>1
<1>3. /\ r \in Seq(S) /\ Len(r) = IF 1 <= n THEN n - 1 + 1 ELSE 0
      /\ \A k \in 1 .. n - 1 + 1 : r[k] = s[1 + k - 1]
  BY <1>1, <1>2, SubSeqProperties
<1>4. DOMAIN r = 1 .. Len(r)
  BY <1>3, LenProperties
<1>5. 1 .. n \subseteq DOMAIN s
  BY <1>1
<1> HIDE DEF r, n
<1>6. Len(r) = n
  BY <1>2, <1>3
<1>7. \A k \in 1 .. n : r[k] = s[k]
  BY <1>2, <1>3
<1>8. QED
  BY <1>3, <1>4, <1>5, <1>6, <1>7 DEF r, n

-----------------------------------------------------------------------------
(* Cells.                                                                  *)

LEMMA CellParts ==
  ASSUME NEW c \in Cell
  PROVE  /\ c[1] \in Allocators /\ c[2] \in 1 .. Pages[c[1]] /\ c[3] \in Slots(c[1])
         /\ c = <<c[1], c[2], c[3]>>
  BY DEF Cell

LEMMA CellIs ==
  ASSUME NEW i \in Allocators, NEW p \in 1 .. Pages[i], NEW s \in Slots(i)
  PROVE  <<i, p, s>> \in Cell
  BY DEF Cell

LEMMA Constants ==
  /\ \A i \in Allocators : CellCount(i) \in Nat \ {0} /\ Pages[i] \in Nat
  /\ \A i \in Bins : i \in Allocators /\ i # LARGE_BIN /\ CellCount(i) = CellsIn[i]
                     /\ CellsIn[i] \in Nat \ {0, 1}
  /\ \A i \in Allocators : i # LARGE_BIN => i \in Bins
  /\ LARGE_BIN \in Allocators
<1>1. \A i \in Bins : i # LARGE_BIN
  BY BinAssumption DEF Bins, LARGE_BIN
<1>2. QED
  BY <1>1, BinAssumption, BoundAssumption DEF Allocators, CellCount

-----------------------------------------------------------------------------
(* What holds of the allocators and the threads of a sweep, whatever the   *)
(* large allocator does with its list of mappings.                         *)

Alloc == {c \in Cell : hdr[c].allocated}

Header == [size : Nat, mark : BOOLEAN, allocated : BOOLEAN]

TypeOK ==
  /\ hdr \in [Cell -> Header]
  /\ free \in [Allocators -> Seq(Cell)]
  /\ pages \in [Allocators -> Nat] /\ \A i \in Allocators : pages[i] <= Pages[i]
  /\ maps \in [Allocators -> Seq(Nat)]
  /\ refs \in [Cell -> Cell \cup {Null}]
  /\ stack \in Seq(Cell)
  /\ fresh \in Cell \cup {Null}
  /\ todo \in [Allocators -> [maps : Seq(Nat), slot : Nat \ {0}]]
  /\ rings \in SUBSET Cell /\ seen \in SUBSET Cell

\* A list of mappings names each at most once and none that was not made.
Mappings(list, i) == IsInjective(list) /\ ToSet(list) \subseteq 1 .. pages[i]

WalksOK ==
  \A i \in Allocators : /\ Mappings(maps[i], i)
                        /\ Mappings(todo[i].maps, i)
                        /\ todo[i].slot \in Slots(i)

\* The header of an object leads to the allocator its cell came from.
InBin == \A c \in Alloc : BinOf(hdr[c].size) = c[1]

Usable(c) == c[2] <= pages[c[1]] /\ IsLinked(c)

\* The free cells of the first n mappings.
FreeUpTo(i, n) == {c \in Cell : c[1] = i /\ c[2] <= n /\ IsLinked(c) /\ ~hdr[c].allocated}
FreeCells(i) == FreeUpTo(i, pages[i])

Lists == \A i \in Allocators : IsInjective(free[i]) /\ ToSet(free[i]) = FreeCells(i)

AllocUsable == \A c \in Alloc : Usable(c)

Cells == TypeOK /\ WalksOK /\ InBin /\ Lists /\ AllocUsable

(* Together they say where every cell is.                                  *)
LEMMA CellsImplies ==
  ASSUME Cells
  PROVE  CellsAccounted
<1> USE DEF Cells
<1>1. \A i \in Allocators : ToSet(free[i]) \subseteq Cell /\ IsInjective(free[i])
  BY DEF Lists, FreeCells, FreeUpTo, Usable
<1>2. ASSUME NEW c \in Cell
      PROVE  LET i == c[1]
             IN /\ \A j \in Allocators \ {i} : c \notin ToSet(free[j])
                /\ (c \in ToSet(free[i])) = (/\ c[2] <= pages[i] /\ IsLinked(c)
                                            /\ ~hdr[c].allocated)
                /\ hdr[c].allocated => c[2] <= pages[i] /\ IsLinked(c)
  <2>1. c[1] \in Allocators
    BY CellParts
  <2>2. \A j \in Allocators : c \in ToSet(free[j]) <=> (c[1] = j /\ Usable(c) /\ ~hdr[c].allocated)
    BY DEF Lists, FreeCells, FreeUpTo, Usable
  <2>3. hdr[c].allocated => Usable(c)
    BY DEF AllocUsable, Alloc
  <2>4. QED
    BY <2>1, <2>2, <2>3 DEF Usable, IsLinked
<1>3. QED
  BY <1>1, <1>2 DEF CellsAccounted

LEMMA InitCells ==
  ASSUME Init
  PROVE  Cells
<1> USE DEF Init
<1>1. TypeOK
  BY BoundAssumption, EmptySeq DEF TypeOK, Header
<1>2. IsInjective(<<>>) /\ ToSet(<<>>) = {}
  BY DEF IsInjective, ToSet
<1>3. WalksOK
  BY <1>2, Constants DEF WalksOK, Mappings, Slots
<1>4. InBin /\ AllocUsable
  BY DEF InBin, AllocUsable, Alloc
<1>5. \A c \in Cell : ~Usable(c)
  BY CellParts, Constants DEF Usable
<1>6. Lists
  BY <1>2, <1>5 DEF Lists, FreeCells, FreeUpTo, Usable
<1>7. QED
  BY <1>1, <1>3, <1>4, <1>6 DEF Cells

-----------------------------------------------------------------------------
(* Allocation.                                                             *)

LEMMA Smallest ==
  ASSUME NEW T, T \subseteq Nat, T # {}
  PROVE  \E m \in T : \A n \in T : m <= n
<1> DEFINE R == {pair \in Nat \X Nat : pair[1] < pair[2]}
<1>1. IsWellFoundedOn(R, Nat)
  BY NatLessThanWellFounded, Zenon DEF OpToRel
<1>2. PICK m \in T : \A n \in T : <<n, m>> \notin R
  BY <1>1, WFMin, Zenon
<1>3. \A n \in T : ~(n < m)
  BY <1>2
<1>4. QED
  BY <1>3

(* The allocator a request goes to, and what the header of the cell will   *)
(* say.                                                                    *)
LEMMA ForRequest ==
  ASSUME NEW size \in Sizes
  PROVE  LET i == BinFor(size)
         IN /\ i \in Allocators
            /\ SizeWritten(i, size) \in Nat
            /\ BinOf(SizeWritten(i, size)) = i
<1> DEFINE fitting == {i \in Bins : size <= class_size(i)}
           i == BinFor(size)
<1>0. size \in Nat
  BY BoundAssumption
<1>1. CASE fitting = {}
  <2>1. i = LARGE_BIN
    BY <1>1 DEF BinFor
  <2>2. BIN_LIMIT - 1 \in Bins
    BY BinAssumption DEF Bins
  <2>3. ~(size <= class_size(BIN_LIMIT - 1)) /\ class_size(BIN_LIMIT - 1) \in Nat
    BY <1>1, <2>2, ClassAssumption
  <2>4. size > class_size(BIN_LIMIT - 1)
    BY <1>0, <2>3
  <2>5. QED
    BY <1>0, <2>1, <2>4, Constants DEF SizeWritten, BinOf
<1>2. CASE fitting # {}
  <2>1. fitting \subseteq Bins /\ Bins \subseteq Nat
    BY DEF Bins
  <2>2. \E m \in fitting : \A n \in fitting : m <= n
    BY <1>2, <2>1, Smallest
  <2>3. i \in fitting
    BY <1>2, <2>2 DEF BinFor
  <2>4. QED
    BY <2>1, <2>3, Constants, ClassAssumption DEF SizeWritten
<1>3. QED
  BY <1>1, <1>2

(* The cells of a new mapping that are linked.                             *)
LEMMA LinkedCells ==
  ASSUME TypeOK, NEW i \in Allocators, CanExtend(i)
  PROVE  /\ Linked(i) \in Seq(Cell) /\ IsInjective(Linked(i)) /\ Linked(i) # <<>>
         /\ ToSet(Linked(i)) = {c \in Cell : c[1] = i /\ c[2] = pages[i] + 1 /\ IsLinked(c)}
<1> DEFINE p == pages[i] + 1
           n == IF i = LARGE_BIN THEN LargeCells ELSE CellsIn[i] - 1
           l == [s \in 1 .. n |-> <<i, p, s>>]
<1>1. Linked(i) = l
  BY DEF Linked, LargeMapping, init_mapping
<1>2. p \in 1 .. Pages[i] /\ n \in Nat \ {0} /\ 1 .. n \subseteq Slots(i)
  <2>1. pages[i] \in Nat /\ Pages[i] \in Nat /\ pages[i] < Pages[i]
    BY Constants DEF TypeOK, CanExtend
  <2>2. p \in 1 .. Pages[i]
    BY <2>1
  <2>3. CASE i = LARGE_BIN
    BY <2>2, <2>3, Constants DEF Slots, CellCount
  <2>4. CASE i # LARGE_BIN
    <3>1. CellsIn[i] \in Nat \ {0, 1} /\ Slots(i) = 1 .. CellsIn[i]
      BY <2>4, Constants DEF Slots
    <3>2. QED
      BY <2>2, <2>4, <3>1
  <2>5. QED
    BY <2>3, <2>4
<1>3. l \in Seq(Cell) /\ l # <<>> /\ ToSet(l) \subseteq Cell
  <2>1. \A s \in 1 .. n : <<i, p, s>> \in Cell
    BY <1>2, CellIs
  <2>2. l \in [1 .. n -> Cell] /\ DOMAIN l = 1 .. n
    BY <2>1
  <2>3. l \in Seq(Cell)
    BY <1>2, <2>2, SeqDef
  <2>4. 1 \in 1 .. n
    <3> HIDE DEF n
    <3>1. QED BY <1>2
  <2>5. ToSet(l) \subseteq Cell
    BY <2>1 DEF ToSet
  <2>6. QED
    BY <2>2, <2>3, <2>4, <2>5
<1>4. IsInjective(l)
  BY DEF IsInjective
<1>5. ASSUME NEW c \in Cell
      PROVE  c \in ToSet(l) <=> (c[1] = i /\ c[2] = p /\ IsLinked(c))
  <2>1. c = <<c[1], c[2], c[3]>> /\ c[3] \in Slots(c[1])
    BY CellParts
  <2>2. c[1] = i => (IsLinked(c) <=> c[3] \in 1 .. n)
    BY <2>1, Constants DEF IsLinked, Slots, CellCount
  <2>3. c \in ToSet(l) <=> \E s \in 1 .. n : c = <<i, p, s>>
    BY DEF ToSet
  <2>4. QED
    BY <2>1, <2>2, <2>3
<1>6. QED
  BY <1>1, <1>3, <1>4, <1>5

(* A cell of a list that holds just the free cells of its allocator leaves *)
(* the list and becomes an object.                                         *)
LEMMA HandedOut ==
  ASSUME Cells, NEW size \in Sizes, NEW i, i = BinFor(size),
         NEW list \in Seq(Cell), IsInjective(list), NEW k \in DOMAIN list,
         HandOut(i, size, list, k),
         pages' \in [Allocators -> Nat], \A j \in Allocators : pages'[j] <= Pages[j],
         \A j \in Allocators : pages[j] <= pages'[j] /\ (j # i => pages'[j] = pages[j]),
         ToSet(list) = FreeUpTo(i, pages'[i]),
         maps' \in [Allocators -> Seq(Nat)], \A j \in Allocators : Mappings(maps[j], j)',
         UNCHANGED <<refs, stack, todo, rings, seen>>
  PROVE  /\ Cells'
         /\ \E c \in Cell \ Alloc :
              /\ fresh' = c /\ Alloc' = Alloc \cup {c} /\ hdr'[c].mark = FALSE
              /\ \A d \in Cell \ {c} : hdr'[d] = hdr[d]
<1> DEFINE c == list[k]
           rest == RemoveAt(list, k)
           h == [size |-> SizeWritten(i, size), mark |-> FALSE, allocated |-> TRUE]
<1>1. /\ i \in Allocators /\ SizeWritten(i, size) \in Nat
      /\ BinOf(SizeWritten(i, size)) = i
  BY ForRequest
<1>2. /\ rest \in Seq(Cell) /\ IsInjective(rest) /\ ToSet(rest) = ToSet(list) \ {c}
      /\ c \in Cell /\ c \in ToSet(list)
  <2>1. /\ rest \in Seq(Cell) /\ IsInjective(rest) /\ ToSet(rest) = ToSet(list) \ {c}
        /\ c \in Cell
    BY WithoutOne
  <2>2. c \in ToSet(list)
    BY DEF ToSet
  <2>3. QED
    BY <2>1, <2>2
<1>3. /\ c[1] = i /\ c[2] <= pages'[i] /\ IsLinked(c) /\ ~hdr[c].allocated
  BY <1>2 DEF FreeUpTo
<1>4. /\ free' = [free EXCEPT ![i] = rest]
      /\ hdr' = [hdr EXCEPT ![c] = h]
      /\ fresh' = c
  BY DEF HandOut, Unlink
<1> HIDE DEF c, rest
<1>5. h \in Header
  BY <1>1 DEF Header
<1> HIDE DEF h
<1>6. TypeOK'
  BY <1>1, <1>2, <1>4, <1>5 DEF TypeOK, Cells
<1>7. /\ hdr'[c] = h /\ \A d \in Cell \ {c} : hdr'[d] = hdr[d]
      /\ free'[i] = rest /\ \A j \in Allocators \ {i} : free'[j] = free[j]
  BY <1>1, <1>2, <1>4 DEF TypeOK, Cells
<1>8. h.allocated /\ h.mark = FALSE /\ h.size = SizeWritten(i, size)
  BY DEF h
<1>9. Alloc' = Alloc \cup {c}
  BY <1>2, <1>7, <1>8 DEF Alloc
<1>10. WalksOK'
  <2> SUFFICES ASSUME NEW j \in Allocators
               PROVE  Mappings(todo[j].maps, j)' /\ (todo[j].slot \in Slots(j))'
    BY DEF WalksOK
  <2>1. IsInjective(todo[j].maps) /\ ToSet(todo[j].maps) \subseteq 1 .. pages[j]
        /\ todo[j].slot \in Slots(j)
    BY DEF Cells, WalksOK, Mappings
  <2>2. 1 .. pages[j] \subseteq 1 .. pages'[j]
    BY DEF Cells, TypeOK
  <2>3. QED
    BY <2>1, <2>2 DEF Mappings, Slots, CellCount
<1>11. InBin'
  BY <1>1, <1>2, <1>3, <1>7, <1>8, <1>9 DEF Cells, InBin, Alloc
<1>12. \A d \in Cell : Usable(d) => Usable(d)'
  BY CellParts DEF Cells, TypeOK, Usable, IsLinked
<1>13. Usable(c)'
  BY <1>3 DEF Usable, IsLinked
<1>14. AllocUsable'
  BY <1>9, <1>12, <1>13 DEF Cells, AllocUsable, Alloc
<1>15. Lists'
  <2>1. IsInjective(free'[i]) /\ ToSet(free'[i]) = FreeCells(i)'
    BY <1>2, <1>7, <1>8, ZenonT(40) DEF FreeCells, FreeUpTo, Usable, IsLinked
  <2>2. ASSUME NEW j \in Allocators \ {i}
        PROVE  IsInjective(free'[j]) /\ ToSet(free'[j]) = FreeCells(j)'
    <3>1. IsInjective(free[j]) /\ ToSet(free[j]) = FreeCells(j)
      BY DEF Cells, Lists
    <3>2. FreeCells(j)' = FreeCells(j)
      BY <1>3, <1>7 DEF FreeCells, FreeUpTo, Usable, IsLinked
    <3>3. QED
      BY <1>7, <3>1, <3>2
  <2>3. QED
    BY <2>1, <2>2 DEF Lists
<1>16. QED
  BY <1>2, <1>3, <1>4, <1>6, <1>7, <1>8, <1>9, <1>10, <1>11, <1>14, <1>15 DEF Cells, Alloc

LEMMA Extended ==
  ASSUME TypeOK, WalksOK, NEW i \in Allocators, extend(i)
  PROVE  /\ pages' \in [Allocators -> Nat] /\ pages'[i] = pages[i] + 1
         /\ \A j \in Allocators : /\ pages[j] <= pages'[j] /\ pages'[j] <= Pages[j]
                                  /\ j # i => pages'[j] = pages[j] /\ maps'[j] = maps[j]
         /\ maps' \in [Allocators -> Seq(Nat)]
         /\ \A j \in Allocators : Mappings(maps[j], j)'
         /\ (i # LARGE_BIN \/ maps[i] = <<>>) =>
              ToSet(maps'[i]) = ToSet(maps[i]) \cup {pages'[i]}
<1> DEFINE p == pages[i] + 1
           kept == IF i = LARGE_BIN /\ maps[i] # <<>> THEN Tail(maps[i]) ELSE maps[i]
<1>1. /\ pages \in [Allocators -> Nat] /\ pages[i] \in Nat /\ Pages[i] \in Nat
      /\ pages[i] < Pages[i] /\ p \in Nat
  BY Constants DEF TypeOK, extend, CanExtend
<1>2. /\ pages' = [pages EXCEPT ![i] = p]
      /\ maps' = [maps EXCEPT ![i] = <<p>> \o kept]
  BY DEF extend, WithMapping
<1>3. kept \in Seq(Nat) /\ IsInjective(kept) /\ ToSet(kept) \subseteq 1 .. pages[i]
  <2>1. maps[i] \in Seq(Nat) /\ IsInjective(maps[i]) /\ ToSet(maps[i]) \subseteq 1 .. pages[i]
    BY DEF TypeOK, WalksOK, Mappings
  <2>2. maps[i] # <<>> => /\ Tail(maps[i]) \in Seq(Nat) /\ IsInjective(Tail(maps[i]))
                          /\ ToSet(Tail(maps[i])) \subseteq ToSet(maps[i])
    BY <2>1, WithoutFirst
  <2>3. QED
    BY <2>1, <2>2
<1>4. (i # LARGE_BIN \/ maps[i] = <<>>) => kept = maps[i]
  OBVIOUS
<1> HIDE DEF kept
<1>5. /\ <<p>> \o kept \in Seq(Nat) /\ IsInjective(<<p>> \o kept)
      /\ ToSet(<<p>> \o kept) = {p} \cup ToSet(kept)
  <2>1. <<p>> \in Seq(Nat) /\ IsInjective(<<p>>) /\ ToSet(<<p>>) = {p}
    BY <1>1, Single
  <2>2. {p} \cap ToSet(kept) = {}
    BY <1>1, <1>3
  <2> DEFINE one == <<p>>
  <2>3. one \in Seq(Nat) /\ IsInjective(one) /\ ToSet(one) = {p}
    BY <2>1
  <2> HIDE DEF one
  <2>4. /\ one \o kept \in Seq(Nat) /\ IsInjective(one \o kept)
        /\ ToSet(one \o kept) = ToSet(one) \cup ToSet(kept)
    BY <1>3, <2>2, <2>3, InFront
  <2>5. QED
    BY <2>3, <2>4 DEF one
<1>6. pages' \in [Allocators -> Nat] /\ maps' \in [Allocators -> Seq(Nat)]
  BY <1>1, <1>2, <1>5 DEF TypeOK
<1>7. /\ pages'[i] = p /\ maps'[i] = <<p>> \o kept
      /\ \A j \in Allocators \ {i} : pages'[j] = pages[j] /\ maps'[j] = maps[j]
  BY <1>1, <1>2 DEF TypeOK
<1>8. \A j \in Allocators : pages[j] <= pages'[j] /\ pages'[j] <= Pages[j]
  <2>1. \A j \in Allocators : pages[j] \in Nat /\ Pages[j] \in Nat /\ pages[j] <= Pages[j]
    BY Constants DEF TypeOK
  <2>2. QED
    BY <1>1, <1>7, <2>1
<1>9. \A j \in Allocators : Mappings(maps[j], j)'
  <2>1. {p} \cup ToSet(kept) \subseteq 1 .. p
    BY <1>1, <1>3
  <2>2. QED
    BY <1>5, <1>7, <2>1 DEF WalksOK, Mappings
<1>10. QED
  BY <1>4, <1>5, <1>6, <1>7, <1>8, <1>9

(* A request turns a free cell into an object and leaves the others alone. *)
LEMMA AllocateCells ==
  ASSUME Cells, NEW size \in Sizes, allocate(size)
  PROVE  /\ Cells'
         /\ \E c \in Cell \ Alloc :
              /\ fresh' = c /\ Alloc' = Alloc \cup {c} /\ hdr'[c].mark = FALSE
              /\ \A d \in Cell \ {c} : hdr'[d] = hdr[d]
<1> DEFINE i == BinFor(size)
<1>0. i \in Allocators
  BY ForRequest
<1>1. UNCHANGED <<refs, stack, todo, rings, seen>>
  BY DEF allocate, marking
<1> HIDE DEF i
<1>2. /\ free[i] \in Seq(Cell) /\ IsInjective(free[i])
      /\ ToSet(free[i]) = FreeUpTo(i, pages[i])
  BY <1>0 DEF Cells, TypeOK, Lists, FreeCells
<1>3. CASE AllocateFromList(i, size)
  <2>1. PICK k \in DOMAIN free[i] : HandOut(i, size, free[i], k)
    BY <1>3 DEF AllocateFromList
  <2>2. pages' = pages /\ maps' = maps
    BY <1>3 DEF AllocateFromList
  <2>3. /\ pages' \in [Allocators -> Nat] /\ \A j \in Allocators : pages'[j] <= Pages[j]
        /\ \A j \in Allocators : pages[j] <= pages'[j] /\ pages'[j] = pages[j]
        /\ maps' \in [Allocators -> Seq(Nat)]
    BY <2>2 DEF Cells, TypeOK
  <2>4. \A j \in Allocators : Mappings(maps[j], j)'
    BY <2>2 DEF Cells, WalksOK, Mappings
  <2>5. i = BinFor(size)
    BY DEF i
  <2>6. QED
    BY <1>1, <1>2, <2>1, <2>2, <2>3, <2>4, <2>5, HandedOut
<1>4. CASE AllocateExtending(i, size)
  <2> DEFINE list == Linked(i) \o free[i]
  <2>1. extend(i) /\ CanExtend(i) /\ HandOut(i, size, list, 1)
    BY <1>4 DEF AllocateExtending, extend
  <2>2. /\ Linked(i) \in Seq(Cell) /\ IsInjective(Linked(i)) /\ Linked(i) # <<>>
        /\ ToSet(Linked(i)) = {c \in Cell : c[1] = i /\ c[2] = pages[i] + 1 /\ IsLinked(c)}
    BY <1>0, <2>1, LinkedCells DEF Cells
  <2>3. /\ pages' \in [Allocators -> Nat] /\ pages'[i] = pages[i] + 1
        /\ \A j \in Allocators : /\ pages[j] <= pages'[j] /\ pages'[j] <= Pages[j]
                                 /\ j # i => pages'[j] = pages[j]
        /\ maps' \in [Allocators -> Seq(Nat)]
        /\ \A j \in Allocators : Mappings(maps[j], j)'
    BY <1>0, <2>1, Extended DEF Cells
  <2>4. pages[i] \in Nat /\ \A c \in Cell : c[1] = i => c[2] \in Nat
    BY <1>0, CellParts DEF Cells, TypeOK
  <2>5. ToSet(Linked(i)) \cap ToSet(free[i]) = {}
    BY <1>2, <2>2, <2>4 DEF FreeUpTo
  <2>6. list \in Seq(Cell) /\ IsInjective(list) /\ ToSet(list) = ToSet(Linked(i)) \cup ToSet(free[i])
    BY <1>2, <2>2, <2>5, InFront
  <2>7. 1 \in DOMAIN list
    BY <1>2, <2>2, <2>6, ConcatProperties, LenProperties, EmptySeq
  <2>8. ToSet(list) = FreeUpTo(i, pages'[i])
    <3>1. \A c \in Cell : c[1] = i /\ c[2] = pages[i] + 1 => ~hdr[c].allocated
      BY <2>4 DEF Cells, AllocUsable, Usable, Alloc
    <3>2. \A c \in Cell : c[1] = i => (c[2] <= pages'[i] <=> c[2] = pages[i] + 1 \/ c[2] <= pages[i])
      BY <2>3, <2>4
    <3>3. QED
      BY <1>2, <2>2, <2>6, <3>1, <3>2 DEF FreeUpTo
  <2>9. i = BinFor(size)
    BY DEF i
  <2>10. /\ pages' \in [Allocators -> Nat] /\ \A j \in Allocators : pages'[j] <= Pages[j]
         /\ \A j \in Allocators : pages[j] <= pages'[j] /\ (j # i => pages'[j] = pages[j])
    BY <2>3
  <2>11. /\ maps' \in [Allocators -> Seq(Nat)] /\ \A j \in Allocators : Mappings(maps[j], j)'
    BY <2>3
  <2>12. PICK l \in Seq(Cell) : l = list
    BY <2>6
  <2>13. PICK k \in DOMAIN l : HandOut(i, size, l, k)
    BY <2>1, <2>7, <2>12
  <2>14. /\ IsInjective(l)
         /\ ToSet(l) = FreeUpTo(i, pages'[i])
    BY <2>6, <2>8, <2>12
  <2> HIDE DEF list
  <2>15. QED
    BY <1>1, <2>9, <2>10, <2>11, <2>13, <2>14, HandedOut, ZenonT(40)
<1>5. QED
  BY <1>3, <1>4 DEF allocate, i

-----------------------------------------------------------------------------
(* Reachability.                                                           *)

(* What is reached is the smallest set that holds the roots and, but for   *)
(* the objects in stop, what its members refer to.                         *)
LEMMA ReachedUpTo ==
  ASSUME NEW roots \in SUBSET Cell, NEW ref, \A c \in Cell : ref[c] \in Cell \cup {Null},
         NEW stop
  PROVE  LET R == Objects!ReachFrom(roots, ref, stop)
         IN /\ R \subseteq Cell /\ roots \subseteq R
            /\ \A c \in R \ stop : ref[c] # Null => ref[c] \in R
            /\ \A S \in SUBSET Cell : /\ roots \subseteq S
                                      /\ \A c \in S \ stop : ref[c] # Null => ref[c] \in S
                                      => R \subseteq S
<1> DEFINE R == Objects!ReachFrom(roots, ref, stop)
           known == roots \cup ({ref[c] : c \in Cell} \ {Null})
           closed == Objects!Closed(roots, ref, stop)
<1>1. R = {c \in Cell : \A set \in closed : c \in set}
  BY DEF Objects!ReachFrom
<1>2. \A set : set \in closed <=> /\ set \in SUBSET known /\ roots \subseteq set
                                  /\ \A c \in set \ stop : ref[c] # Null => ref[c] \in set
  BY DEF Objects!Closed
<1>3. known \subseteq Cell /\ roots \subseteq known
      /\ \A c \in Cell : ref[c] # Null => ref[c] \in known
  OBVIOUS
<1> HIDE DEF R, closed, known
<1>4. \A c \in R \ stop : ref[c] # Null => ref[c] \in R
  BY <1>1, <1>2
<1>5. R \subseteq Cell /\ roots \subseteq R
  BY <1>1, <1>2
<1>6. ASSUME NEW S \in SUBSET Cell, roots \subseteq S,
             \A c \in S \ stop : ref[c] # Null => ref[c] \in S
      PROVE  R \subseteq S
  <2>1. S \cap known \in closed
    BY <1>2, <1>3, <1>6
  <2>2. QED
    BY <1>1, <2>1
<1>7. QED
  BY <1>4, <1>5, <1>6 DEF R

LEMMA Reached ==
  ASSUME NEW roots \in SUBSET Cell, NEW ref \in [Cell -> Cell \cup {Null}]
  PROVE  LET R == Objects!ReachFrom(roots, ref, {})
         IN /\ R \subseteq Cell /\ roots \subseteq R
            /\ \A c \in R : ref[c] # Null => ref[c] \in R
            /\ \A S \in SUBSET Cell : /\ roots \subseteq S
                                      /\ \A c \in S : ref[c] # Null => ref[c] \in S
                                      => R \subseteq S
<1>1. \A S : S \ {} = S
  OBVIOUS
<1>2. QED
  BY <1>1, ReachedUpTo

(* To stop at objects that are not reached changes nothing.                *)
LEMMA Unstopped ==
  ASSUME NEW roots \in SUBSET Cell, NEW ref \in [Cell -> Cell \cup {Null}], NEW stop,
         Objects!ReachFrom(roots, ref, {}) \cap stop = {}
  PROVE  Objects!ReachFrom(roots, ref, stop) = Objects!ReachFrom(roots, ref, {})
<1> DEFINE R == Objects!ReachFrom(roots, ref, {})
           T == Objects!ReachFrom(roots, ref, stop)
<1>1. /\ R \subseteq Cell /\ roots \subseteq R
      /\ \A c \in R : ref[c] # Null => ref[c] \in R
      /\ \A S \in SUBSET Cell : /\ roots \subseteq S
                                /\ \A c \in S : ref[c] # Null => ref[c] \in S
                                => R \subseteq S
  BY Reached
<1>2. /\ T \subseteq Cell /\ roots \subseteq T
      /\ \A c \in T \ stop : ref[c] # Null => ref[c] \in T
      /\ \A S \in SUBSET Cell : /\ roots \subseteq S
                                /\ \A c \in S \ stop : ref[c] # Null => ref[c] \in S
                                => T \subseteq S
  BY ReachedUpTo
<1>3. R \cap stop = {}
  OBVIOUS
<1> HIDE DEF R, T
<1>4. T \subseteq R
  BY <1>1, <1>2
<1>5. R \subseteq T
  <2>1. \A c \in T \cap R : ref[c] # Null => ref[c] \in T \cap R
    BY <1>1, <1>2, <1>3
  <2>2. R \subseteq T \cap R
    BY <1>1, <1>2, <2>1
  <2>3. QED
    BY <2>2
<1>6. QED
  BY <1>4, <1>5 DEF R, T

(* What an object that is not reached refers to does not matter.           *)
LEMMA Blanked ==
  ASSUME NEW roots \in SUBSET Cell, NEW ref \in [Cell -> Cell \cup {Null}], NEW c \in Cell,
         c \notin Objects!ReachFrom(roots, ref, {})
  PROVE  Objects!ReachFrom(roots, [ref EXCEPT ![c] = Null], {}) = Objects!ReachFrom(roots, ref, {})
<1> DEFINE R == Objects!ReachFrom(roots, ref, {})
           blank == [ref EXCEPT ![c] = Null]
           B == Objects!ReachFrom(roots, blank, {})
<1>1. blank \in [Cell -> Cell \cup {Null}] /\ \A d \in Cell \ {c} : blank[d] = ref[d]
  OBVIOUS
<1> HIDE DEF blank
<1>2. /\ R \subseteq Cell /\ roots \subseteq R
      /\ \A d \in R : ref[d] # Null => ref[d] \in R
      /\ \A S \in SUBSET Cell : /\ roots \subseteq S
                                /\ \A d \in S : ref[d] # Null => ref[d] \in S
                                => R \subseteq S
  BY Reached
<1>3. /\ B \subseteq Cell /\ roots \subseteq B
      /\ \A d \in B : blank[d] # Null => blank[d] \in B
      /\ \A S \in SUBSET Cell : /\ roots \subseteq S
                                /\ \A d \in S : blank[d] # Null => blank[d] \in S
                                => B \subseteq S
  BY <1>1, Reached
<1>4. c \notin R
  OBVIOUS
<1> HIDE DEF R, B
<1>5. B \subseteq R
  <2>1. \A d \in R : blank[d] # Null => blank[d] \in R
    BY <1>1, <1>2, <1>4
  <2>2. QED
    BY <1>2, <1>3, <2>1
<1>6. R \subseteq B
  <2>1. \A d \in B : ref[d] # Null => ref[d] \in B
    BY <1>1, <1>3, <1>4, <1>5
  <2>2. QED
    BY <1>2, <1>3, <2>1
<1>7. QED
  BY <1>5, <1>6 DEF R, B, blank

-----------------------------------------------------------------------------
(* The program and the collections.                                        *)

LEMMA ProgramCells ==
  ASSUME Cells, Program
  PROVE  Cells' /\ fresh' = fresh
<1>1. UNCHANGED <<hdr, free, pages, maps, todo, fresh, rings, seen>>
  BY DEF Program, allocators, marking, Objects!Program, Objects!push_frame, Objects!pop_frame,
         Objects!Write
<1>2. Objects!InHand \subseteq Cell
  BY DEF Objects!InHand, Objects!Reachable, Objects!ReachFrom, Cells, TypeOK
<1> DEFINE Typed == refs' \in [Cell -> Cell \cup {Null}] /\ stack' \in Seq(Cell)
<1>3. Typed
  <2>0. refs \in [Cell -> Cell \cup {Null}] /\ stack \in Seq(Cell)
    BY DEF Cells, TypeOK
  <2>1. ASSUME NEW o \in Objects!InHand, Objects!push_frame(o)
        PROVE  Typed
    BY <1>2, <2>0, <2>1, AppendProperties DEF Objects!push_frame
  <2>2. CASE Objects!pop_frame
    <3>1. stack # <<>> /\ refs' = refs /\ stack' = SubSeq(stack, 1, Len(stack) - 1)
      BY <2>2 DEF Objects!pop_frame
    <3>2. SubSeq(stack, 1, Len(stack) - 1) \in Seq(Cell)
      BY <2>0, <3>1, WithoutLast
    <3>3. QED
      BY <2>0, <3>1, <3>2
  <2>3. ASSUME NEW o \in Objects!InHand, NEW target \in Objects!InHand \cup {Null},
               Objects!Write(o, target)
        PROVE  Typed
    BY <1>2, <2>0, <2>3 DEF Objects!Write
  <2>4. QED
    BY <2>1, <2>2, <2>3 DEF Program, Objects!Program
<1>4. TypeOK'
  BY <1>1, <1>3 DEF Cells, TypeOK
<1>5. QED
  BY <1>1, <1>4 DEF Cells, WalksOK, Mappings, InBin, Alloc, Lists, FreeCells, FreeUpTo,
                    AllocUsable, Usable, IsLinked, Slots, CellCount

(* What a marking may come across are cells, and it comes across all that  *)
(* it has to find.                                                         *)
LEMMA FindableCells ==
  ASSUME TypeOK
  PROVE  /\ Objects!Roots \in SUBSET Cell
         /\ Traced \subseteq Findable /\ Findable \subseteq Cell
<1> DEFINE roots == Objects!Roots
           all == Objects!Roots \cup rings
<1>1. /\ roots \in SUBSET Cell /\ all \in SUBSET Cell /\ roots \subseteq all
      /\ refs \in [Cell -> Cell \cup {Null}]
  BY LenProperties, ElementOfSeq DEF TypeOK, Objects!Roots
<1>2. Traced = Objects!ReachFrom(roots, refs, Marked) /\ Findable = Objects!ReachFrom(all, refs, Marked)
  BY DEF Traced, Findable, Found
<1> HIDE DEF roots, all
<1>3. /\ Findable \subseteq Cell /\ all \subseteq Findable
      /\ \A c \in Findable \ Marked : refs[c] # Null => refs[c] \in Findable
  BY <1>1, <1>2, ReachedUpTo
<1>4. \A S \in SUBSET Cell : /\ roots \subseteq S
                             /\ \A c \in S \ Marked : refs[c] # Null => refs[c] \in S
                             => Traced \subseteq S
  BY <1>1, <1>2, ReachedUpTo
<1>5. QED
  BY <1>1, <1>3, <1>4 DEF roots

LEMMA CollectCells ==
  ASSUME Cells, collect
  PROVE  /\ Cells' /\ Alloc' = Alloc /\ fresh' = Null
         /\ \E strays \in SUBSET Findable : Marked' = Marked \cup Traced \cup strays
         /\ seen' = Findable
<1>1. /\ UNCHANGED <<free, pages, maps, refs, stack>>
      /\ fresh' = Null /\ seen' = Findable
      /\ todo' = [i \in Allocators |-> Walk(i)]
  BY DEF collect, allocators
<1>2. Traced \subseteq Findable /\ Findable \subseteq Cell
  BY FindableCells DEF Cells
<1>3. PICK strays \in SUBSET (Findable \ Traced) :
        LET new == (Traced \cup strays) \ Marked
        IN /\ hdr' = [c \in Cell |-> IF c \in new THEN [hdr[c] EXCEPT !.mark = TRUE] ELSE hdr[c]]
           /\ rings' = rings \cup Pushed(new)
  BY DEF collect
<1> DEFINE new == (Traced \cup strays) \ Marked
<1>4. new \subseteq Cell
  BY <1>2
<1>5. /\ hdr' = [c \in Cell |-> IF c \in new THEN [hdr[c] EXCEPT !.mark = TRUE] ELSE hdr[c]]
      /\ rings' = rings \cup Pushed(new)
  BY <1>3
<1> DEFINE marked == Marked \cup Traced \cup strays
<1>6. new \cup Marked = marked
  OBVIOUS
<1> HIDE DEF new, marked
<1>7. hdr \in [Cell -> Header] /\ refs \in [Cell -> Cell \cup {Null}] /\ rings \in SUBSET Cell
  BY DEF Cells, TypeOK
<1>8. /\ hdr' \in [Cell -> Header]
      /\ \A c \in Cell : /\ hdr'[c].size = hdr[c].size /\ hdr'[c].allocated = hdr[c].allocated
                         /\ hdr'[c].mark = (c \in new \/ hdr[c].mark)
  BY <1>5, <1>7 DEF Header
<1>9. rings' \in SUBSET Cell
  BY <1>4, <1>5, <1>7 DEF Pushed
<1>10. Marked' = marked
  BY <1>4, <1>6, <1>8 DEF Marked
<1>11. \A i \in Allocators : /\ Walk(i) \in [maps : Seq(Nat), slot : Nat \ {0}]
                             /\ Walk(i).maps = maps[i] /\ Walk(i).slot \in Slots(i)
  BY Constants DEF Walk, Cells, TypeOK, Slots
<1>12. TypeOK'
  BY <1>1, <1>2, <1>8, <1>9, <1>11 DEF Cells, TypeOK
<1>13. WalksOK'
  BY <1>1, <1>11 DEF Cells, WalksOK, Mappings, Slots, CellCount
<1>14. Alloc' = Alloc /\ InBin'
  BY <1>8 DEF Cells, Alloc, InBin
<1>15. Lists' /\ AllocUsable'
  BY <1>1, <1>8, <1>14 DEF Cells, Lists, FreeCells, FreeUpTo, AllocUsable, Usable, IsLinked
<1>16. Cells'
  BY <1>12, <1>13, <1>14, <1>15 DEF Cells
<1>17. strays \in SUBSET Findable
  OBVIOUS
<1>18. QED
  BY <1>1, <1>10, <1>14, <1>16, <1>17 DEF marked

(* The cell a thread looks at is one of its own.                           *)
LEMMA VisitedCell ==
  ASSUME Cells, NEW i \in Allocators, todo[i].maps # <<>>
  PROVE  /\ Visited(i) \in Cell /\ Visited(i)[1] = i
         /\ Visited(i)[2] = Head(todo[i].maps) /\ Visited(i)[3] = todo[i].slot
<1>1. /\ todo[i].maps \in Seq(Nat) /\ IsInjective(todo[i].maps)
      /\ ToSet(todo[i].maps) \subseteq 1 .. pages[i] /\ todo[i].slot \in Slots(i)
  BY DEF Cells, TypeOK, WalksOK, Mappings
<1>2. Head(todo[i].maps) \in 1 .. pages[i]
  BY <1>1, WithoutFirst
<1>3. Head(todo[i].maps) \in 1 .. Pages[i]
  BY <1>2, Constants, SMTT(30) DEF Cells, TypeOK
<1>4. QED
  BY <1>1, <1>3, CellIs DEF Visited

LEMMA Advanced ==
  ASSUME Cells, NEW i \in Allocators, todo[i].maps # <<>>
  PROVE  /\ Advance(i) \in [maps : Seq(Nat), slot : Nat \ {0}]
         /\ Mappings(Advance(i).maps, i) /\ Advance(i).slot \in Slots(i)
<1>1. /\ todo[i] \in [maps : Seq(Nat), slot : Nat \ {0}] /\ todo[i].maps \in Seq(Nat)
      /\ IsInjective(todo[i].maps)
      /\ ToSet(todo[i].maps) \subseteq 1 .. pages[i] /\ todo[i].slot \in Slots(i)
  BY DEF Cells, TypeOK, WalksOK, Mappings
<1>2. /\ Tail(todo[i].maps) \in Seq(Nat) /\ IsInjective(Tail(todo[i].maps))
      /\ ToSet(Tail(todo[i].maps)) \subseteq 1 .. pages[i]
  BY <1>1, WithoutFirst
<1>3. CellCount(i) \in Nat \ {0} /\ todo[i].slot \in Nat \ {0}
  BY <1>1, Constants
<1>4. CASE todo[i].slot < CellCount(i)
  <2>1. Advance(i) = [maps |-> todo[i].maps, slot |-> todo[i].slot + 1]
    BY <1>4 DEF Advance
  <2>2. /\ Advance(i) \in [maps : Seq(Nat), slot : Nat \ {0}]
        /\ Advance(i).maps = todo[i].maps /\ Advance(i).slot = todo[i].slot + 1
    BY <1>1, <1>3, <2>1
  <2>3. QED
    BY <1>1, <1>3, <1>4, <2>2 DEF Mappings, Slots
<1>5. CASE ~(todo[i].slot < CellCount(i))
  <2>1. Advance(i) = [maps |-> Tail(todo[i].maps), slot |-> 1]
    BY <1>5 DEF Advance
  <2>2. QED
    BY <1>2, <1>3, <2>1 DEF Mappings, Slots
<1>6. QED
  BY <1>4, <1>5

(* A thread of a sweep changes at most the cell it looks at and the free   *)
(* list of its own allocator.                                              *)
LEMMA SweepCells ==
  ASSUME Cells, NEW i \in Allocators, sweep(i)
  PROVE  LET c == Visited(i)
         IN /\ Cells'
            /\ fresh' = fresh
            /\ \A j \in Allocators \ {i} : free'[j] = free[j] /\ todo'[j] = todo[j]
            /\ todo'[i] = Advance(i)
            /\ \A d \in Cell \ {c} : hdr'[d] = hdr[d]
            /\ Alloc' = Alloc \ (IF hdr[c].allocated /\ ~hdr[c].mark THEN {c} ELSE {})
<1> DEFINE c == Visited(i)
<1>1. /\ todo[i].maps # <<>> /\ todo' = [todo EXCEPT ![i] = Advance(i)]
      /\ UNCHANGED <<pages, maps, stack, fresh, rings>>
      /\ seen' \in {seen, {}}
  BY DEF sweep
<1>2. c \in Cell /\ c[1] = i
  BY <1>1, VisitedCell
<1>3. /\ hdr \in [Cell -> Header] /\ free \in [Allocators -> Seq(Cell)]
      /\ refs \in [Cell -> Cell \cup {Null}]
  BY DEF Cells, TypeOK
<1> HIDE DEF c
<1>4. \/ ~hdr[c].allocated /\ UNCHANGED <<hdr, free, refs>>
      \/ hdr[c].allocated /\ hdr[c].mark /\ Unmark(c)
      \/ hdr[c].allocated /\ ~hdr[c].mark /\ deallocate(c)
  BY DEF sweep, c
<1>5. /\ todo' \in [Allocators -> [maps : Seq(Nat), slot : Nat \ {0}]]
      /\ WalksOK'
      /\ todo'[i] = Advance(i) /\ \A j \in Allocators \ {i} : todo'[j] = todo[j]
  <2>1. /\ Advance(i) \in [maps : Seq(Nat), slot : Nat \ {0}]
        /\ Mappings(Advance(i).maps, i) /\ Advance(i).slot \in Slots(i)
    BY <1>1, Advanced
  <2>2. /\ todo' \in [Allocators -> [maps : Seq(Nat), slot : Nat \ {0}]]
        /\ todo'[i] = Advance(i) /\ \A j \in Allocators \ {i} : todo'[j] = todo[j]
    BY <1>1, <2>1 DEF Cells, TypeOK
  <2>3. WalksOK'
    BY <1>1, <2>1, <2>2 DEF Cells, WalksOK, Mappings, Slots, CellCount
  <2>4. QED
    BY <2>2, <2>3
<1>6. \A d \in Cell : Usable(d)' <=> Usable(d)
  BY <1>1 DEF Usable, IsLinked
<1> DEFINE Kept == /\ hdr' \in [Cell -> Header] /\ free' = free /\ refs' = refs
                   /\ \A d \in Cell : hdr'[d].size = hdr[d].size /\ hdr'[d].allocated = hdr[d].allocated
                   /\ \A d \in Cell \ {c} : hdr'[d] = hdr[d]
<1>7. ASSUME Kept
      PROVE  /\ Cells' /\ Alloc' = Alloc
             /\ \A j \in Allocators \ {i} : free'[j] = free[j]
             /\ \A d \in Cell \ {c} : hdr'[d] = hdr[d]
  <2>1. TypeOK'
    BY <1>1, <1>5, <1>7 DEF Cells, TypeOK
  <2>2. Alloc' = Alloc /\ InBin'
    BY <1>7 DEF Cells, Alloc, InBin
  <2>3. Lists' /\ AllocUsable'
    BY <1>1, <1>7, <2>2 DEF Cells, Lists, FreeCells, FreeUpTo, AllocUsable, Usable, IsLinked
  <2>4. QED
    BY <1>5, <1>7, <2>1, <2>2, <2>3 DEF Cells
<1>8. CASE ~hdr[c].allocated /\ UNCHANGED <<hdr, free, refs>>
  <2>1. Kept
    BY <1>3, <1>8
  <2>2. QED
    BY <1>1, <1>5, <1>7, <1>8, <2>1 DEF c
<1>9. CASE hdr[c].allocated /\ hdr[c].mark /\ Unmark(c)
  <2>1. Kept
    BY <1>2, <1>3, <1>9 DEF Unmark, Header
  <2>2. QED
    BY <1>1, <1>5, <1>7, <1>9, <2>1 DEF c
<1>10. CASE hdr[c].allocated /\ ~hdr[c].mark /\ deallocate(c)
  <2>1. BinOf(hdr[c].size) = i /\ Usable(c)
    BY <1>2, <1>10 DEF Cells, InBin, AllocUsable, Alloc
  <2>2. /\ free' = [free EXCEPT ![i] = <<c>> \o free[i]]
        /\ hdr' = [hdr EXCEPT ![c].allocated = FALSE]
        /\ refs' = [refs EXCEPT ![c] = Null]
    BY <1>10, <2>1 DEF deallocate
  <2>3. /\ hdr' \in [Cell -> Header] /\ refs' \in [Cell -> Cell \cup {Null}]
        /\ ~hdr'[c].allocated
        /\ \A d \in Cell \ {c} : hdr'[d] = hdr[d]
    BY <1>2, <1>3, <2>2 DEF Header
  <2>4. /\ free[i] \in Seq(Cell) /\ IsInjective(free[i]) /\ ToSet(free[i]) = FreeUpTo(i, pages[i])
    BY <1>3 DEF Cells, Lists, FreeCells
  <2> DEFINE one == <<c>>
  <2>5. one \in Seq(Cell) /\ IsInjective(one) /\ ToSet(one) = {c}
    BY <1>2, Single
  <2>6. {c} \cap ToSet(free[i]) = {}
    BY <1>10, <2>4 DEF FreeUpTo
  <2> HIDE DEF one
  <2>7. /\ one \o free[i] \in Seq(Cell) /\ IsInjective(one \o free[i])
        /\ ToSet(one \o free[i]) = ToSet(one) \cup ToSet(free[i])
    BY <2>4, <2>5, <2>6, InFront
  <2>8. free' = [free EXCEPT ![i] = one \o free[i]]
    BY <2>2 DEF one
  <2>9. /\ free' \in [Allocators -> Seq(Cell)] /\ free'[i] = one \o free[i]
        /\ \A j \in Allocators \ {i} : free'[j] = free[j]
    BY <1>3, <2>7, <2>8
  <2>10. TypeOK'
    BY <1>1, <1>5, <2>3, <2>9 DEF Cells, TypeOK
  <2>11. Alloc' = Alloc \ {c}
    BY <1>2, <2>3 DEF Alloc
  <2>12. InBin' /\ AllocUsable'
    BY <1>6, <2>3, <2>11 DEF Cells, InBin, AllocUsable, Alloc
  <2>13. Lists'
    <3>1. ASSUME NEW j \in Allocators, j # i
          PROVE  IsInjective(free'[j]) /\ ToSet(free'[j]) = FreeCells(j)'
      <4>1. FreeCells(j)' = FreeCells(j)
        BY <1>1, <1>2, <2>3, <3>1 DEF FreeCells, FreeUpTo, IsLinked
      <4>2. IsInjective(free[j]) /\ ToSet(free[j]) = FreeCells(j)
        BY DEF Cells, Lists
      <4>3. QED
        BY <2>9, <3>1, <4>1, <4>2
    <3>2. FreeCells(i)' = {c} \cup FreeUpTo(i, pages[i])
      BY <1>1, <1>2, <2>1, <2>3 DEF FreeCells, FreeUpTo, Usable, IsLinked
    <3>3. QED
      BY <2>4, <2>5, <2>7, <2>9, <3>1, <3>2 DEF Lists
  <2>14. QED
    BY <1>1, <1>5, <1>10, <2>3, <2>9, <2>10, <2>11, <2>12, <2>13 DEF Cells, c
<1>11. QED
  BY <1>4, <1>8, <1>9, <1>10

(* Every cell is where it should be, after any history.                    *)
LEMMA NextCells ==
  ASSUME Cells, [Next]_vars
  PROVE  Cells'
<1>1. ASSUME NEW size \in Sizes, allocate(size) PROVE Cells'
  BY <1>1, AllocateCells
<1>2. CASE Program
  BY <1>2, ProgramCells
<1>3. CASE collect
  BY <1>3, CollectCells
<1>4. ASSUME NEW i \in Allocators, sweep(i) PROVE Cells'
  BY <1>4, SweepCells
<1>5. CASE UNCHANGED vars
  BY <1>5 DEF vars, Cells, TypeOK, WalksOK, Mappings, InBin, Alloc, Lists, FreeCells,
              FreeUpTo, AllocUsable, Usable, IsLinked, Slots, CellCount
<1>6. QED
  BY <1>1, <1>2, <1>3, <1>4, <1>5 DEF Next

(* Any cell is in one place: an object, or once in the list of its own     *)
(* allocator (bin.cpp, fla.cpp).                                           *)
THEOREM CellsCorrect == Spec => []CellsAccounted
<1>1. Init => Cells
  BY InitCells
<1>2. Cells /\ [Next]_vars => Cells'
  BY NextCells
<1>3. Cells => CellsAccounted
  BY CellsImplies
<1>4. QED
  BY <1>1, <1>2, <1>3, PTL DEF Spec

(* The threads of a sweep keep to their own allocators (runtime.cpp:166),  *)
(* although it is the header of a cell that says where it goes back to.    *)
THEOREM ThreadsApart == Spec => OwnBin
<1> DEFINE Apart == Sweeping => \A i \in Allocators : todo'[i] # todo[i] =>
              /\ \A j \in Allocators \ {i} : free'[j] = free[j] /\ todo'[j] = todo[j]
              /\ \A c \in Cell : c[1] # i => hdr'[c] = hdr[c]
<1>1. Init => Cells
  BY InitCells
<1>2. Cells /\ [Next]_vars => Cells'
  BY NextCells
<1>3. ASSUME Cells, [Next]_vars
      PROVE  [Apart]_vars
  <2>1. CASE UNCHANGED vars
    BY <2>1
  <2>2. CASE ~Sweeping
    BY <2>2
  <2>3. ASSUME NEW k \in Allocators, sweep(k) PROVE Apart
    <3>1. /\ todo[k].maps # <<>>
          /\ \A j \in Allocators \ {k} : free'[j] = free[j] /\ todo'[j] = todo[j]
          /\ \A d \in Cell \ {Visited(k)} : hdr'[d] = hdr[d]
      BY <1>3, <2>3, SweepCells DEF sweep
    <3>2. Visited(k)[1] = k
      BY <1>3, <3>1, VisitedCell
    <3>3. QED
      BY <3>1, <3>2
  <2>4. QED
    BY <1>3, <2>1, <2>2, <2>3 DEF Next, allocate, Program, collect
<1>4. QED
  BY <1>1, <1>2, <1>3, PTL DEF Spec, OwnBin

-----------------------------------------------------------------------------
(* What holds of collections, as long as the large allocator loses none of *)
(* its mappings.                                                           *)

AllListed == \A i \in Allocators : ToSet(maps[i]) = 1 .. pages[i]

\* What the program can reach or will, once it has filled its new object in.
Held == Objects!ReachFrom(Objects!Roots \cup ({fresh} \ {Null}), refs, {})

HeldLive == Held \subseteq Alloc

FreeBlank == \A c \in Cell \ Alloc : refs[c] = Null

\* The objects that the sweep will keep.
ToKeep == {c \in Alloc : hdr[c].mark \/ c \notin ToVisit(c[1])}

SweepBounds ==
  Sweeping => fresh = Null /\ Objects!Reachable \subseteq ToKeep /\ ToKeep \subseteq seen

Collections ==
  Cells /\ AllListed /\ MarksClear /\ HeldLive /\ FreeBlank /\ SweepBounds

LEMMA InitCollections ==
  ASSUME Init
  PROVE  Collections
<1>1. Cells
  BY InitCells
<1>2. AllListed
  BY DEF Init, AllListed, ToSet
<1>3. ~Sweeping
  BY DEF Init, Sweeping
<1>4. MarksClear /\ FreeBlank
  BY DEF Init, MarksClear, Marked, FreeBlank, Alloc
<1>5. HeldLive
  <2>1. Objects!Roots \cup ({fresh} \ {Null}) = {}
    BY DEF Init, Objects!Roots
  <2>2. Held = Objects!ReachFrom({}, refs, {}) /\ refs \in [Cell -> Cell \cup {Null}]
    BY <1>1, <2>1 DEF Held, Cells, TypeOK
  <2>3. Held \subseteq {}
    BY <2>2, Reached
  <2>4. QED
    BY <2>3 DEF HeldLive
<1>6. QED
  BY <1>1, <1>2, <1>3, <1>4, <1>5 DEF Collections, SweepBounds

LEMMA AtRest ==
  ASSUME ~Sweeping
  PROVE  /\ \A i \in Allocators : ToVisit(i) = {}
         /\ MarksClear => Marked \cap Alloc = {}
<1>1. \A i \in Allocators : ToVisit(i) = {}
  BY DEF ToVisit, Sweeping
<1>2. QED
  BY <1>1, CellParts DEF MarksClear, Marked, Alloc

LEMMA ReachableCells ==
  ASSUME TypeOK
  PROVE  /\ Objects!Roots \in SUBSET Cell /\ refs \in [Cell -> Cell \cup {Null}]
         /\ Objects!Reachable \subseteq Cell
         /\ Objects!Roots \subseteq Objects!Reachable
         /\ \A c \in Objects!Reachable : refs[c] # Null => refs[c] \in Objects!Reachable
         /\ \A S \in SUBSET Cell : /\ Objects!Roots \subseteq S
                                   /\ \A c \in S : refs[c] # Null => refs[c] \in S
                                   => Objects!Reachable \subseteq S
<1>1. Objects!Roots \in SUBSET Cell /\ refs \in [Cell -> Cell \cup {Null}]
  BY LenProperties, ElementOfSeq DEF TypeOK, Objects!Roots
<1>2. QED
  BY <1>1, Reached DEF Objects!Reachable

LEMMA HeldCells ==
  ASSUME TypeOK
  PROVE  /\ Held \subseteq Cell
         /\ Objects!Roots \cup ({fresh} \ {Null}) \subseteq Held
         /\ \A c \in Held : refs[c] # Null => refs[c] \in Held
         /\ \A S \in SUBSET Cell : /\ Objects!Roots \cup ({fresh} \ {Null}) \subseteq S
                                   /\ \A c \in S : refs[c] # Null => refs[c] \in S
                                   => Held \subseteq S
<1>1. Objects!Roots \cup ({fresh} \ {Null}) \in SUBSET Cell /\ refs \in [Cell -> Cell \cup {Null}]
  BY ReachableCells DEF TypeOK
<1>2. QED
  BY <1>1, Reached DEF Held

LEMMA HeldCellsNext ==
  ASSUME TypeOK', NEW S \in SUBSET Cell, Objects!Roots' \cup ({fresh'} \ {Null}) \subseteq S,
         \A c \in S : refs'[c] # Null => refs'[c] \in S
  PROVE  Held' \subseteq S
<1>1. stack' \in Seq(Cell) /\ refs' \in [Cell -> Cell \cup {Null}] /\ fresh' \in Cell \cup {Null}
  BY DEF TypeOK
<1>2. Objects!Roots' \cup ({fresh'} \ {Null}) \in SUBSET Cell
  OBVIOUS
<1>3. Held' = Objects!ReachFrom(Objects!Roots' \cup ({fresh'} \ {Null}), refs', {})
  BY DEF Held
<1>4. QED
  BY <1>1, <1>2, <1>3, Reached

(* What the program can reach exists.                                      *)
LEMMA LiveObjects ==
  ASSUME Collections
  PROVE  /\ Objects!Reachable \subseteq Alloc
         /\ Objects!InHand \subseteq Held /\ Objects!InHand \subseteq Alloc
<1>1. Held \subseteq Alloc /\ TypeOK
  BY DEF Collections, HeldLive, Cells
<1>2. Objects!Reachable \subseteq Held
  BY <1>1, HeldCells, ReachableCells
<1>3. QED
  BY <1>1, <1>2, HeldCells DEF Objects!InHand

(* While the large allocator has at most one mapping, none is dropped.     *)
LEMMA ExtendedListed ==
  ASSUME Pages[LARGE_BIN] <= 1, TypeOK, WalksOK, AllListed, NEW i \in Allocators, extend(i)
  PROVE  AllListed'
<1>1. pages[i] \in Nat /\ Pages[i] \in Nat /\ pages[i] < Pages[i]
  BY Constants DEF TypeOK, extend, CanExtend
<1>2. i = LARGE_BIN => maps[i] = <<>>
  <2> SUFFICES ASSUME i = LARGE_BIN PROVE maps[i] = <<>>
    OBVIOUS
  <2>1. pages[i] = 0
    BY <1>1
  <2>2. ToSet(maps[i]) = {} /\ maps[i] \in Seq(Nat) /\ IsInjective(maps[i])
    BY <2>1 DEF AllListed, TypeOK, WalksOK, Mappings
  <2>3. QED
    BY <2>2, WithoutFirst
<1>3. /\ pages'[i] = pages[i] + 1
      /\ \A j \in Allocators \ {i} : pages'[j] = pages[j] /\ maps'[j] = maps[j]
      /\ ToSet(maps'[i]) = ToSet(maps[i]) \cup {pages'[i]}
  BY <1>2, Extended
<1>4. ToSet(maps'[i]) = 1 .. pages'[i]
  BY <1>1, <1>3 DEF AllListed
<1>5. QED
  BY <1>3, <1>4 DEF AllListed

LEMMA AllocateCollections ==
  ASSUME Pages[LARGE_BIN] <= 1, Collections, NEW size \in Sizes, allocate(size)
  PROVE  Collections'
<1>1. ~Sweeping /\ UNCHANGED <<refs, stack, todo>>
  BY DEF allocate
<1>2. ~Sweeping'
  BY <1>1 DEF Sweeping
<1>3. PICK c \in Cell \ Alloc : /\ fresh' = c /\ Alloc' = Alloc \cup {c} /\ hdr'[c].mark = FALSE
                                /\ \A d \in Cell \ {c} : hdr'[d] = hdr[d]
  BY AllocateCells DEF Collections
<1>4. Cells'
  BY AllocateCells DEF Collections
<1>5. AllListed'
  <2>1. AllListed /\ TypeOK /\ WalksOK
    BY DEF Collections, Cells
  <2>2. CASE maps' = maps /\ pages' = pages
    BY <2>1, <2>2 DEF AllListed
  <2>3. ASSUME NEW i \in Allocators, extend(i) PROVE AllListed'
    BY <2>1, <2>3, ExtendedListed
  <2>4. QED
    BY <2>2, <2>3, ForRequest DEF allocate, AllocateFromList, AllocateExtending
<1>6. MarksClear'
  <2>1. Marked \cap Alloc = {}
    BY <1>1, AtRest DEF Collections
  <2>2. \A d \in Cell : hdr'[d].mark => ~hdr'[d].allocated
    BY <1>3, <2>1 DEF Marked, Alloc
  <2>3. QED
    BY <2>2 DEF MarksClear, Marked
<1>7. HeldLive'
  <2>1. /\ Held \subseteq Cell /\ Held \subseteq Alloc /\ Objects!Roots \subseteq Held
        /\ \A d \in Held : refs[d] # Null => refs[d] \in Held
    BY HeldCells DEF Collections, Cells, HeldLive
  <2>2. refs[c] = Null
    BY DEF Collections, FreeBlank
  <2>3. Objects!Roots' = Objects!Roots
    BY <1>1 DEF Objects!Roots
  <2>4. Held' \subseteq Held \cup {c}
    <3> DEFINE S == Held \cup {c}
    <3>1. S \in SUBSET Cell /\ Objects!Roots' \cup ({fresh'} \ {Null}) \subseteq S
      BY <1>3, <2>1, <2>3
    <3>2. \A d \in S : refs'[d] # Null => refs'[d] \in S
      BY <1>1, <2>1, <2>2
    <3>3. TypeOK'
      BY <1>4 DEF Cells
    <3> HIDE DEF S
    <3>4. Held' \subseteq S
      BY <3>1, <3>2, <3>3, HeldCellsNext
    <3>5. QED
      BY <3>4 DEF S
  <2>5. QED
    BY <1>3, <2>1, <2>4 DEF HeldLive
<1>8. FreeBlank'
  BY <1>1, <1>3 DEF Collections, FreeBlank
<1>9. QED
  BY <1>2, <1>4, <1>5, <1>6, <1>7, <1>8 DEF Collections, SweepBounds

LEMMA ProgramCollections ==
  ASSUME Collections, Program
  PROVE  Collections'
<1>1. ~Sweeping /\ UNCHANGED <<hdr, pages, maps, todo>> /\ Objects!Program
  BY DEF Program, allocators
<1>2. ~Sweeping' /\ Alloc' = Alloc /\ Cells' /\ fresh' = fresh
  BY <1>1, ProgramCells DEF Sweeping, Alloc, Collections
<1>3. AllListed' /\ MarksClear'
  BY <1>1 DEF Collections, AllListed, MarksClear, Marked, ToVisit
<1>4. Objects!InHand \subseteq Held /\ Held \subseteq Alloc /\ Alloc \subseteq Cell
  BY LiveObjects DEF Collections, HeldLive, Alloc
<1>5. /\ stack \in Seq(Cell) /\ refs \in [Cell -> Cell \cup {Null}]
      /\ Objects!Roots \cup ({fresh} \ {Null}) \subseteq Held
      /\ \A c \in Held : refs[c] # Null => refs[c] \in Held
      /\ \A c \in Cell \ Alloc : refs[c] = Null
  BY HeldCells DEF Collections, Cells, TypeOK, FreeBlank
<1> DEFINE Live == /\ Objects!Roots' \subseteq Held
                   /\ \A c \in Cell \ Alloc : refs'[c] = Null
                   /\ \A c \in Held : refs'[c] # Null => refs'[c] \in Held
<1>6. Live
  <2>1. ASSUME NEW o \in Objects!InHand, Objects!push_frame(o)
        PROVE  Live
    <3>1. o \in Held /\ stack' = Append(stack, o) /\ refs' = refs
      BY <1>4, <2>1 DEF Objects!push_frame
    <3>2. /\ Len(stack) \in Nat /\ DOMAIN stack = 1 .. Len(stack)
          /\ \A k \in DOMAIN stack' : stack'[k] = o \/ (k \in DOMAIN stack /\ stack'[k] = stack[k])
      BY <1>4, <1>5, <3>1, AppendProperties, LenProperties
    <3>3. QED
      BY <1>5, <3>1, <3>2 DEF Objects!Roots
  <2>2. CASE Objects!pop_frame
    <3>1. refs' = refs /\ stack' = SubSeq(stack, 1, Len(stack) - 1)
      BY <2>2 DEF Objects!pop_frame
    <3>2. \A k \in DOMAIN stack' : k \in DOMAIN stack /\ stack'[k] = stack[k]
      BY <1>5, <2>2, <3>1, WithoutLast DEF Objects!pop_frame
    <3>3. QED
      BY <1>5, <3>1, <3>2 DEF Objects!Roots
  <2>3. ASSUME NEW o \in Objects!InHand, NEW target \in Objects!InHand \cup {Null},
               Objects!Write(o, target)
        PROVE  Live
    <3>1. /\ o \in Held /\ o \in Alloc /\ target \in Held \cup {Null} /\ stack' = stack
          /\ refs' = [refs EXCEPT ![o] = target]
      BY <1>4, <2>3 DEF Objects!Write
    <3>2. \A c \in Cell : refs'[c] = IF c = o THEN target ELSE refs[c]
      BY <1>5, <3>1
    <3>3. Objects!Roots' = Objects!Roots
      BY <3>1 DEF Objects!Roots
    <3>4. QED
      BY <1>4, <1>5, <3>1, <3>2, <3>3
  <2>4. QED
    BY <1>1, <2>1, <2>2, <2>3 DEF Objects!Program
<1>7. HeldLive'
  <2>1. TypeOK' /\ Held \in SUBSET Cell /\ Objects!Roots' \cup ({fresh'} \ {Null}) \subseteq Held
    BY <1>2, <1>4, <1>5, <1>6 DEF Cells
  <2>2. Held' \subseteq Held
    BY <1>6, <2>1, HeldCellsNext
  <2>3. QED
    BY <1>2, <1>4, <2>2 DEF HeldLive
<1>8. QED
  BY <1>2, <1>3, <1>6, <1>7 DEF Collections, FreeBlank, SweepBounds

(* No mark is left on what the program can reach, so that a collection     *)
(* traces all of it, and where no ring holds anything it finds no more.    *)
LEMMA TracedReachable ==
  ASSUME Collections, ~Sweeping
  PROVE  Traced = Objects!Reachable /\ (rings = {} => Findable = Objects!Reachable)
<1>1. Objects!Reachable \cap Marked = {}
  BY LiveObjects, AtRest DEF Collections
<1>2. Traced = Objects!Reachable
  BY <1>1, ReachableCells, Unstopped
     DEF Traced, Found, Objects!Reachable, Collections, Cells
<1>3. rings = {} => Findable = Traced
  BY DEF Traced, Findable
<1>4. QED
  BY <1>2, <1>3

LEMMA CollectCollections ==
  ASSUME Collections, collect
  PROVE  Collections'
<1>1. /\ ~Sweeping /\ UNCHANGED <<pages, maps, refs, stack>>
      /\ todo' = [i \in Allocators |-> Walk(i)]
  BY DEF collect, allocators
<1>2. Cells' /\ Alloc' = Alloc /\ fresh' = Null /\ seen' = Findable
  BY CollectCells DEF Collections
<1>3. Marked \cap Alloc = {} /\ Traced = Objects!Reachable
  BY <1>1, AtRest, TracedReachable DEF Collections
<1>4. PICK strays \in SUBSET Findable : Marked' = Marked \cup Traced \cup strays
  BY CollectCells DEF Collections
<1>5. /\ Objects!Reachable \subseteq Alloc
      /\ Traced \subseteq Findable
  BY LiveObjects, FindableCells DEF Collections, Cells
<1>6. Objects!Reachable' = Objects!Reachable /\ Objects!Roots' = Objects!Roots
  BY <1>1 DEF Objects!Reachable, Objects!Roots
<1>7. Alloc \subseteq Cell /\ Alloc' \subseteq Cell
  BY DEF Alloc
<1>8. ASSUME NEW c \in Alloc
      PROVE  c \in ToVisit(c[1])'
  <2>1. /\ c \in Cell /\ c[1] \in Allocators /\ c[2] \in 1 .. Pages[c[1]] /\ c[3] \in Slots(c[1])
        /\ c[2] <= pages[c[1]]
    BY CellParts DEF Collections, Cells, AllocUsable, Usable, Alloc
  <2>2. c[3] >= 1
    BY <2>1, Constants DEF Slots
  <2>3. c[2] \in ToSet(maps[c[1]])
    <3>1. pages[c[1]] \in Nat /\ Pages[c[1]] \in Nat
      BY <2>1, Constants DEF Collections, Cells, TypeOK
    <3>2. c[2] \in 1 .. pages[c[1]]
      BY <2>1, <3>1
    <3>3. QED
      BY <2>1, <3>2 DEF Collections, AllListed
  <2>4. todo'[c[1]].maps = maps[c[1]] /\ todo'[c[1]].slot = 1
    BY <1>1, <2>1 DEF Walk
  <2>5. maps[c[1]] \in Seq(Nat) /\ IsInjective(maps[c[1]]) /\ maps[c[1]] # <<>>
    BY <2>1, <2>3 DEF Collections, Cells, TypeOK, WalksOK, Mappings, ToSet
  <2>6. c[2] = Head(maps[c[1]]) \/ c[2] \in ToSet(Tail(maps[c[1]]))
    BY <2>3, <2>5, WithoutFirst
  <2>7. QED
    BY <2>1, <2>2, <2>4, <2>5, <2>6 DEF ToVisit
<1>9. MarksClear'
  BY <1>2, <1>8 DEF MarksClear, Marked, Alloc
<1>10. SweepBounds'
  <2>1. ToKeep' = Alloc \cap Marked'
    BY <1>2, <1>8 DEF ToKeep, Alloc, Marked
  <2>2. Objects!Reachable' \subseteq ToKeep' /\ ToKeep' \subseteq seen'
    BY <1>2, <1>3, <1>4, <1>5, <1>6, <2>1
  <2>3. QED
    BY <1>2, <2>2 DEF SweepBounds
<1>11. HeldLive'
  <2>1. Objects!Roots \cup ({Null} \ {Null}) = Objects!Roots
    OBVIOUS
  <2>2. Held' = Objects!Reachable
    BY <1>1, <1>2, <1>6, <2>1 DEF Held, Objects!Reachable
  <2>3. QED
    BY <1>2, <1>5, <2>2 DEF HeldLive
<1>12. QED
  BY <1>1, <1>2, <1>9, <1>10, <1>11 DEF Collections, AllListed, FreeBlank

(* A visit takes its cell, and no other, off what the thread has left.     *)
LEMMA LeftToVisit ==
  ASSUME Cells, NEW i \in Allocators, todo[i].maps # <<>>, todo'[i] = Advance(i)
  PROVE  /\ Visited(i) \in ToVisit(i)
         /\ ToVisit(i)' = ToVisit(i) \ {Visited(i)}
<1> DEFINE left == todo[i].maps
           slot == todo[i].slot
           v == Visited(i)
<1>1. /\ left \in Seq(Nat) /\ IsInjective(left) /\ left # <<>>
      /\ slot \in 1 .. CellCount(i) /\ CellCount(i) \in Nat \ {0}
  BY Constants DEF Cells, TypeOK, WalksOK, Mappings, Slots
<1>2. /\ Tail(left) \in Seq(Nat) /\ IsInjective(Tail(left))
      /\ Head(left) \notin ToSet(Tail(left))
  BY <1>1, WithoutFirst
<1>3. v \in Cell /\ v[1] = i /\ v[2] = Head(left) /\ v[3] = slot
  BY VisitedCell
<1>4. \A c \in Cell : c[1] = i => /\ c[3] \in 1 .. CellCount(i)
                                  /\ (c = v <=> c[2] = Head(left) /\ c[3] = slot)
  <2> SUFFICES ASSUME NEW c \in Cell, c[1] = i
               PROVE  /\ c[3] \in 1 .. CellCount(i)
                      /\ (c = v <=> c[2] = Head(left) /\ c[3] = slot)
    OBVIOUS
  <2>1. c = <<c[1], c[2], c[3]>> /\ c[3] \in Slots(c[1]) /\ v = <<v[1], v[2], v[3]>>
    BY <1>3, CellParts
  <2>2. c[3] \in 1 .. CellCount(i)
    BY <2>1 DEF Slots
  <2>3. QED
    BY <1>3, <2>1, <2>2
<1>5. ToVisit(i) = {c \in Cell : /\ c[1] = i
                                 /\ \/ c[2] = Head(left) /\ c[3] >= slot
                                    \/ c[2] \in ToSet(Tail(left))}
  BY <1>1 DEF ToVisit
<1>6. v \in ToVisit(i)
  BY <1>1, <1>3, <1>5
<1>7. CASE slot < CellCount(i)
  <2>1. todo'[i].maps = left /\ todo'[i].slot = slot + 1
    BY <1>7 DEF Advance
  <2>2. ToVisit(i)' = {c \in Cell : /\ c[1] = i
                                    /\ \/ c[2] = Head(left) /\ c[3] >= slot + 1
                                       \/ c[2] \in ToSet(Tail(left))}
    BY <1>1, <2>1 DEF ToVisit
  <2> HIDE DEF left, slot, v
  <2>3. \A c \in Cell : c[1] = i => (c[3] >= slot + 1 <=> c[3] >= slot /\ c[3] # slot)
    BY <1>1, <1>4
  <2>4. QED
    BY <1>2, <1>4, <1>5, <1>6, <2>2, <2>3 DEF v
<1>8. CASE slot = CellCount(i)
  <2>1. todo'[i].maps = Tail(left) /\ todo'[i].slot = 1
    BY <1>1, <1>8 DEF Advance
  <2> HIDE DEF left, slot, v
  <2>2. ASSUME NEW c \in Cell, c[1] = i
        PROVE  c \in ToVisit(i)' <=> c[2] \in ToSet(Tail(left))
    <3>1. c[3] >= 1
      BY <1>1, <1>4, <2>2
    <3>2. CASE Tail(left) = <<>>
      BY <2>1, <3>2 DEF ToVisit, ToSet
    <3>3. CASE Tail(left) # <<>>
      <4>1. c[2] \in ToSet(Tail(left)) <=> \/ c[2] = Head(Tail(left))
                                           \/ c[2] \in ToSet(Tail(Tail(left)))
        BY <1>2, <3>3, WithoutFirst
      <4>2. QED
        BY <2>1, <2>2, <3>1, <3>3, <4>1 DEF ToVisit
    <3>4. QED
      BY <3>2, <3>3
  <2>3. \A c \in Cell : c \in ToVisit(i)' => c[1] = i
    BY DEF ToVisit
  <2>4. ToVisit(i)' \subseteq Cell
    BY DEF ToVisit
  <2>5. \A c \in Cell : c[1] = i => (c[3] >= slot <=> c[3] = slot)
    BY <1>1, <1>4, <1>8
  <2>6. ASSUME NEW c \in Cell
        PROVE  c \in ToVisit(i)' <=> c \in ToVisit(i) /\ c # v
    <3>1. CASE c[1] = i
      <4>1. c \in ToVisit(i) <=> \/ c[2] = Head(left) /\ c[3] = slot
                                 \/ c[2] \in ToSet(Tail(left))
        BY <1>5, <2>5, <3>1
      <4>2. QED
        BY <1>2, <1>4, <2>2, <3>1, <4>1
    <3>2. CASE c[1] # i
      BY <1>5, <2>3, <3>2
    <3>3. QED
      BY <3>1, <3>2
  <2>7. ToVisit(i) \subseteq Cell
    BY <1>5
  <2>8. QED
    BY <1>6, <2>4, <2>6, <2>7 DEF v
<1>9. QED
  BY <1>1, <1>6, <1>7, <1>8

(* A visit frees no object that the program can reach, and what is to be   *)
(* kept stays the same until the end.                                      *)
LEMMA SweepCollections ==
  ASSUME Collections, NEW i \in Allocators, sweep(i)
  PROVE  /\ Collections'
         /\ ToKeep' = ToKeep /\ Objects!Reachable' = Objects!Reachable
         /\ \/ Alloc' = Alloc /\ refs' = refs
            \/ \E c \in Alloc \ Objects!InHand :
                 Alloc' = Alloc \ {c} /\ refs' = [refs EXCEPT ![c] = Null]
<1> DEFINE c == Visited(i)
           R == Objects!Reachable
<1>1. /\ todo[i].maps # <<>> /\ UNCHANGED <<pages, maps, stack, fresh>>
      /\ \/ ~hdr[c].allocated /\ UNCHANGED <<hdr, free, refs>>
         \/ hdr[c].allocated /\ hdr[c].mark /\ Unmark(c)
         \/ hdr[c].allocated /\ ~hdr[c].mark /\ deallocate(c)
  BY DEF sweep
<1>2. /\ Cells' /\ todo'[i] = Advance(i)
      /\ \A j \in Allocators \ {i} : todo'[j] = todo[j]
      /\ \A d \in Cell \ {c} : hdr'[d] = hdr[d]
      /\ Alloc' = Alloc \ (IF hdr[c].allocated /\ ~hdr[c].mark THEN {c} ELSE {})
  BY SweepCells DEF Collections
<1>3. Sweeping /\ Cells
  BY <1>1 DEF Sweeping, Collections
<1>4. /\ c \in Cell /\ c[1] = i /\ c \in ToVisit(i)
      /\ ToVisit(i)' = ToVisit(i) \ {c}
  BY <1>1, <1>2, <1>3, VisitedCell, LeftToVisit
<1>5. \A j \in Allocators \ {i} : ToVisit(j)' = ToVisit(j)
  BY <1>2 DEF ToVisit
<1>6. \A d \in Cell : d[1] \in Allocators
  BY CellParts
<1>7. \A d \in Cell : d \in ToVisit(d[1])' <=> d \in ToVisit(d[1]) /\ d # c
  BY <1>4, <1>5, <1>6
<1>8. fresh = Null /\ R \subseteq ToKeep /\ R \subseteq Alloc
  BY <1>3, LiveObjects DEF Collections, SweepBounds
<1> HIDE DEF c, R
<1>9. /\ hdr \in [Cell -> Header] /\ refs \in [Cell -> Cell \cup {Null}]
      /\ Objects!Roots \in SUBSET Cell
  BY <1>3, ReachableCells DEF Cells, TypeOK
<1>10. ~(hdr'[c].mark /\ hdr'[c].allocated)
  <2>1. CASE ~hdr[c].allocated /\ UNCHANGED <<hdr, free, refs>>
    BY <2>1
  <2>2. CASE hdr[c].allocated /\ hdr[c].mark /\ Unmark(c)
    BY <1>4, <1>9, <2>2 DEF Unmark, Header
  <2>3. CASE hdr[c].allocated /\ ~hdr[c].mark /\ deallocate(c)
    BY <1>4, <1>9, <2>3 DEF deallocate, Header
  <2>4. QED
    BY <1>1, <2>1, <2>2, <2>3 DEF c
<1>11. MarksClear'
  <2> SUFFICES ASSUME NEW d \in Cell, hdr'[d].mark, hdr'[d].allocated
               PROVE  d \in ToVisit(d[1])'
    BY DEF MarksClear, Marked
  <2>1. d # c /\ hdr'[d] = hdr[d]
    BY <1>2, <1>10
  <2>2. d \in ToVisit(d[1])
    BY <2>1 DEF Collections, MarksClear, Marked
  <2>3. QED
    BY <1>7, <2>1, <2>2
<1>12. ToKeep' = ToKeep
  <2>1. ToKeep = {d \in Alloc : hdr[d].mark \/ d \notin ToVisit(d[1])}
    BY DEF ToKeep
  <2>2. ASSUME NEW d \in Cell
        PROVE  d \in ToKeep' <=> d \in ToKeep
    <3>1. CASE d # c
      BY <1>2, <1>7, <3>1 DEF ToKeep, Alloc
    <3>2. CASE d = c
      <4>1. c \in ToKeep' <=> c \in Alloc'
        BY <1>4, <1>7 DEF ToKeep
      <4>2. c \in ToKeep <=> hdr[c].allocated /\ hdr[c].mark
        BY <1>4 DEF ToKeep, Alloc
      <4>3. c \in Alloc <=> hdr[c].allocated
        BY <1>4 DEF Alloc
      <4>4. QED
        BY <1>2, <3>2, <4>1, <4>2, <4>3
    <3>3. QED
      BY <3>1, <3>2
  <2>3. ToKeep \subseteq Cell /\ ToKeep' \subseteq Cell
    BY DEF ToKeep, Alloc
  <2>4. QED
    BY <2>2, <2>3
<1>13. ASSUME hdr[c].allocated, ~hdr[c].mark
       PROVE  /\ c \in Alloc \ R /\ Alloc' = Alloc \ {c}
              /\ refs' = [refs EXCEPT ![c] = Null]
  <2>1. deallocate(c)
    BY <1>1, <1>13 DEF c
  <2>2. c \notin ToKeep
    BY <1>4, <1>13 DEF ToKeep
  <2>3. QED
    BY <1>2, <1>4, <1>8, <1>13, <2>1, <2>2 DEF deallocate, Alloc
<1>14. ASSUME ~(hdr[c].allocated /\ ~hdr[c].mark)
       PROVE  Alloc' = Alloc /\ refs' = refs
  BY <1>1, <1>2, <1>14 DEF Unmark, c
<1>15. Objects!Roots' = Objects!Roots
  BY <1>1 DEF Objects!Roots
<1>16. Objects!Reachable' = R
  <2>1. R = Objects!ReachFrom(Objects!Roots, refs, {})
    BY DEF R, Objects!Reachable
  <2>2. Objects!Reachable' = Objects!ReachFrom(Objects!Roots, refs', {})
    BY <1>15 DEF Objects!Reachable
  <2>3. CASE hdr[c].allocated /\ ~hdr[c].mark
    BY <1>4, <1>9, <1>13, <2>1, <2>2, <2>3, Blanked
  <2>4. CASE ~(hdr[c].allocated /\ ~hdr[c].mark)
    BY <1>14, <2>1, <2>2, <2>4
  <2>5. QED
    BY <2>3, <2>4
<1>17. AllListed' /\ HeldLive'
  <2>1. Objects!Roots \cup ({Null} \ {Null}) = Objects!Roots
    OBVIOUS
  <2>2. Held' = R
    BY <1>1, <1>8, <1>15, <1>16, <2>1 DEF Held, Objects!Reachable
  <2>3. R \subseteq Alloc'
    BY <1>8, <1>12 DEF ToKeep
  <2>4. QED
    BY <1>1, <2>2, <2>3 DEF Collections, AllListed, HeldLive
<1>18. FreeBlank'
  <2>1. \A d \in Cell \ Alloc : refs[d] = Null
    BY DEF Collections, FreeBlank
  <2>2. QED
    BY <1>9, <1>13, <1>14, <2>1 DEF FreeBlank
<1>19. SweepBounds'
  <2>1. Sweeping' => seen' = seen
    BY DEF sweep
  <2>2. QED
    BY <1>1, <1>3, <1>8, <1>12, <1>16, <2>1 DEF Collections, SweepBounds
<1>20. Collections'
  BY <1>2, <1>11, <1>17, <1>18, <1>19 DEF Collections
<1>21. Objects!InHand = R
  BY <1>8 DEF Objects!InHand, R
<1>22. QED
  BY <1>12, <1>13, <1>14, <1>16, <1>20, <1>21 DEF R

-----------------------------------------------------------------------------
(* The theorems about collections.                                         *)

LEMMA NextCollections ==
  ASSUME Pages[LARGE_BIN] <= 1, Collections, [Next]_vars
  PROVE  Collections'
<1>1. ASSUME NEW size \in Sizes, allocate(size) PROVE Collections'
  BY <1>1, AllocateCollections
<1>2. CASE Program
  BY <1>2, ProgramCollections
<1>3. CASE collect
  BY <1>3, CollectCollections
<1>4. ASSUME NEW i \in Allocators, sweep(i) PROVE Collections'
  BY <1>4, SweepCollections
<1>5. CASE UNCHANGED vars
  <2>1. Cells'
    BY <1>5, NextCells DEF Collections
  <2>2. QED
    BY <1>5, <2>1 DEF vars, Collections, AllListed, MarksClear, Marked, ToVisit, HeldLive, Held,
       Objects!Roots, Alloc, FreeBlank, SweepBounds, Sweeping, ToKeep, Objects!Reachable
<1>6. QED
  BY <1>1, <1>2, <1>3, <1>4, <1>5 DEF Next

(* On an object no mark outlives the sweep that should clear it, and a     *)
(* cell that got one while it was free loses it before it is one           *)
(* (runtime.cpp:33, 171).                                                  *)
THEOREM NothingLeftMarked ==
  ASSUME Pages[LARGE_BIN] <= 1
  PROVE  Spec => []MarksClear
<1>1. Init => Collections
  BY InitCollections
<1>2. Collections /\ [Next]_vars => Collections'
  BY NextCollections
<1>3. Collections => MarksClear
  BY DEF Collections
<1>4. QED
  BY <1>1, <1>2, <1>3, PTL DEF Spec

(* What a frame leads to has not been given back, which is what the        *)
(* runtime's tests look for (test/runtime).                                *)
THEOREM LiveNeverFreed ==
  ASSUME Pages[LARGE_BIN] <= 1
  PROVE  Spec => []LiveAllocated
<1>1. Init => Collections
  BY InitCollections
<1>2. Collections /\ [Next]_vars => Collections'
  BY NextCollections
<1>3. Collections => LiveAllocated
  BY LiveObjects DEF LiveAllocated, Alloc
<1>4. QED
  BY <1>1, <1>2, <1>3, PTL DEF Spec

(* When a sweep ends no object is left that the marking before it could    *)
(* not come across (runtime.cpp:38-190), which is what the program can     *)
(* reach and no more where no pointer had been pushed before.              *)
THEOREM FreesGarbage ==
  ASSUME Pages[LARGE_BIN] <= 1
  PROVE  Spec => /\ GarbageFreed
                 /\ [][collect /\ rings = {} => seen' = Objects!Reachable]_vars
<1> DEFINE Freed == Sweeping /\ ~Sweeping' => {c \in Cell : hdr'[c].allocated} \subseteq seen
           First == collect /\ rings = {} => seen' = Objects!Reachable
<1>1. Init => Collections
  BY InitCollections
<1>2. Collections /\ [Next]_vars => Collections'
  BY NextCollections
<1>3. ASSUME Collections, [Next]_vars
      PROVE  [Freed]_vars
  <2>1. CASE UNCHANGED vars
    BY <2>1
  <2>2. CASE ~Sweeping
    BY <2>2
  <2>3. ASSUME NEW i \in Allocators, sweep(i) PROVE Freed
    <3> SUFFICES ASSUME Sweeping, ~Sweeping' PROVE {c \in Cell : hdr'[c].allocated} \subseteq seen
      OBVIOUS
    <3>1. ToKeep' = ToKeep /\ ToKeep \subseteq seen
      BY <1>3, <2>3, SweepCollections DEF Collections, SweepBounds
    <3>2. \A c \in Cell : c \notin ToVisit(c[1])'
      BY CellParts DEF ToVisit, Sweeping
    <3>3. QED
      BY <3>1, <3>2 DEF ToKeep, Alloc
  <2>4. QED
    BY <1>3, <2>1, <2>2, <2>3 DEF Next, allocate, Program, collect
<1>4. Collections => [First]_vars
  BY TracedReachable DEF collect
<1>5. QED
  BY <1>1, <1>2, <1>3, <1>4, PTL DEF Spec, GarbageFreed

(* The runtime over its allocators is the heap of ManagedHeap: a request   *)
(* is New, a collection lets go of what the program did not keep, and a    *)
(* visit to a cell reclaims an object out of reach or nothing.             *)
THEOREM Refinement ==
  ASSUME Pages[LARGE_BIN] <= 1
  PROVE  Spec => ImplementsManagedHeap
<1>1. Init => Collections
  BY InitCollections
<1>2. Collections /\ [Next]_vars => Collections'
  BY NextCollections
<1>3. Init => Objects!Init
  BY DEF Init, Objects!Init
<1>4. ASSUME Collections, [Next]_vars
      PROVE  [Objects!Next]_(Objects!vars)
  <2>1. CASE UNCHANGED vars
    BY <2>1 DEF vars, Objects!vars
  <2>2. ASSUME NEW size \in Sizes, allocate(size) PROVE Objects!Next
    <3>1. UNCHANGED <<refs, stack>>
      BY <2>2 DEF allocate
    <3>2. \E c \in Cell \ Alloc : fresh' = c /\ Alloc' = Alloc \cup {c}
      BY <1>4, <2>2, AllocateCells DEF Collections
    <3>3. QED
      BY <3>1, <3>2 DEF Alloc, Objects!Next, Objects!New
  <2>3. CASE Program
    BY <2>3 DEF Program, Objects!Next
  <2>4. CASE collect
    <3>1. Alloc' = Alloc /\ fresh' = Null /\ UNCHANGED <<refs, stack>>
      BY <1>4, <2>4, CollectCells DEF Collections, collect
    <3>2. QED
      BY <3>1 DEF Alloc, Objects!Next, Objects!Forget
  <2>5. ASSUME NEW i \in Allocators, sweep(i) PROVE [Objects!Next]_(Objects!vars)
    <3>1. UNCHANGED <<stack, fresh>>
      BY <2>5 DEF sweep
    <3>2. \/ Alloc' = Alloc /\ refs' = refs
          \/ \E c \in Alloc \ Objects!InHand :
               Alloc' = Alloc \ {c} /\ refs' = [refs EXCEPT ![c] = Null]
      BY <1>4, <2>5, SweepCollections
    <3>3. CASE Alloc' = Alloc /\ refs' = refs
      BY <3>1, <3>3 DEF Alloc, Objects!vars
    <3>4. CASE \E c \in Alloc \ Objects!InHand :
                 Alloc' = Alloc \ {c} /\ refs' = [refs EXCEPT ![c] = Null]
      BY <3>1, <3>4 DEF Alloc, Objects!Next, Objects!Reclaim
    <3>5. QED
      BY <3>2, <3>3, <3>4
  <2>6. QED
    BY <1>4, <2>1, <2>2, <2>3, <2>4, <2>5 DEF Next
<1>5. QED
  BY <1>1, <1>2, <1>3, <1>4, PTL DEF Spec, ImplementsManagedHeap, Objects!Spec
=============================================================================
