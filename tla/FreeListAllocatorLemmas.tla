---------------------- MODULE FreeListAllocatorLemmas -----------------------
(***************************************************************************)
(* What the functions of fla.cpp do to a heap: align_up, the searches of   *)
(* the free list, extend(), split_if_possible(), insert(), the joining of  *)
(* neighbours and, made of them, the taking and the giving back of a cell. *)
(*                                                                         *)
(* A heap is the record the functions work on, the headers and the free    *)
(* list.  It is good when its headers are well formed, its cells tile the  *)
(* mappings and its list holds the free cells; where mappings come at      *)
(* falling addresses it is also tidy.  Each function is shown to keep a    *)
(* heap good and tidy, and what it does to the cells in use is stated      *)
(* beside it.                                                              *)
(***************************************************************************)
EXTENDS FreeListAllocator, SequenceTheorems, NaturalsInduction, WellFoundedInduction, TLAPS

(* What the header of a cell can hold; no cell is empty.                   *)
Header == [size : Nat \ {0}, allocated : BOOLEAN, mark : BOOLEAN]

(* A multiple of alignof(std::max_align_t).                                *)
Aligned(n) == n % Alignment = 0

(* Mappings are aligned, inside the memory, and leave room for each        *)
(* other's header.                                                         *)
Apart(m, n) == m.end + MapHeaderSize <= n.start

GoodMappings(M) ==
  /\ M \subseteq [start : Nat, end : Nat]
  /\ \A m \in M : /\ Aligned(m.start) /\ Aligned(m.end)
                  /\ m.start < m.end /\ m.end <= Pages * PAGE_SIZE
  /\ \A m, n \in M : m = n \/ Apart(m, n) \/ Apart(n, m)

(* The address a lies in the mapping m.                                    *)
Inside(a, m) == m.start <= a /\ a < m.end

(* Cells are aligned, and so are their lengths.                            *)
GoodHeaders(h) ==
  /\ h \in [DOMAIN h -> Header]
  /\ DOMAIN h \subseteq Nat
  /\ \A a \in DOMAIN h : Aligned(a) /\ Aligned(h[a].size)

(* A cell ends with its mapping or where the next cell begins.             *)
EndsWell(s, a, m) ==
  End(s, a) = m.end \/ (End(s, a) < m.end /\ End(s, a) \in DOMAIN s.hdr)

(* Every mapping begins with a cell, every cell lies in a mapping, and no  *)
(* cell begins inside another.                                             *)
GoodTiling(s, M) ==
  /\ \A m \in M : m.start \in DOMAIN s.hdr
  /\ \A a \in DOMAIN s.hdr : \E m \in M : Inside(a, m) /\ EndsWell(s, a, m)
  /\ \A a, b \in DOMAIN s.hdr : a < b => End(s, a) <= b

(* The cells that are not in use.                                          *)
FreeCells(h) == {a \in DOMAIN h : ~h[a].allocated}

(* Addresses rise along the list.                                          *)
Sorted(f) == \A i, j \in 1 .. Len(f) : i < j => f[i] < f[j]

(* The list holds the free cells, each one once.                           *)
GoodList(s) ==
  /\ s.free \in Seq(Nat)
  /\ Range(s.free) = FreeCells(s.hdr)
  /\ IsInjective(s.free)

(* Where mappings come at falling addresses: the list is sorted and no two *)
(* neighbours are free.                                                    *)
Tidy(s) ==
  /\ Sorted(s.free)
  /\ \A a \in FreeCells(s.hdr) : End(s, a) \notin FreeCells(s.hdr)

(* What every function of fla.cpp keeps.                                   *)
GoodHeap(s, M) == GoodHeaders(s.hdr) /\ GoodTiling(s, M) /\ GoodList(s)

(* A heap over the mappings M.                                             *)
HeapOK(s, M) == GoodMappings(M) /\ GoodHeap(s, M) /\ (TopDown => Tidy(s))

(* Multiples of the alignment.                                             *)
LEMMA AlignedMultiple ==
  ASSUME NEW k \in Int
  PROVE  Aligned(Alignment * k)
<1> DEFINE x == Alignment * k
           d == x \div Alignment
           r == x % Alignment
<1>1. /\ Alignment \in Nat /\ Alignment > 0 /\ x \in Int /\ x = Alignment * k
      /\ d \in Int /\ r \in Int /\ 0 <= r /\ r < Alignment
      /\ x = Alignment * d + r
  BY UnitsAssumption
<1>2. Aligned(x) <=> r = 0
  BY DEF Aligned
<1> HIDE DEF x, d, r
<1>3. r = Alignment * (k - d)
  BY <1>1
<1>4. k - d < 1
  <2> SUFFICES ASSUME k - d >= 1 PROVE FALSE
    BY <1>1
  <2>1. Alignment * (k - d) >= Alignment
    BY <1>1
  <2>2. QED
    BY <2>1, <1>3, <1>1
<1>5. k - d > -1
  <2> SUFFICES ASSUME k - d <= -1 PROVE FALSE
    BY <1>1
  <2>1. Alignment * (k - d) <= - Alignment
    BY <1>1
  <2>2. QED
    BY <2>1, <1>3, <1>1
<1>6. k - d = 0
  BY <1>1, <1>4, <1>5
<1>7. r = 0
  BY <1>6, <1>3, <1>1
<1>8. QED
  BY <1>7, <1>2 DEF x

(* An aligned number is a multiple of the alignment.                       *)
LEMMA AlignedQuotient ==
  ASSUME NEW n \in Int, Aligned(n)
  PROVE  \E k \in Int : n = Alignment * k
<1>1. n = Alignment * (n \div Alignment) /\ n \div Alignment \in Int
  BY UnitsAssumption DEF Aligned
<1>2. QED
  BY <1>1, Zenon

(* Sums and differences of aligned numbers are aligned.                    *)
LEMMA AlignedSum ==
  ASSUME NEW m \in Int, NEW n \in Int, Aligned(m), Aligned(n)
  PROVE  Aligned(m + n) /\ Aligned(m - n)
<1>1. PICK j \in Int : m = Alignment * j
  BY AlignedQuotient
<1>2. PICK k \in Int : n = Alignment * k
  BY AlignedQuotient
<1>3. Alignment \in Int
  BY UnitsAssumption
<1>4. m + n = Alignment * (j + k) /\ m - n = Alignment * (j - k)
  BY <1>1, <1>2, <1>3
<1>5. Aligned(Alignment * (j + k)) /\ Aligned(Alignment * (j - k))
  BY AlignedMultiple, j + k \in Int, j - k \in Int
<1>6. QED
  BY <1>4, <1>5

(* align_up() rounds up to the next multiple.                              *)
LEMMA AlignUp ==
  ASSUME NEW n \in Nat
  PROVE  /\ align_up(n) \in Nat /\ Aligned(align_up(n))
         /\ n <= align_up(n) /\ align_up(n) < n + Alignment
<1> DEFINE x == n + Alignment - 1
           q == x \div Alignment
           r == x % Alignment
<1>1. /\ Alignment \in Nat /\ Alignment > 0 /\ x \in Int /\ x = n + Alignment - 1
      /\ q \in Int /\ r \in Int /\ 0 <= r /\ r < Alignment
      /\ x = Alignment * q + r
  BY UnitsAssumption
<1>2. align_up(n) = q * Alignment
  BY DEF align_up
<1> HIDE DEF x, q, r
<1>3. q * Alignment = Alignment * q /\ Alignment * q \in Int
  BY <1>1
<1>4. Aligned(align_up(n))
  BY <1>1, <1>2, <1>3, AlignedMultiple
<1>5. QED
  BY <1>1, <1>2, <1>3, <1>4

(* align_up() gives the least aligned number that is large enough.         *)
LEMMA AlignUpLeast ==
  ASSUME NEW n \in Nat, NEW c \in Int, Aligned(c), n <= c
  PROVE  align_up(n) <= c
<1>1. align_up(n) \in Int /\ Aligned(align_up(n)) /\ align_up(n) < n + Alignment
  BY AlignUp
<1>2. PICK j \in Int : align_up(n) = Alignment * j
  BY <1>1, AlignedQuotient
<1>3. PICK k \in Int : c = Alignment * k
  BY AlignedQuotient
<1>4. Alignment \in Int /\ Alignment > 0
  BY UnitsAssumption
<1> DEFINE u == align_up(n)
<1>5. u \in Int /\ u < n + Alignment /\ u = Alignment * j
  BY <1>1, <1>2
<1> SUFFICES ASSUME ~ (u <= c) PROVE FALSE
  OBVIOUS
<1> HIDE DEF u
<1>6. u - c = Alignment * (j - k) /\ u - c > 0 /\ u - c < Alignment
  BY <1>3, <1>4, <1>5
<1>7. j - k >= 1
  <2> SUFFICES ASSUME j - k <= 0 PROVE FALSE
    OBVIOUS
  <2>1. Alignment * (j - k) <= 0
    BY <1>4
  <2>2. QED
    BY <2>1, <1>4, <1>5, <1>6
<1>8. Alignment * (j - k) >= Alignment
  BY <1>4, <1>7
<1>9. QED
  BY <1>6, <1>8, <1>4, <1>5

(* The constants, as the other lemmas use them.                            *)
LEMMA UnitsType ==
  /\ HeaderSize \in Nat /\ HeaderSize > 0 /\ Aligned(HeaderSize)
  /\ MapHeaderSize \in Nat /\ MapHeaderSize > 0 /\ Aligned(MapHeaderSize)
  /\ PAGE_SIZE \in Nat /\ PAGE_SIZE > 0 /\ Aligned(PAGE_SIZE)
  /\ MIN_ALLOCATION_SIZE \in Nat /\ MIN_ALLOCATION_SIZE > 0
  /\ MapHeaderSize + HeaderSize + MIN_ALLOCATION_SIZE <= PAGE_SIZE
  /\ Pages \in Nat
BY UnitsAssumption, RequestAssumption DEF Aligned

(* The header of a mapping needs no rounding.                              *)
LEMMA MapHeaderAligned == align_up(MapHeaderSize) = MapHeaderSize
<1>1. MapHeaderSize <= align_up(MapHeaderSize) /\ align_up(MapHeaderSize) \in Nat
  BY UnitsType, AlignUp
<1>2. align_up(MapHeaderSize) <= MapHeaderSize
  BY UnitsType, AlignUpLeast
<1>3. QED
  BY <1>1, <1>2, UnitsType

(* Pages begin at aligned addresses.                                       *)
LEMMA PageMultiple ==
  ASSUME NEW p \in Int
  PROVE  p * PAGE_SIZE \in Int /\ Aligned(p * PAGE_SIZE)
<1>1. PICK k \in Int : PAGE_SIZE = Alignment * k
  BY UnitsType, AlignedQuotient
<1>2. Alignment \in Int
  BY UnitsAssumption
<1>3. p * PAGE_SIZE = Alignment * (p * k) /\ p * k \in Int
  BY <1>1, <1>2
<1>4. Aligned(Alignment * (p * k))
  BY <1>3, AlignedMultiple
<1>5. QED
  BY <1>3, <1>4, UnitsType

(* The pages extend() maps hold what it was asked for and the header.      *)
LEMMA PagesEnough ==
  ASSUME NEW r \in Nat
  PROVE  /\ PagesFor(r) \in Nat /\ PagesFor(r) >= 1
         /\ PagesFor(r) * PAGE_SIZE >= r + MapHeaderSize
         /\ PagesFor(r) * PAGE_SIZE >= PAGE_SIZE
<1> DEFINE x == r + MapHeaderSize + PAGE_SIZE - 1
           q == x \div PAGE_SIZE
           z == x % PAGE_SIZE
<1>1. /\ PAGE_SIZE \in Nat /\ PAGE_SIZE > 0 /\ x \in Int
      /\ MapHeaderSize \in Nat /\ MapHeaderSize > 0
      /\ x = r + MapHeaderSize + PAGE_SIZE - 1
      /\ q \in Int /\ z \in Int /\ 0 <= z /\ z < PAGE_SIZE
      /\ x = PAGE_SIZE * q + z
  BY UnitsType
<1>2. PagesFor(r) = q
  BY MapHeaderAligned DEF PagesFor
<1> HIDE DEF x, q, z
<1>3. q * PAGE_SIZE = PAGE_SIZE * q /\ PAGE_SIZE * q \in Int
  BY <1>1
<1>4. PAGE_SIZE * q >= r + MapHeaderSize
  BY <1>1, <1>3
<1>5. q >= 1
  <2> SUFFICES ASSUME q <= 0 PROVE FALSE
    BY <1>1
  <2>1. PAGE_SIZE * q <= 0
    BY <1>1
  <2>2. QED
    BY <2>1, <1>4, <1>1
<1>6. PAGE_SIZE * q >= PAGE_SIZE
  BY <1>1, <1>5
<1>7. QED
  BY <1>1, <1>2, <1>3, <1>4, <1>5, <1>6
-----------------------------------------------------------------------------
(* Positions in the free list.                                             *)
LEMMA FirstOf ==
  ASSUME NEW S \in SUBSET Nat, S # {}
  PROVE  Min(S) \in S /\ \A y \in S : Min(S) <= y
<1>1. PICK x \in S : \A y \in S : ~ (<<y, x>> \in OpToRel(<, Nat))
  BY NatLessThanWellFounded, WFMin, Zenon
<1>2. \A y \in S : ~ (y < x)
  BY <1>1 DEF OpToRel
<1>3. \A y \in S : x \in Nat /\ y \in Nat
  BY Zenon
<1>4. \A y \in S : x <= y
  BY <1>2, <1>3
<1>5. QED
  BY <1>4, Zenon DEF Min

(* find() returns 0 when no free cell is large enough, otherwise the place *)
(* of one that is.                                                         *)
LEMMA FindIs ==
  ASSUME NEW s, s.free \in Seq(Nat), NEW size
  PROVE  \/ /\ find(s, size) = 0
            /\ \A i \in 1 .. Len(s.free) : ~ (s.hdr[s.free[i]].size >= size)
         \/ /\ find(s, size) \in 1 .. Len(s.free)
            /\ s.hdr[s.free[find(s, size)]].size >= size
<1> DEFINE I == {i \in 1 .. Len(s.free) : s.hdr[s.free[i]].size >= size}
<1>1. find(s, size) = IF I # {} THEN Min(I) ELSE 0
  BY DEF find, SelectInSeq
<1>2. CASE I = {}
  BY <1>1, <1>2
<1>3. CASE I # {}
  <2>1. I \in SUBSET Nat
    OBVIOUS
  <2>2. Min(I) \in I
    BY <2>1, <1>3, FirstOf
  <2>3. QED
    BY <2>2, <1>1, <1>3
<1>4. QED
  BY <1>2, <1>3

(* What stands before the insertion point lies below the new cell, what    *)
(* stands at it does not.                                                  *)
LEMMA InsertionPointIs ==
  ASSUME NEW s, s.free \in Seq(Nat), NEW cell \in Nat
  PROVE  /\ InsertionPoint(s, cell) \in 1 .. Len(s.free) + 1
         /\ \A j \in 1 .. Len(s.free) :
              j < InsertionPoint(s, cell) => s.free[j] < cell
         /\ InsertionPoint(s, cell) <= Len(s.free) =>
              s.free[InsertionPoint(s, cell)] >= cell
<1> DEFINE I == {i \in 1 .. Len(s.free) : s.free[i] >= cell}
           k == IF I # {} THEN Min(I) ELSE 0
<1>1. InsertionPoint(s, cell) = IF k = 0 THEN Len(s.free) + 1 ELSE k
  BY DEF InsertionPoint, SelectInSeq
<1>2. CASE I = {}
  <2>1. \A j \in 1 .. Len(s.free) : s.free[j] < cell
    <3> SUFFICES ASSUME NEW j \in 1 .. Len(s.free) PROVE s.free[j] < cell
      OBVIOUS
    <3>1. s.free[j] \in Nat
      BY ElementOfSeq
    <3>2. QED
      BY <3>1, <1>2
  <2>2. QED
    BY <1>1, <1>2, <2>1
<1>3. CASE I # {}
  <2>1. I \in SUBSET Nat
    OBVIOUS
  <2>2. Min(I) \in I /\ \A y \in I : Min(I) <= y
    BY <2>1, <1>3, FirstOf
  <2>3. InsertionPoint(s, cell) = Min(I)
    <3>1. Min(I) # 0
      BY <2>2
    <3>2. k = Min(I)
      BY <1>3
    <3> HIDE DEF I, k
    <3>3. QED
      BY <1>1, <3>1, <3>2, Zenon
  <2>4. ASSUME NEW j \in 1 .. Len(s.free), j < Min(I) PROVE s.free[j] < cell
    <3>1. s.free[j] \in Nat
      BY ElementOfSeq
    <3>2. j \notin I
      BY <2>2, <2>4
    <3>3. QED
      BY <3>1, <3>2
  <2>5. QED
    BY <2>2, <2>3, <2>4
<1>4. QED
  BY <1>2, <1>3

(* Insertion shifts what stands behind it by one place.                    *)
LEMMA InsertAtIs ==
  ASSUME NEW f \in Seq(Nat), NEW i \in 1 .. Len(f) + 1, NEW c \in Nat
  PROVE  /\ InsertAt(f, i, c) \in Seq(Nat)
         /\ Len(InsertAt(f, i, c)) = Len(f) + 1
         /\ \A j \in 1 .. Len(f) + 1 :
              InsertAt(f, i, c)[j] = IF j < i THEN f[j]
                                     ELSE IF j = i THEN c ELSE f[j - 1]
<1> DEFINE n == Len(f)
           u == SubSeq(f, 1, i - 1)
           v == <<c>>
           w == SubSeq(f, i, n)
<1>1. n \in Nat /\ i \in 1 .. n + 1
  BY LenProperties
<1>2. /\ u \in Seq(Nat) /\ Len(u) = i - 1
      /\ \A j \in 1 .. i - 1 : u[j] = f[j]
  BY <1>1
<1>3. v \in Seq(Nat) /\ Len(v) = 1 /\ v[1] = c
  OBVIOUS
<1>4. /\ w \in Seq(Nat) /\ Len(w) = n - i + 1
      /\ \A j \in 1 .. n - i + 1 : w[j] = f[j + i - 1]
  BY <1>1
<1>5. InsertAt(f, i, c) = (u \o v) \o w
  BY DEF InsertAt
<1> HIDE DEF n, u, v, w
<1>6. /\ u \o v \in Seq(Nat) /\ Len(u \o v) = i
      /\ \A j \in 1 .. i : (u \o v)[j] = IF j < i THEN f[j] ELSE c
  <2>1. /\ u \o v \in Seq(Nat) /\ Len(u \o v) = Len(u) + Len(v)
        /\ \A j \in 1 .. Len(u) + Len(v) :
             (u \o v)[j] = IF j <= Len(u) THEN u[j] ELSE v[j - Len(u)]
    BY <1>2, <1>3, ConcatProperties
  <2>2. ASSUME NEW j \in 1 .. i PROVE (u \o v)[j] = IF j < i THEN f[j] ELSE c
    <3>1. CASE j < i
      BY <2>1, <3>1, <1>1, <1>2, <1>3
    <3>2. CASE j = i
      <4>1. j - Len(u) = 1 /\ ~ (j <= Len(u)) /\ j \in 1 .. Len(u) + Len(v)
        BY <3>2, <1>1, <1>2, <1>3
      <4>2. (u \o v)[j] = v[j - Len(u)]
        BY <2>1, <4>1
      <4>3. QED
        BY <4>1, <4>2, <1>3, <3>2, v[j - Len(u)] = v[1]
    <3>3. j < i \/ j = i
      BY <1>1
    <3>4. QED
      BY <3>1, <3>2, <3>3, Zenon
  <2>3. QED
    BY <2>1, <2>2, <1>1, <1>2, <1>3
<1> DEFINE x == u \o v
<1>7. /\ x \in Seq(Nat) /\ Len(x) = i
      /\ \A j \in 1 .. i : x[j] = IF j < i THEN f[j] ELSE c
  BY <1>6
<1> HIDE DEF x
<1>8. /\ x \o w \in Seq(Nat) /\ Len(x \o w) = n + 1
      /\ \A j \in 1 .. n + 1 :
           (x \o w)[j] = IF j <= i THEN x[j] ELSE w[j - i]
  <2>1. /\ x \o w \in Seq(Nat) /\ Len(x \o w) = Len(x) + Len(w)
        /\ \A j \in 1 .. Len(x) + Len(w) :
             (x \o w)[j] = IF j <= Len(x) THEN x[j] ELSE w[j - Len(x)]
    BY <1>4, <1>7, ConcatProperties
  <2>2. Len(x) = i /\ Len(x) + Len(w) = n + 1
    BY <1>1, <1>4, <1>7
  <2>3. QED
    BY <2>1, <2>2
<1>9. ASSUME NEW j \in 1 .. n + 1, j > i PROVE w[j - i] = f[j - 1]
  <2>1. j - i \in 1 .. n - i + 1 /\ (j - i) + i - 1 = j - 1
    BY <1>1, <1>9
  <2>2. w[j - i] = f[(j - i) + i - 1]
    BY <1>4, <2>1
  <2>3. QED
    BY <2>1, <2>2
<1>10. ASSUME NEW j \in 1 .. n + 1
       PROVE  (x \o w)[j] = IF j < i THEN f[j] ELSE IF j = i THEN c ELSE f[j - 1]
  BY <1>1, <1>7, <1>8, <1>9, SMTT(30)
<1>11. QED
  BY <1>5, <1>8, <1>10 DEF x, n

(* Removal closes the gap it makes.                                        *)
LEMMA RemoveAtIs ==
  ASSUME NEW f \in Seq(Nat), NEW i \in 1 .. Len(f)
  PROVE  /\ RemoveAt(f, i) \in Seq(Nat)
         /\ Len(RemoveAt(f, i)) = Len(f) - 1
         /\ \A j \in 1 .. Len(f) - 1 :
              RemoveAt(f, i)[j] = IF j < i THEN f[j] ELSE f[j + 1]
<1> DEFINE n == Len(f)
           u == SubSeq(f, 1, i - 1)
           w == SubSeq(f, i + 1, n)
<1>1. n \in Nat /\ i \in 1 .. n
  BY LenProperties
<1>2. /\ u \in Seq(Nat) /\ Len(u) = i - 1
      /\ \A j \in 1 .. i - 1 : u[j] = f[j]
  BY <1>1
<1>3. /\ w \in Seq(Nat) /\ Len(w) = n - i
      /\ \A j \in 1 .. n - i : w[j] = f[j + i]
  BY <1>1
<1>4. RemoveAt(f, i) = u \o w
  BY DEF RemoveAt
<1> HIDE DEF n, u, w
<1>5. /\ u \o w \in Seq(Nat) /\ Len(u \o w) = n - 1
      /\ \A j \in 1 .. n - 1 :
           (u \o w)[j] = IF j < i THEN u[j] ELSE w[j - (i - 1)]
  <2>1. /\ u \o w \in Seq(Nat) /\ Len(u \o w) = Len(u) + Len(w)
        /\ \A j \in 1 .. Len(u) + Len(w) :
             (u \o w)[j] = IF j <= Len(u) THEN u[j] ELSE w[j - Len(u)]
    BY <1>2, <1>3, ConcatProperties
  <2>2. Len(u) = i - 1 /\ Len(u) + Len(w) = n - 1
    BY <1>1, <1>2, <1>3
  <2>3. \A j \in 1 .. n - 1 : j <= i - 1 <=> j < i
    BY <1>1
  <2>4. QED
    BY <2>1, <2>2, <2>3
<1>6. ASSUME NEW j \in 1 .. n - 1, j >= i PROVE w[j - (i - 1)] = f[j + 1]
  <2>1. j - (i - 1) \in 1 .. n - i /\ (j - (i - 1)) + i = j + 1
    BY <1>1, <1>6
  <2>2. w[j - (i - 1)] = f[(j - (i - 1)) + i]
    BY <1>3, <2>1
  <2>3. QED
    BY <2>1, <2>2
<1>7. ASSUME NEW j \in 1 .. n - 1
      PROVE  (u \o w)[j] = IF j < i THEN f[j] ELSE f[j + 1]
  BY <1>1, <1>2, <1>5, <1>6
<1>8. QED
  BY <1>4, <1>5, <1>7 DEF n

(* g is f with c put in at place i.                                        *)
Places(g, f, i, c) ==
  /\ g \in Seq(Nat)
  /\ Len(g) = Len(f) + 1
  /\ \A j \in 1 .. Len(f) + 1 :
       g[j] = IF j < i THEN f[j] ELSE IF j = i THEN c ELSE f[j - 1]

(* The same of InsertAt, by that name.                                     *)
LEMMA InsertAtPlaces ==
  ASSUME NEW f \in Seq(Nat), NEW i \in 1 .. Len(f) + 1, NEW c \in Nat
  PROVE  Places(InsertAt(f, i, c), f, i, c)
BY InsertAtIs, SMTT(30) DEF Places

(* Setting free_head to a cell is an insertion at the front.               *)
LEMMA PushIs ==
  ASSUME NEW f \in Seq(Nat), NEW c \in Nat
  PROVE  <<c>> \o f = InsertAt(f, 1, c)
<1>1. SubSeq(f, 1, Len(f)) = f
  BY SubSeqFull
<1>2. SubSeq(f, 1, 0) = <<>>
  BY SubSeqEmpty
<1>3. <<c>> \in Seq(Nat)
  OBVIOUS
<1>4. <<>> \o <<c>> = <<c>>
  BY <1>3, ConcatEmptySeq
<1>5. QED
  BY <1>1, <1>2, <1>4 DEF InsertAt

(* What the list holds, before and after.                                  *)
LEMMA InsertAtRange ==
  ASSUME NEW f \in Seq(Nat), NEW i \in 1 .. Len(f) + 1, NEW c \in Nat,
         IsInjective(f), c \notin Range(f)
  PROVE  /\ Range(InsertAt(f, i, c)) = Range(f) \cup {c}
         /\ IsInjective(InsertAt(f, i, c))
<1> DEFINE g == InsertAt(f, i, c)
           n == Len(f)
<1>1. /\ g \in Seq(Nat) /\ Len(g) = n + 1
      /\ \A j \in 1 .. n + 1 : g[j] = IF j < i THEN f[j]
                                      ELSE IF j = i THEN c ELSE f[j - 1]
  BY InsertAtIs
<1>2. n \in Nat /\ i \in 1 .. n + 1 /\ DOMAIN f = 1 .. n
  BY LenProperties
<1>3. DOMAIN g = 1 .. n + 1
  BY <1>1
<1>4. /\ \A j \in 1 .. n : f[j] # c
      /\ \A j, k \in 1 .. n : f[j] = f[k] => j = k
  BY <1>2 DEF Range, IsInjective
<1> HIDE DEF g, n
<1>5. Range(g) \subseteq Range(f) \cup {c}
  <2> SUFFICES ASSUME NEW j \in 1 .. n + 1
               PROVE  g[j] = c \/ \E k \in 1 .. n : g[j] = f[k]
    BY <1>3, <1>2 DEF Range
  <2>1. CASE j < i
    BY <2>1, <1>1, <1>2
  <2>2. CASE j = i
    BY <2>2, <1>1, <1>2
  <2>3. CASE j > i
    <3>1. j - 1 \in 1 .. n /\ g[j] = f[j - 1]
      BY <2>3, <1>1, <1>2
    <3>2. QED
      BY <3>1
  <2>4. QED
    BY <2>1, <2>2, <2>3, <1>2
<1>6. c \in Range(g)
  <2>1. g[i] = c /\ i \in DOMAIN g
    BY <1>1, <1>2, <1>3
  <2>2. QED
    BY <2>1 DEF Range
<1>7. Range(f) \subseteq Range(g)
  <2> SUFFICES ASSUME NEW k \in 1 .. n PROVE f[k] \in Range(g)
    BY <1>2 DEF Range
  <2>1. CASE k < i
    <3>1. g[k] = f[k] /\ k \in DOMAIN g
      BY <2>1, <1>1, <1>2, <1>3
    <3>2. QED
      BY <3>1 DEF Range
  <2>2. CASE k >= i
    <3>1. g[k + 1] = f[k] /\ k + 1 \in DOMAIN g
      BY <2>2, <1>1, <1>2, <1>3
    <3>2. QED
      BY <3>1 DEF Range
  <2>3. QED
    BY <2>1, <2>2, <1>2
<1>8. IsInjective(g)
  <2> SUFFICES ASSUME NEW j \in 1 .. n + 1, NEW k \in 1 .. n + 1, g[j] = g[k], j < k
               PROVE  FALSE
    BY <1>3, <1>2 DEF IsInjective
  <2>1. CASE k < i
    BY <2>1, <1>1, <1>2, <1>4, SMTT(30)
  <2>2. CASE k = i
    <3>1. g[j] = f[j] /\ g[k] = c /\ j \in 1 .. n
      BY <2>2, <1>1, <1>2
    <3>2. QED
      BY <3>1, <1>4
  <2>3. CASE k > i /\ j < i
    <3>1. g[j] = f[j] /\ g[k] = f[k - 1] /\ j \in 1 .. n /\ k - 1 \in 1 .. n
      BY <2>3, <1>1, <1>2
    <3>2. j = k - 1
      BY <3>1, <1>4
    <3>3. QED
      BY <3>2, <2>3, <1>2
  <2>4. CASE k > i /\ j = i
    BY <2>4, <1>1, <1>2, <1>4
  <2>5. CASE k > i /\ j > i
    <3>1. g[j] = f[j - 1] /\ g[k] = f[k - 1] /\ j - 1 \in 1 .. n /\ k - 1 \in 1 .. n
      BY <2>5, <1>1, <1>2
    <3>2. j - 1 = k - 1
      BY <3>1, <1>4
    <3>3. QED
      BY <3>2, <1>2
  <2>6. QED
    BY <2>1, <2>2, <2>3, <2>4, <2>5, <1>2
<1>9. QED
  BY <1>5, <1>6, <1>7, <1>8 DEF g

(* Removal takes one element out of a list without repeats.                *)
LEMMA RemoveAtRange ==
  ASSUME NEW f \in Seq(Nat), NEW i \in 1 .. Len(f), IsInjective(f)
  PROVE  /\ Range(RemoveAt(f, i)) = Range(f) \ {f[i]}
         /\ IsInjective(RemoveAt(f, i))
<1> DEFINE g == RemoveAt(f, i)
           n == Len(f)
<1>1. /\ g \in Seq(Nat) /\ Len(g) = n - 1
      /\ \A j \in 1 .. n - 1 : g[j] = IF j < i THEN f[j] ELSE f[j + 1]
  BY RemoveAtIs
<1>2. n \in Nat /\ i \in 1 .. n /\ DOMAIN f = 1 .. n
  BY LenProperties
<1>3. DOMAIN g = 1 .. n - 1
  BY <1>1
<1>4. \A j, k \in 1 .. n : f[j] = f[k] => j = k
  BY <1>2 DEF IsInjective
<1> HIDE DEF g, n
<1>5. ASSUME NEW j \in 1 .. n - 1
      PROVE  \E k \in 1 .. n : g[j] = f[k] /\ k # i
  <2>1. CASE j < i
    BY <2>1, <1>1, <1>2
  <2>2. CASE j >= i
    <3>1. j + 1 \in 1 .. n /\ g[j] = f[j + 1] /\ j + 1 # i
      BY <2>2, <1>1, <1>2
    <3>2. QED
      BY <3>1
  <2>3. QED
    BY <2>1, <2>2, <1>2
<1>6. Range(g) \subseteq Range(f) \ {f[i]}
  <2> SUFFICES ASSUME NEW j \in 1 .. n - 1 PROVE g[j] \in Range(f) \ {f[i]}
    BY <1>3 DEF Range
  <2>1. PICK k \in 1 .. n : g[j] = f[k] /\ k # i
    BY <1>5
  <2>2. f[k] # f[i] /\ k \in DOMAIN f
    BY <2>1, <1>2, <1>4
  <2>3. QED
    BY <2>1, <2>2 DEF Range
<1>7. Range(f) \ {f[i]} \subseteq Range(g)
  <2> SUFFICES ASSUME NEW k \in 1 .. n, k # i PROVE f[k] \in Range(g)
    BY <1>2 DEF Range
  <2>1. CASE k < i
    <3>1. g[k] = f[k] /\ k \in DOMAIN g
      BY <2>1, <1>1, <1>2, <1>3
    <3>2. QED
      BY <3>1 DEF Range
  <2>2. CASE k > i
    <3>1. g[k - 1] = f[k] /\ k - 1 \in DOMAIN g
      BY <2>2, <1>1, <1>2, <1>3
    <3>2. QED
      BY <3>1 DEF Range
  <2>3. QED
    BY <2>1, <2>2, <1>2
<1>8. IsInjective(g)
  <2> SUFFICES ASSUME NEW j \in 1 .. n - 1, NEW k \in 1 .. n - 1, g[j] = g[k], j < k
               PROVE  FALSE
    BY <1>3, <1>2 DEF IsInjective
  <2>1. CASE k < i
    BY <2>1, <1>1, <1>2, <1>4
  <2>2. CASE k >= i /\ j < i
    <3>1. g[j] = f[j] /\ g[k] = f[k + 1] /\ j \in 1 .. n /\ k + 1 \in 1 .. n
      BY <2>2, <1>1, <1>2
    <3>2. j = k + 1
      BY <3>1, <1>4
    <3>3. QED
      BY <3>2, <2>2, <1>2
  <2>3. CASE k >= i /\ j >= i
    <3>1. g[j] = f[j + 1] /\ g[k] = f[k + 1] /\ j + 1 \in 1 .. n /\ k + 1 \in 1 .. n
      BY <2>3, <1>1, <1>2
    <3>2. j + 1 = k + 1
      BY <3>1, <1>4
    <3>3. QED
      BY <3>2, <1>2
  <2>4. QED
    BY <2>1, <2>2, <2>3, <1>2
<1>9. QED
  BY <1>6, <1>7, <1>8 DEF g

(* The place of an address in a sorted list.                               *)
Fits(f, i, c) == \A j \in 1 .. Len(f) : IF j < i THEN f[j] < c ELSE c < f[j]

(* Inserting where insert() does, and removing, keep the list sorted.      *)
LEMMA InsertAtSorted ==
  ASSUME NEW f \in Seq(Nat), NEW i \in 1 .. Len(f) + 1, NEW c \in Nat,
         Sorted(f), Fits(f, i, c)
  PROVE  Sorted(InsertAt(f, i, c))
<1> DEFINE g == InsertAt(f, i, c)
           n == Len(f)
<1>1. /\ g \in Seq(Nat) /\ Len(g) = n + 1
      /\ \A j \in 1 .. n + 1 : g[j] = IF j < i THEN f[j]
                                      ELSE IF j = i THEN c ELSE f[j - 1]
  BY InsertAtIs
<1>2. n \in Nat /\ i \in 1 .. n + 1
  BY LenProperties
<1>3. /\ \A j, k \in 1 .. n : j < k => f[j] < f[k]
      /\ \A j \in 1 .. n : j < i => f[j] < c
      /\ \A j \in 1 .. n : j >= i => c < f[j]
  BY DEF Sorted, Fits
<1> HIDE DEF g, n
<1> SUFFICES ASSUME NEW j \in 1 .. n + 1, NEW k \in 1 .. n + 1, j < k
             PROVE  g[j] < g[k]
  BY <1>1, <1>2 DEF Sorted, g
<1>4. CASE k < i
  <2>1. g[j] = f[j] /\ g[k] = f[k] /\ j \in 1 .. n /\ k \in 1 .. n
    BY <1>4, <1>1, <1>2
  <2>2. QED
    BY <2>1, <1>3
<1>5. CASE k = i
  <2>1. g[j] = f[j] /\ g[k] = c /\ j \in 1 .. n /\ j < i
    BY <1>5, <1>1, <1>2
  <2>2. QED
    BY <2>1, <1>3
<1>6. CASE k > i
  <2>1. g[k] = f[k - 1] /\ k - 1 \in 1 .. n /\ k - 1 >= i
    BY <1>6, <1>1, <1>2
  <2>2. CASE j < i
    <3>1. g[j] = f[j] /\ j \in 1 .. n /\ j < k - 1
      BY <2>2, <1>1, <1>2, <1>6
    <3>2. QED
      BY <3>1, <2>1, <1>3
  <2>3. CASE j = i
    BY <2>3, <2>1, <1>1, <1>2, <1>3
  <2>4. CASE j > i
    <3>1. g[j] = f[j - 1] /\ j - 1 \in 1 .. n /\ j - 1 < k - 1
      BY <2>4, <1>1, <1>2, <1>6, SMTT(30)
    <3>2. QED
      BY <3>1, <2>1, <1>3
  <2>5. QED
    BY <2>2, <2>3, <2>4, <1>2
<1>7. QED
  BY <1>4, <1>5, <1>6, <1>2

(* Removal keeps a sorted list sorted.                                     *)
LEMMA RemoveAtSorted ==
  ASSUME NEW f \in Seq(Nat), NEW i \in 1 .. Len(f), Sorted(f)
  PROVE  Sorted(RemoveAt(f, i))
<1> DEFINE g == RemoveAt(f, i)
           n == Len(f)
<1>1. /\ g \in Seq(Nat) /\ Len(g) = n - 1
      /\ \A j \in 1 .. n - 1 : g[j] = IF j < i THEN f[j] ELSE f[j + 1]
  BY RemoveAtIs, Zenon
<1>2. n \in Nat /\ i \in 1 .. n
  BY LenProperties
<1>3. \A j, k \in 1 .. n : j < k => f[j] < f[k]
  BY DEF Sorted
<1> HIDE DEF g, n
<1> SUFFICES ASSUME NEW j \in 1 .. n - 1, NEW k \in 1 .. n - 1, j < k
             PROVE  g[j] < g[k]
  BY <1>1, <1>2 DEF Sorted, g
<1>4. \A x \in 1 .. n - 1 : x \in 1 .. n /\ x + 1 \in 1 .. n
  BY <1>2
<1>5. CASE k < i
  BY <1>5, <1>1, <1>2, <1>3
<1>6. CASE k >= i /\ j < i
  <2>1. g[j] = f[j] /\ g[k] = f[k + 1] /\ j < k + 1
    BY <1>6, <1>1, <1>2
  <2>2. QED
    BY <2>1, <1>3, <1>4
<1>7. CASE k >= i /\ j >= i
  <2>1. g[j] = f[j + 1] /\ g[k] = f[k + 1] /\ j + 1 < k + 1
    BY <1>7, <1>1, <1>2
  <2>2. QED
    BY <2>1, <1>3, <1>4
<1>8. QED
  BY <1>5, <1>6, <1>7, <1>2
-----------------------------------------------------------------------------
(* Cells and mappings.                                                     *)
LEMMA MappingFacts ==
  ASSUME NEW M, GoodMappings(M), NEW m \in M
  PROVE  /\ m.start \in Nat /\ m.end \in Nat
         /\ Aligned(m.start) /\ Aligned(m.end)
         /\ m.start < m.end /\ m.end <= Pages * PAGE_SIZE
         /\ m = [start |-> m.start, end |-> m.end]
BY DEF GoodMappings

(* An address lies in one mapping at most.                                 *)
LEMMA SameMapping ==
  ASSUME NEW M, GoodMappings(M), NEW m \in M, NEW n \in M, NEW a \in Nat,
         Inside(a, m), Inside(a, n)
  PROVE  m = n
<1>1. m.start \in Nat /\ m.end \in Nat /\ n.start \in Nat /\ n.end \in Nat
  BY MappingFacts
<1>2. m = n \/ Apart(m, n) \/ Apart(n, m)
  BY DEF GoodMappings
<1>3. MapHeaderSize \in Nat
  BY UnitsType
<1>4. QED
  BY <1>1, <1>2, <1>3 DEF Apart, Inside

(* A cell, its length and its end.                                         *)
LEMMA CellFacts ==
  ASSUME NEW s, GoodHeaders(s.hdr), NEW a \in DOMAIN s.hdr
  PROVE  /\ a \in Nat /\ Aligned(a)
         /\ s.hdr[a] \in Header
         /\ s.hdr[a].size \in Nat /\ s.hdr[a].size > 0 /\ Aligned(s.hdr[a].size)
         /\ End(s, a) \in Nat /\ End(s, a) = a + HeaderSize + s.hdr[a].size
         /\ End(s, a) > a + HeaderSize /\ End(s, a) > a /\ Aligned(End(s, a))
<1>1. /\ a \in Nat /\ Aligned(a) /\ s.hdr[a] \in Header
      /\ Aligned(s.hdr[a].size)
  BY Zenon DEF GoodHeaders
<1>2. s.hdr[a].size \in Nat /\ s.hdr[a].size > 0
  BY <1>1 DEF Header
<1>3. HeaderSize \in Nat /\ HeaderSize > 0 /\ Aligned(HeaderSize)
  BY UnitsType
<1>4. End(s, a) = (a + HeaderSize) + s.hdr[a].size
  BY DEF End
<1>5. /\ a \in Int /\ HeaderSize \in Int /\ s.hdr[a].size \in Int
      /\ a + HeaderSize \in Int
  BY <1>1, <1>2, <1>3
<1>6. Aligned((a + HeaderSize) + s.hdr[a].size)
  BY <1>1, <1>2, <1>3, <1>5, AlignedSum, Zenon
<1>7. QED
  BY <1>1, <1>2, <1>3, <1>4, <1>6

(* A cell lies in a mapping and ends there.                                *)
LEMMA CellPlace ==
  ASSUME NEW s, NEW M, GoodMappings(M), GoodHeaders(s.hdr), GoodTiling(s, M),
         NEW a \in DOMAIN s.hdr
  PROVE  \E m \in M : /\ Inside(a, m) /\ EndsWell(s, a, m)
                      /\ End(s, a) <= m.end
                      /\ a < Pages * PAGE_SIZE /\ End(s, a) <= Pages * PAGE_SIZE
<1>1. PICK m \in M : Inside(a, m) /\ EndsWell(s, a, m)
  BY DEF GoodTiling
<1>2. m.end \in Nat /\ m.end <= Pages * PAGE_SIZE /\ Pages * PAGE_SIZE \in Int
  BY MappingFacts, PageMultiple, UnitsType
<1>3. End(s, a) \in Nat /\ End(s, a) > a /\ a \in Nat
  BY CellFacts
<1>4. End(s, a) <= m.end
  BY <1>1, <1>2, <1>3 DEF EndsWell
<1>5. QED
  BY <1>1, <1>2, <1>3, <1>4

(* A cell's neighbour on the right lies in the same mapping.               *)
LEMMA CellEndsIn ==
  ASSUME NEW s, NEW M, GoodMappings(M), GoodHeaders(s.hdr), GoodTiling(s, M),
         NEW a \in DOMAIN s.hdr, NEW m \in M, Inside(a, m)
  PROVE  /\ EndsWell(s, a, m) /\ End(s, a) <= m.end
         /\ End(s, a) \in DOMAIN s.hdr => End(s, a) < m.end
<1>1. PICK n \in M : Inside(a, n) /\ EndsWell(s, a, n) /\ End(s, a) <= n.end
  BY CellPlace
<1>2. m = n
  BY <1>1, SameMapping, CellFacts
<1>3. ASSUME End(s, a) \in DOMAIN s.hdr, End(s, a) = m.end PROVE FALSE
  <2>1. PICK k \in M : Inside(m.end, k)
    BY <1>3, CellPlace
  <2>2. /\ m.start \in Nat /\ m.end \in Nat /\ k.start \in Nat /\ k.end \in Nat
        /\ m.start < m.end
    BY MappingFacts
  <2>3. m = k \/ Apart(m, k) \/ Apart(k, m)
    BY DEF GoodMappings
  <2>4. MapHeaderSize \in Nat /\ MapHeaderSize > 0
    BY UnitsType
  <2>5. QED
    BY <2>1, <2>2, <2>3, <2>4 DEF Apart, Inside
<1>4. QED
  BY <1>1, <1>2, <1>3 DEF EndsWell

(* Only where cells begin and how long they are matters to the tiling.     *)
SameShape(s, t) ==
  /\ DOMAIN t.hdr = DOMAIN s.hdr
  /\ \A a \in DOMAIN s.hdr : t.hdr[a].size = s.hdr[a].size

(* Heaps with the same cells are tiled alike.                              *)
LEMMA ShapeTiling ==
  ASSUME NEW s, NEW t, NEW M, SameShape(s, t), GoodTiling(s, M)
  PROVE  /\ GoodTiling(t, M)
         /\ \A a \in DOMAIN s.hdr : End(t, a) = End(s, a)
<1>1. \A a \in DOMAIN s.hdr : End(t, a) = End(s, a)
  BY Zenon DEF SameShape, End
<1>2. DOMAIN t.hdr = DOMAIN s.hdr
  BY DEF SameShape
<1>3. \A m \in M : m.start \in DOMAIN t.hdr
  BY <1>2 DEF GoodTiling
<1>4. ASSUME NEW a \in DOMAIN t.hdr PROVE \E m \in M : Inside(a, m) /\ EndsWell(t, a, m)
  BY <1>1, <1>2, Zenon DEF GoodTiling, EndsWell
<1>5. ASSUME NEW a \in DOMAIN t.hdr, NEW b \in DOMAIN t.hdr, a < b PROVE End(t, a) <= b
  <2>1. End(s, a) <= b
    BY <1>2, <1>5, Zenon DEF GoodTiling
  <2>2. End(t, a) = End(s, a)
    BY <1>1, <1>2, Zenon
  <2>3. QED
    BY <2>1, <2>2, Zenon
<1>6. QED
  BY <1>1, <1>3, <1>4, <1>5, Zenon DEF GoodTiling

(* The cells in use.                                                       *)
AllocCells(h) == {a \in DOMAIN h : h[a].allocated}

(* What the other cells keep: headers in use on both sides are the same,   *)
(* and no mark is made.                                                    *)
Frame(s, t) ==
  /\ \A a \in AllocCells(s.hdr) \cap AllocCells(t.hdr) : t.hdr[a] = s.hdr[a]
  /\ \A a \in DOMAIN t.hdr : t.hdr[a].mark => a \in DOMAIN s.hdr /\ s.hdr[a].mark
-----------------------------------------------------------------------------
(* extend(): the new cell is the only one in the new mapping.              *)
LEMMA ExtendGood ==
  ASSUME NEW s, NEW M, NEW m, GoodMappings(M \cup {m}), GoodHeap(s, M), m \notin M,
         m.end - m.start - HeaderSize > 0
  PROVE  /\ GoodHeap(extend(s, m), M \cup {m})
         /\ DOMAIN extend(s, m).hdr = DOMAIN s.hdr \cup {m.start}
         /\ m.start \notin DOMAIN s.hdr
         /\ AllocCells(extend(s, m).hdr) = AllocCells(s.hdr)
         /\ Frame(s, extend(s, m))
         /\ Len(extend(s, m).free) >= 1 /\ extend(s, m).free[1] = m.start
         /\ extend(s, m).hdr[m.start].size = m.end - m.start - HeaderSize
         /\ (Tidy(s) /\ \A n \in M : Apart(m, n)) => Tidy(extend(s, m))
<1> DEFINE t == extend(s, m)
           D == DOMAIN s.hdr
           new == [size |-> m.end - m.start - HeaderSize, allocated |-> FALSE, mark |-> FALSE]
<1>1. /\ t.hdr = [b \in D \cup {m.start} |-> IF b = m.start THEN new ELSE s.hdr[b]]
      /\ t.free = <<m.start>> \o s.free
  BY DEF extend, With
<1>2. /\ m.start \in Nat /\ m.end \in Nat /\ Aligned(m.start) /\ Aligned(m.end)
      /\ m.start < m.end /\ m.end <= Pages * PAGE_SIZE
  BY MappingFacts, m \in M \cup {m}, Zenon
<1>3. GoodMappings(M)
  BY Zenon DEF GoodMappings
<1>4. HeaderSize \in Nat /\ HeaderSize > 0 /\ MapHeaderSize \in Nat /\ MapHeaderSize > 0
      /\ Aligned(HeaderSize)
  BY UnitsType
<1>5. /\ GoodHeaders(s.hdr) /\ GoodTiling(s, M) /\ GoodList(s)
  BY DEF GoodHeap
<1>6. /\ new \in Header /\ Aligned(new.size)
      /\ new.size = m.end - m.start - HeaderSize /\ ~new.allocated /\ ~new.mark
  <2>1. /\ m.end \in Int /\ m.start \in Int /\ HeaderSize \in Int
        /\ m.end - m.start \in Int
    BY <1>2, <1>4
  <2>2. Aligned((m.end - m.start) - HeaderSize)
    BY <2>1, <1>2, <1>4, AlignedSum, Zenon
  <2>3. QED
    BY <2>2, <1>2, <1>4 DEF Header
(* An old cell lies in an old mapping, to one side of the new one.         *)
<1>7. ASSUME NEW a \in D
      PROVE  /\ a \in Nat /\ End(s, a) \in Nat /\ End(s, a) > a
             /\ End(s, a) + MapHeaderSize <= m.start \/ m.end + MapHeaderSize <= a
             /\ (\A n \in M : Apart(m, n)) => m.end + MapHeaderSize <= a
  <2>1. a \in Nat /\ End(s, a) \in Nat /\ End(s, a) > a
    BY <1>5, CellFacts
  <2>2. PICK n \in M : Inside(a, n) /\ End(s, a) <= n.end
    BY <1>3, <1>5, CellPlace
  <2>3. n.start \in Nat /\ n.end \in Nat
    BY <1>3, MappingFacts
  <2>4. Apart(m, n) \/ Apart(n, m)
    BY Zenon DEF GoodMappings
  <2>5. QED
    BY <2>1, <2>2, <2>3, <2>4, <1>2, <1>4 DEF Apart, Inside
<1>8. m.start \notin D
  BY <1>7, <1>2, <1>4
<1> HIDE DEF t, new
<1>9. /\ DOMAIN t.hdr = D \cup {m.start} /\ t.hdr[m.start] = new
      /\ \A a \in D : t.hdr[a] = s.hdr[a]
  BY <1>1, <1>8
<1>10. /\ End(t, m.start) = m.end
       /\ \A a \in D : End(t, a) = End(s, a)
  BY <1>9, <1>6, <1>2, <1>4 DEF End
<1>11. GoodHeaders(t.hdr)
  <2>1. \A a \in D \cup {m.start} :
          t.hdr[a] \in Header /\ a \in Nat /\ Aligned(a) /\ Aligned(t.hdr[a].size)
    BY <1>2, <1>5, <1>6, <1>9, CellFacts, Zenon
  <2>2. t.hdr \in [D \cup {m.start} -> Header]
    BY <2>1, <1>1
  <2>3. QED
    BY <2>1, <2>2, <1>9, Zenon DEF GoodHeaders
<1>12. GoodTiling(t, M \cup {m})
  <2>1. \A n \in M \cup {m} : n.start \in DOMAIN t.hdr
    BY <1>5, <1>9 DEF GoodTiling
  <2>2. ASSUME NEW a \in D \cup {m.start}
        PROVE  \E n \in M \cup {m} : Inside(a, n) /\ EndsWell(t, a, n)
    <3>1. CASE a = m.start
      BY <3>1, <1>2, <1>10 DEF Inside, EndsWell
    <3>2. CASE a \in D
      <4>1. PICK n \in M : Inside(a, n) /\ EndsWell(s, a, n)
        BY <3>2, <1>5 DEF GoodTiling
      <4>2. EndsWell(t, a, n)
        BY <4>1, <3>2, <1>9, <1>10 DEF EndsWell
      <4>3. QED
        BY <4>1, <4>2
    <3>3. QED
      BY <3>1, <3>2
  <2>3. ASSUME NEW a \in D \cup {m.start}, NEW b \in D \cup {m.start}, a < b
        PROVE  End(t, a) <= b
    <3>1. CASE a \in D /\ b \in D
      BY <3>1, <2>3, <1>5, <1>10 DEF GoodTiling
    <3>2. CASE a = m.start /\ b \in D
      BY <3>2, <2>3, <1>2, <1>4, <1>7, <1>10
    <3>3. CASE a \in D /\ b = m.start
      BY <3>3, <2>3, <1>2, <1>4, <1>7, <1>10
    <3>4. QED
      BY <3>1, <3>2, <3>3, <2>3, <1>2
  <2>4. QED
    BY <2>1, <2>2, <2>3, <1>9, Zenon DEF GoodTiling
<1>13. /\ FreeCells(t.hdr) = FreeCells(s.hdr) \cup {m.start}
       /\ AllocCells(t.hdr) = AllocCells(s.hdr)
  BY <1>6, <1>8, <1>9 DEF FreeCells, AllocCells
<1>14. s.free \in Seq(Nat) /\ IsInjective(s.free) /\ Range(s.free) = FreeCells(s.hdr)
  BY <1>5 DEF GoodList
<1>15. m.start \notin Range(s.free)
  BY <1>8, <1>14 DEF FreeCells
<1>16. t.free = InsertAt(s.free, 1, m.start)
  BY <1>1, <1>2, <1>14, PushIs
<1>17. 1 \in 1 .. Len(s.free) + 1 /\ Len(s.free) \in Nat
  BY <1>14, LenProperties
<1>18. GoodList(t)
  <2>1. t.free \in Seq(Nat)
    BY <1>2, <1>14, <1>16, <1>17, InsertAtIs
  <2>2. Range(t.free) = Range(s.free) \cup {m.start} /\ IsInjective(t.free)
    BY <1>2, <1>14, <1>15, <1>16, <1>17, InsertAtRange
  <2>3. QED
    BY <2>1, <2>2, <1>13, <1>14, Zenon DEF GoodList
<1>19. Len(t.free) >= 1 /\ t.free[1] = m.start
  <2>1. Len(t.free) = Len(s.free) + 1 /\ t.free[1] = m.start
    BY <1>2, <1>14, <1>16, <1>17, InsertAtIs
  <2>2. QED
    BY <2>1, <1>17
<1>20. Frame(s, t)
  BY <1>6, <1>9, <1>13 DEF Frame, AllocCells
<1>21. ASSUME Tidy(s), \A n \in M : Apart(m, n) PROVE Tidy(t)
  <2>1. \A a \in D : m.start < a /\ m.end < a /\ m.end # a /\ End(s, a) # m.start
    BY <1>2, <1>4, <1>7, <1>21
  <2>2. Fits(s.free, 1, m.start)
    <3> SUFFICES ASSUME NEW j \in 1 .. Len(s.free) PROVE m.start < s.free[j]
      BY <1>17 DEF Fits
    <3>1. s.free[j] \in FreeCells(s.hdr)
      BY <1>14 DEF Range
    <3>2. QED
      BY <3>1, <2>1 DEF FreeCells
  <2>3. Sorted(t.free)
    BY <2>2, <1>2, <1>14, <1>16, <1>17, <1>21, InsertAtSorted DEF Tidy
  <2>4. ASSUME NEW a \in FreeCells(t.hdr) PROVE End(t, a) \notin FreeCells(t.hdr)
    <3>1. CASE a = m.start
      <4>1. m.end # m.start /\ m.end \notin D
        BY <2>1, <1>2
      <4>2. QED
        BY <4>1, <3>1, <1>10, <1>13 DEF FreeCells
    <3>2. CASE a \in FreeCells(s.hdr)
      <4>1. a \in D /\ End(s, a) \notin FreeCells(s.hdr)
        BY <3>2, <1>21 DEF Tidy, FreeCells
      <4>2. QED
        BY <4>1, <2>1, <1>10, <1>13
    <3>3. QED
      BY <3>1, <3>2, <1>13
  <2>5. QED
    BY <2>3, <2>4, Zenon DEF Tidy
<1>22. QED
  BY <1>8, <1>9, <1>6, <1>11, <1>12, <1>13, <1>18, <1>19, <1>20, <1>21 DEF GoodHeap, t
-----------------------------------------------------------------------------
(* split_if_possible(): the cell keeps its place in the list and is large  *)
(* enough; what is cut off becomes a free cell behind it.                  *)
LEMMA ListFacts ==
  ASSUME NEW s, GoodList(s)
  PROVE  /\ s.free \in Seq(Nat) /\ IsInjective(s.free) /\ Len(s.free) \in Nat
         /\ DOMAIN s.free = 1 .. Len(s.free)
         /\ Range(s.free) = FreeCells(s.hdr)
         /\ \A i \in 1 .. Len(s.free) :
              /\ s.free[i] \in DOMAIN s.hdr /\ ~s.hdr[s.free[i]].allocated
              /\ s.free[i] \in FreeCells(s.hdr) /\ s.free[i] \in Nat
<1>1. /\ s.free \in Seq(Nat) /\ IsInjective(s.free)
      /\ Range(s.free) = FreeCells(s.hdr)
  BY DEF GoodList
<1>2. Len(s.free) \in Nat /\ DOMAIN s.free = 1 .. Len(s.free)
  BY <1>1, LenProperties
<1>3. \A i \in 1 .. Len(s.free) : s.free[i] \in FreeCells(s.hdr)
  BY <1>1, <1>2 DEF Range
<1>4. QED
  BY <1>1, <1>2, <1>3, ElementOfSeq DEF FreeCells

(* The cell is long enough to be cut.                                      *)
Splits(s, i, p) ==
  s.hdr[s.free[i]].size >= p + HeaderSize + HeaderSize + MIN_ALLOCATION_SIZE

(* Where the cell is cut, the rest becomes a free cell of its own.         *)
LEMMA SplitGood ==
  ASSUME NEW s, NEW M, GoodMappings(M), GoodHeap(s, M),
         NEW i \in 1 .. Len(s.free), NEW p \in Nat, p > 0, Aligned(p),
         Splits(s, i, p)
  PROVE  LET u == split_if_possible(s, i, p)
             c == s.free[i]
             new == c + p + HeaderSize
         IN  /\ GoodHeap(u, M)
             /\ DOMAIN u.hdr = DOMAIN s.hdr \cup {new} /\ new \notin DOMAIN s.hdr
             /\ \A a \in DOMAIN s.hdr : a # c => u.hdr[a] = s.hdr[a]
             /\ u.hdr[c].size = p /\ u.hdr[c].mark = s.hdr[c].mark
             /\ ~u.hdr[c].allocated /\ ~u.hdr[new].allocated /\ ~u.hdr[new].mark
             /\ End(u, new) = End(s, c)
             /\ Len(u.free) = Len(s.free) + 1 /\ u.free[i] = c
             /\ Sorted(s.free) => Sorted(u.free)
<1> DEFINE u == split_if_possible(s, i, p)
           c == s.free[i]
           new == c + p + HeaderSize
           rest == s.hdr[c].size - p - HeaderSize
           e == End(s, c)
           D == DOMAIN s.hdr
           cut == [size |-> rest, allocated |-> FALSE, mark |-> FALSE]
           g == [s.hdr EXCEPT ![c].size = p]
<1>1. /\ GoodHeaders(s.hdr) /\ GoodTiling(s, M) /\ GoodList(s)
  BY DEF GoodHeap
<1>2. /\ u.hdr = With(g, new, cut)
      /\ u.free = InsertAt(s.free, i + 1, new)
  BY DEF split_if_possible, Splits
<1>3. c \in D /\ ~s.hdr[c].allocated /\ c \in Nat
  BY <1>1, ListFacts
<1>4. /\ HeaderSize \in Nat /\ HeaderSize > 0 /\ Aligned(HeaderSize)
      /\ MIN_ALLOCATION_SIZE \in Nat
  BY UnitsType
<1>5. /\ s.hdr[c] \in Header /\ s.hdr[c].size \in Nat /\ Aligned(s.hdr[c].size)
      /\ Aligned(c) /\ e \in Nat /\ e = c + HeaderSize + s.hdr[c].size
  BY <1>1, <1>3, CellFacts
<1>6. /\ new \in Nat /\ rest \in Nat /\ rest > 0
      /\ c < new /\ new < e /\ new + HeaderSize + rest = e
      /\ c + HeaderSize + p = new
  <2> DEFINE z == s.hdr[c].size
  <2>1. z \in Nat /\ z >= p + HeaderSize + HeaderSize + MIN_ALLOCATION_SIZE
    BY <1>5 DEF Splits
  <2>2. e = c + HeaderSize + z /\ rest = z - p - HeaderSize /\ new = c + p + HeaderSize
    BY <1>5
  <2> HIDE DEF z, e, rest, new, c
  <2>3. QED
    BY <2>1, <2>2, <1>3, <1>4
<1>7. Aligned(new) /\ Aligned(rest)
  <2>1. /\ c \in Int /\ p \in Int /\ HeaderSize \in Int /\ s.hdr[c].size \in Int
        /\ c + p \in Int /\ s.hdr[c].size - p \in Int
    BY <1>3, <1>4, <1>5
  <2>2. Aligned(c + p) /\ Aligned(s.hdr[c].size - p)
    BY <2>1, <1>5, AlignedSum, Zenon
  <2>3. QED
    BY <2>1, <2>2, <1>4, AlignedSum, Zenon
<1>8. cut \in Header /\ cut.size = rest /\ ~cut.allocated /\ ~cut.mark
  BY <1>6 DEF Header
<1>9. /\ DOMAIN g = D
      /\ g[c].size = p /\ g[c].mark = s.hdr[c].mark /\ ~g[c].allocated
      /\ g[c] \in Header
      /\ \A a \in D : a # c => g[a] = s.hdr[a]
  BY <1>1, <1>3, <1>5, SMTT(30) DEF GoodHeaders, Header
<1>10. ASSUME NEW a \in D
       PROVE  /\ a \in Nat /\ End(s, a) \in Nat /\ a < End(s, a)
              /\ a < c => End(s, a) <= c
              /\ a > c => e <= a
  BY <1>1, <1>3, CellFacts DEF GoodTiling
<1>11. new \notin D
  BY <1>10, <1>3, <1>6
<1>12. /\ u.hdr = [a \in D \cup {new} |-> IF a = new THEN cut ELSE g[a]]
  BY <1>2, <1>9 DEF With
<1> HIDE DEF u, new, rest, e, cut, g, c
<1>13. /\ DOMAIN u.hdr = D \cup {new} /\ u.hdr[new] = cut
       /\ \A a \in D : u.hdr[a] = g[a]
  BY <1>11, <1>12
<1>14. /\ End(u, c) = new /\ End(u, new) = e
       /\ \A a \in D : a # c => End(u, a) = End(s, a)
  BY <1>3, <1>6, <1>8, <1>9, <1>13 DEF End
<1>15. GoodHeaders(u.hdr)
  <2>1. ASSUME NEW a \in D \cup {new}
        PROVE  u.hdr[a] \in Header /\ a \in Nat /\ Aligned(a) /\ Aligned(u.hdr[a].size)
    <3>1. CASE a = new
      BY <3>1, <1>6, <1>7, <1>8, <1>13
    <3>2. CASE a = c
      BY <3>2, <1>3, <1>5, <1>9, <1>13
    <3>3. CASE a \in D /\ a # c
      BY <3>3, <1>1, <1>9, <1>13, CellFacts
    <3>4. QED
      BY <3>1, <3>2, <3>3
  <2>2. u.hdr \in [D \cup {new} -> Header]
    BY <2>1, <1>12
  <2>3. QED
    BY <2>1, <2>2, <1>13, Zenon DEF GoodHeaders
<1>16. GoodTiling(u, M)
  <2>1. \A m \in M : m.start \in DOMAIN u.hdr
    BY <1>1, <1>13 DEF GoodTiling
  <2>2. ASSUME NEW a \in D \cup {new} PROVE \E m \in M : Inside(a, m) /\ EndsWell(u, a, m)
    <3>1. PICK n \in M : Inside(c, n) /\ EndsWell(s, c, n) /\ End(s, c) <= n.end
      BY <1>1, <1>3, CellPlace
    <3>2. n.start \in Nat /\ n.end \in Nat
      BY MappingFacts
    <3>3. CASE a = new
      <4>1. Inside(new, n)
        BY <3>1, <3>2, <1>3, <1>5, <1>6 DEF Inside, e
      <4>2. EndsWell(u, new, n)
        BY <3>1, <1>13, <1>14 DEF EndsWell, e
      <4>3. QED
        BY <4>1, <4>2, <3>3
    <3>4. CASE a = c
      <4>1. new < n.end
        BY <3>1, <3>2, <1>5, <1>6 DEF e
      <4>2. QED
        BY <4>1, <3>1, <3>4, <1>13, <1>14 DEF EndsWell
    <3>5. CASE a \in D /\ a # c
      <4>1. PICK m \in M : Inside(a, m) /\ EndsWell(s, a, m)
        BY <3>5, <1>1 DEF GoodTiling
      <4>2. EndsWell(u, a, m)
        BY <4>1, <3>5, <1>13, <1>14 DEF EndsWell
      <4>3. QED
        BY <4>1, <4>2
    <3>6. QED
      BY <3>3, <3>4, <3>5
  <2>3. ASSUME NEW a \in D \cup {new}, NEW b \in D \cup {new}, a < b PROVE End(u, a) <= b
    <3>1. CASE a = new /\ b \in D
      BY <3>1, <2>3, <1>3, <1>6, <1>10, <1>14
    <3>2. CASE a = c /\ b = new
      BY <3>2, <1>6, <1>14
    <3>3. CASE a = c /\ b \in D
      BY <3>3, <2>3, <1>3, <1>5, <1>6, <1>10, <1>14
    <3>4. CASE a \in D /\ a # c /\ b = new
      BY <3>4, <2>3, <1>3, <1>5, <1>6, <1>10, <1>14
    <3>5. CASE a \in D /\ a # c /\ b \in D
      BY <3>5, <2>3, <1>1, <1>14 DEF GoodTiling
    <3>6. QED
      BY <3>1, <3>2, <3>3, <3>4, <3>5, <2>3, <1>6
  <2>4. QED
    BY <2>1, <2>2, <2>3, <1>13, Zenon DEF GoodTiling
<1>17. FreeCells(u.hdr) = FreeCells(s.hdr) \cup {new}
  BY <1>3, <1>8, <1>9, <1>11, <1>13 DEF FreeCells
<1>18. /\ s.free \in Seq(Nat) /\ IsInjective(s.free) /\ Len(s.free) \in Nat
       /\ Range(s.free) = FreeCells(s.hdr)
       /\ i + 1 \in 1 .. Len(s.free) + 1 /\ i \in 1 .. Len(s.free) + 1
       /\ \A j \in 1 .. Len(s.free) : s.free[j] \in D
  BY <1>1, ListFacts
<1>19. u.free = InsertAt(s.free, i + 1, new)
  BY <1>2
<1>25. Places(u.free, s.free, i + 1, new)
  <2>1. s.free \in Seq(Nat) /\ i + 1 \in 1 .. Len(s.free) + 1 /\ new \in Nat
    BY <1>6, <1>18, Zenon
  <2>2. QED
    BY <2>1, <1>19, InsertAtPlaces, Zenon
<1>20. new \notin Range(s.free)
  BY <1>11, <1>18 DEF FreeCells
<1>21. GoodList(u)
  <2>1. u.free \in Seq(Nat)
    BY <1>25, Zenon DEF Places
  <2>2. Range(u.free) = Range(s.free) \cup {new} /\ IsInjective(u.free)
    BY <1>6, <1>18, <1>19, <1>20, InsertAtRange
  <2>3. QED
    BY <2>1, <2>2, <1>17, <1>18, Zenon DEF GoodList
<1>22. Len(u.free) = Len(s.free) + 1 /\ u.free[i] = c
  <2>1. i < i + 1 /\ i \in 1 .. Len(s.free) + 1
    BY <1>18
  <2>2. u.free[i] = s.free[i]
    BY <2>1, <1>25 DEF Places
  <2>3. QED
    BY <2>2, <1>25, Zenon DEF Places, c
<1>23. ASSUME Sorted(s.free) PROVE Sorted(u.free)
  <2>1. Fits(s.free, i + 1, new)
    <3> SUFFICES ASSUME NEW j \in 1 .. Len(s.free)
                 PROVE  IF j < i + 1 THEN s.free[j] < new ELSE new < s.free[j]
      BY DEF Fits
    <3>1. /\ j < i => s.free[j] < c
          /\ j > i => c < s.free[j]
          /\ j = i => s.free[j] = c
      BY <1>23, <1>18 DEF Sorted, c
    <3>2. /\ s.free[j] \in Nat
          /\ s.free[j] > c => e <= s.free[j]
      BY <1>10, <1>18
    <3>3. i \in Nat /\ j \in Nat
      OBVIOUS
    <3>4. CASE j < i + 1
      <4>1. s.free[j] <= c
        BY <3>1, <3>2, <3>3, <3>4, <1>3
      <4>2. s.free[j] < new
        BY <4>1, <3>2, <1>3, <1>6
      <4>3. QED
        BY <4>2, <3>4
    <3>5. CASE ~ (j < i + 1)
      <4>1. s.free[j] > c
        BY <3>1, <3>2, <3>3, <3>5, <1>3
      <4>2. new < s.free[j]
        BY <4>1, <3>2, <1>5, <1>6
      <4>3. QED
        BY <4>2, <3>5
    <3>6. QED
      BY <3>4, <3>5
  <2>2. QED
    BY <2>1, <1>6, <1>18, <1>19, <1>23, InsertAtSorted
<1>24. QED
  BY <1>8, <1>9, <1>11, <1>13, <1>14, <1>15, <1>16, <1>21, <1>22, <1>23, <1>3
  DEF GoodHeap, u, new, c, e
(* Cut or not, the cell stays where it was and is large enough.            *)
LEMMA CutGood ==
  ASSUME NEW s, NEW M, GoodMappings(M), GoodHeap(s, M),
         NEW i \in 1 .. Len(s.free), NEW p \in Nat, p > 0, Aligned(p),
         s.hdr[s.free[i]].size >= p
  PROVE  LET t == split_if_possible(s, i, p)
             c == s.free[i]
         IN  /\ GoodHeap(t, M)
             /\ i \in 1 .. Len(t.free) /\ t.free[i] = c
             /\ c \in DOMAIN t.hdr /\ ~t.hdr[c].allocated /\ t.hdr[c].size >= p
             /\ AllocCells(t.hdr) = AllocCells(s.hdr)
             /\ Frame(s, t)
             /\ Tidy(s) =>
                  /\ Sorted(t.free)
                  /\ \A a \in FreeCells(t.hdr) \ {c} : End(t, a) \notin FreeCells(t.hdr) \ {c}
<1> DEFINE t == split_if_possible(s, i, p)
           c == s.free[i]
           new == c + p + HeaderSize
<1>1. /\ GoodHeaders(s.hdr) /\ GoodTiling(s, M) /\ GoodList(s)
  BY DEF GoodHeap
<1>2. c \in DOMAIN s.hdr /\ ~s.hdr[c].allocated /\ c \in Nat
  BY <1>1, ListFacts
<1>3. CASE ~Splits(s, i, p)
  <2>1. t = s
    BY <1>3 DEF split_if_possible, Splits
  <2>2. Frame(s, s)
    BY DEF Frame
  <2>3. QED
    BY <2>1, <2>2, <1>2 DEF Tidy
<1>4. CASE Splits(s, i, p)
  <2>1. /\ GoodHeap(t, M)
        /\ DOMAIN t.hdr = DOMAIN s.hdr \cup {new} /\ new \notin DOMAIN s.hdr
        /\ \A a \in DOMAIN s.hdr : a # c => t.hdr[a] = s.hdr[a]
        /\ t.hdr[c].size = p /\ t.hdr[c].mark = s.hdr[c].mark
        /\ ~t.hdr[c].allocated /\ ~t.hdr[new].allocated /\ ~t.hdr[new].mark
        /\ End(t, new) = End(s, c)
        /\ Len(t.free) = Len(s.free) + 1 /\ t.free[i] = c
        /\ Sorted(s.free) => Sorted(t.free)
    BY <1>4, SplitGood, Zenon
  <2> HIDE DEF t, c
  <2>2. i \in 1 .. Len(t.free)
    BY <2>1, <1>1, ListFacts
  <2>3. AllocCells(t.hdr) = AllocCells(s.hdr)
    BY <2>1, <1>2 DEF AllocCells
  <2>4. Frame(s, t)
    <3>1. \A a \in AllocCells(s.hdr) \cap AllocCells(t.hdr) : t.hdr[a] = s.hdr[a]
      BY <2>1, <1>2 DEF AllocCells
    <3>2. \A a \in DOMAIN t.hdr : t.hdr[a].mark => a \in DOMAIN s.hdr /\ s.hdr[a].mark
      BY <2>1, <1>2
    <3>3. QED
      BY <3>1, <3>2 DEF Frame
  <2>5. ASSUME Tidy(s), NEW a \in FreeCells(t.hdr) \ {c}
        PROVE  End(t, a) \notin FreeCells(t.hdr) \ {c}
    <3>1. GoodHeaders(t.hdr) /\ GoodTiling(t, M)
      BY <2>1 DEF GoodHeap
    <3>2. /\ a \in DOMAIN t.hdr /\ ~t.hdr[a].allocated /\ a # c
          /\ new \in DOMAIN t.hdr /\ c \in DOMAIN t.hdr
      BY <2>1, <1>2 DEF FreeCells
    <3>3. FreeCells(t.hdr) \ {c} \subseteq (FreeCells(s.hdr) \ {c}) \cup {new}
      BY <2>1 DEF FreeCells
    <3>4. /\ new \in Nat /\ c < new /\ End(t, c) = new
          /\ End(t, new) > new /\ End(t, a) > a /\ a \in Nat
          /\ End(t, a) \in Nat /\ End(t, new) \in Nat
      <4>1. /\ End(t, new) > new /\ End(t, a) > a /\ a \in Nat /\ new \in Nat
            /\ End(t, a) \in Nat /\ End(t, new) \in Nat
        BY <3>1, <3>2, CellFacts
      <4>2. HeaderSize \in Nat /\ HeaderSize > 0
        BY UnitsType
      <4>3. End(t, c) = c + HeaderSize + p
        BY <2>1 DEF End
      <4>4. QED
        BY <4>1, <4>2, <4>3, <1>2
    <3>5. CASE a = new
      <4>1. End(s, c) \notin FreeCells(s.hdr)
        BY <1>2, <2>5 DEF Tidy, FreeCells
      <4>2. End(t, a) = End(s, c) /\ End(t, a) # new
        BY <3>4, <3>5, <2>1
      <4>3. QED
        BY <4>1, <4>2, <3>3
    <3>6. CASE a # new
      <4>1. a \in FreeCells(s.hdr) /\ End(t, a) = End(s, a)
        BY <3>2, <3>6, <2>1 DEF FreeCells, End
      <4>2. End(t, a) \notin FreeCells(s.hdr)
        BY <4>1, <2>5 DEF Tidy
      <4>3. End(t, a) # new
        <5>1. CASE a < c
          <6>1. End(t, a) <= c
            BY <5>1, <3>1, <3>2 DEF GoodTiling
          <6>2. QED
            BY <6>1, <3>4, <1>2
        <5>2. CASE c < a
          <6>1. End(t, c) <= a
            BY <5>2, <3>1, <3>2 DEF GoodTiling
          <6>2. QED
            BY <6>1, <3>4, <1>2
        <5>3. QED
          BY <5>1, <5>2, <3>2, <3>4, <1>2
      <4>4. QED
        BY <4>2, <4>3, <3>3
    <3>7. QED
      BY <3>5, <3>6
  <2>6. ASSUME Tidy(s) PROVE Sorted(t.free)
    BY <2>1, <2>6 DEF Tidy
  <2>7. t.hdr[c].size >= p /\ c \in DOMAIN t.hdr
    BY <2>1, <1>2
  <2>8. QED
    BY <2>1, <2>2, <2>3, <2>4, <2>5, <2>6, <2>7 DEF t, c
<1>5. QED
  BY <1>3, <1>4

(* A change of the bit "allocated" alone.                                  *)
Retags(s, t, c, b) == t.hdr = [s.hdr EXCEPT ![c].allocated = b]

(* Setting or clearing one bit "allocated" keeps headers and tiling.       *)
LEMMA RetagGood ==
  ASSUME NEW s, NEW t, NEW M, GoodHeaders(s.hdr), GoodTiling(s, M),
         NEW c \in DOMAIN s.hdr, NEW b \in BOOLEAN,
         Retags(s, t, c, b)
  PROVE  /\ GoodHeaders(t.hdr) /\ GoodTiling(t, M)
         /\ DOMAIN t.hdr = DOMAIN s.hdr
         /\ \A a \in DOMAIN s.hdr : a # c => t.hdr[a] = s.hdr[a]
         /\ t.hdr[c].allocated = b
         /\ \A a \in DOMAIN s.hdr :
              /\ t.hdr[a].size = s.hdr[a].size /\ t.hdr[a].mark = s.hdr[a].mark
              /\ End(t, a) = End(s, a)
<1>1. s.hdr \in [DOMAIN s.hdr -> Header] /\ s.hdr[c] \in Header
  BY DEF GoodHeaders
<1>2. /\ DOMAIN t.hdr = DOMAIN s.hdr
      /\ \A a \in DOMAIN s.hdr : a # c => t.hdr[a] = s.hdr[a]
      /\ t.hdr[c] = [s.hdr[c] EXCEPT !.allocated = b]
      /\ t.hdr = [a \in DOMAIN s.hdr |-> t.hdr[a]]
  BY <1>1 DEF Retags
<1>3. /\ t.hdr[c] \in Header /\ t.hdr[c].allocated = b
      /\ t.hdr[c].size = s.hdr[c].size /\ t.hdr[c].mark = s.hdr[c].mark
  BY <1>1, <1>2 DEF Header
<1>4. \A a \in DOMAIN s.hdr :
        t.hdr[a].size = s.hdr[a].size /\ t.hdr[a].mark = s.hdr[a].mark
  BY <1>2, <1>3, Zenon
<1>5. GoodHeaders(t.hdr)
  <2>1. \A a \in DOMAIN t.hdr :
          t.hdr[a] \in Header /\ Aligned(a) /\ Aligned(t.hdr[a].size)
    BY <1>2, <1>3, <1>4, Zenon DEF GoodHeaders
  <2>2. t.hdr \in [DOMAIN t.hdr -> Header]
    BY <2>1, <1>2
  <2>3. QED
    BY <2>1, <2>2, <1>2, Zenon DEF GoodHeaders
<1>6. SameShape(s, t)
  BY <1>2, <1>4, Zenon DEF SameShape
<1>7. GoodTiling(t, M) /\ \A a \in DOMAIN s.hdr : End(t, a) = End(s, a)
  BY <1>6, ShapeTiling
<1>8. QED
  BY <1>2, <1>3, <1>4, <1>5, <1>7, Zenon

(* allocate() from a free cell that is large enough.                       *)
LEMMA TakenGood ==
  ASSUME NEW s, NEW M, GoodMappings(M), GoodHeap(s, M),
         NEW i \in 1 .. Len(s.free), NEW p \in Nat, p > 0, Aligned(p),
         s.hdr[s.free[i]].size >= p
  PROVE  LET u == Taken(s, i, p)
             c == s.free[i]
         IN  /\ GoodHeap(u, M)
             /\ c \in DOMAIN s.hdr /\ c \notin AllocCells(s.hdr)
             /\ c \in DOMAIN u.hdr /\ u.hdr[c].size >= p
             /\ AllocCells(u.hdr) = AllocCells(s.hdr) \cup {c}
             /\ Frame(s, u)
             /\ Tidy(s) => Tidy(u)
<1> DEFINE t == split_if_possible(s, i, p)
           c == s.free[i]
           u == Taken(s, i, p)
<1>1. /\ GoodHeap(t, M)
      /\ i \in 1 .. Len(t.free) /\ t.free[i] = c
      /\ c \in DOMAIN t.hdr /\ ~t.hdr[c].allocated /\ t.hdr[c].size >= p
      /\ AllocCells(t.hdr) = AllocCells(s.hdr)
      /\ Frame(s, t)
      /\ Tidy(s) =>
           /\ Sorted(t.free)
           /\ \A a \in FreeCells(t.hdr) \ {c} : End(t, a) \notin FreeCells(t.hdr) \ {c}
  BY CutGood, Zenon
<1>2. /\ u.hdr = [t.hdr EXCEPT ![c].allocated = TRUE]
      /\ u.free = RemoveAt(t.free, i)
  BY DEF Taken
<1>3. c \in DOMAIN s.hdr /\ ~s.hdr[c].allocated
  BY ListFacts DEF GoodHeap
<1> HIDE DEF t, u, c
<1>4. GoodHeaders(t.hdr) /\ GoodTiling(t, M) /\ GoodList(t)
  BY <1>1 DEF GoodHeap
<1>5. /\ GoodHeaders(u.hdr) /\ GoodTiling(u, M)
      /\ DOMAIN u.hdr = DOMAIN t.hdr
      /\ \A a \in DOMAIN t.hdr : a # c => u.hdr[a] = t.hdr[a]
      /\ u.hdr[c].allocated
      /\ \A a \in DOMAIN t.hdr :
           /\ u.hdr[a].size = t.hdr[a].size /\ u.hdr[a].mark = t.hdr[a].mark
           /\ End(u, a) = End(t, a)
  <2>1. PICK b \in BOOLEAN : b = TRUE
    OBVIOUS
  <2>2. c \in DOMAIN t.hdr /\ Retags(t, u, c, b)
    BY <1>1, <1>2, <2>1 DEF Retags
  <2>3. /\ GoodHeaders(u.hdr) /\ GoodTiling(u, M)
        /\ DOMAIN u.hdr = DOMAIN t.hdr
        /\ \A a \in DOMAIN t.hdr : a # c => u.hdr[a] = t.hdr[a]
        /\ u.hdr[c].allocated = b
        /\ \A a \in DOMAIN t.hdr :
             /\ u.hdr[a].size = t.hdr[a].size /\ u.hdr[a].mark = t.hdr[a].mark
             /\ End(u, a) = End(t, a)
    BY <2>2, <1>4, RetagGood, ZenonT(40)
  <2>4. QED
    BY <2>1, <2>3
<1>6. /\ t.free \in Seq(Nat) /\ IsInjective(t.free) /\ Range(t.free) = FreeCells(t.hdr)
  BY <1>4 DEF GoodList
<1>7. FreeCells(u.hdr) = FreeCells(t.hdr) \ {c}
  BY <1>1, <1>5 DEF FreeCells
<1>8. AllocCells(u.hdr) = AllocCells(t.hdr) \cup {c}
  BY <1>1, <1>5 DEF AllocCells
<1>9. GoodList(u)
  <2>1. u.free \in Seq(Nat)
    BY <1>1, <1>2, <1>6, RemoveAtIs
  <2>2. Range(u.free) = Range(t.free) \ {c} /\ IsInjective(u.free)
    BY <1>1, <1>2, <1>6, RemoveAtRange
  <2>3. QED
    BY <2>1, <2>2, <1>6, <1>7, Zenon DEF GoodList
<1>10. Frame(s, u)
  <2>1. c \notin AllocCells(s.hdr) /\ c \notin AllocCells(t.hdr)
    BY <1>1, <1>3 DEF AllocCells
  <2>2. ASSUME NEW a \in AllocCells(s.hdr) PROVE u.hdr[a] = s.hdr[a]
    <3>1. a \in AllocCells(t.hdr) /\ a # c /\ a \in DOMAIN t.hdr
      BY <2>1, <1>1 DEF AllocCells
    <3>2. t.hdr[a] = s.hdr[a]
      BY <3>1, <1>1, <2>2 DEF Frame
    <3>3. QED
      BY <3>1, <3>2, <1>5
  <2>3. QED
    BY <2>2, <1>1, <1>5 DEF Frame
<1>11. ASSUME Tidy(s) PROVE Tidy(u)
  <2>1. Sorted(u.free)
    BY <1>1, <1>2, <1>6, <1>11, RemoveAtSorted
  <2>2. \A a \in FreeCells(u.hdr) : a \in DOMAIN t.hdr
    BY <1>5 DEF FreeCells
  <2>3. QED
    BY <2>1, <2>2, <1>1, <1>5, <1>7, <1>11 DEF Tidy
<1>12. QED
  BY <1>1, <1>3, <1>5, <1>8, <1>9, <1>10, <1>11 DEF GoodHeap, AllocCells, u, c
-----------------------------------------------------------------------------
(* coalesce_with_next(): the cell takes over the next one in the list, if  *)
(* that one begins where the cell ends.                                    *)
Joins(s, i) ==
  i \in 1 .. Len(s.free) - 1 /\ End(s, s.free[i]) = s.free[i + 1]

(* What joining the cell c and its neighbour n does to the heap s.         *)
JoinStep(s, t, M, c, n) ==
  /\ GoodHeap(t, M)
  /\ c \in FreeCells(s.hdr) /\ n \in FreeCells(s.hdr) /\ c < n
  /\ DOMAIN t.hdr = DOMAIN s.hdr \ {n}
  /\ FreeCells(t.hdr) = FreeCells(s.hdr) \ {n}
  /\ AllocCells(t.hdr) = AllocCells(s.hdr)
  /\ Frame(s, t)
  /\ End(t, c) = End(s, n)
  /\ \A a \in DOMAIN t.hdr : a # c => End(t, a) = End(s, a)
  /\ Sorted(s.free) => Sorted(t.free)

(* coalesce_with_next() joins the cell at i with the next one.             *)
LEMMA JoinGood ==
  ASSUME NEW s, NEW M, GoodMappings(M), GoodHeap(s, M), NEW i \in Nat, Joins(s, i)
  PROVE  JoinStep(s, coalesce_with_next(s, i), M, s.free[i], s.free[i + 1])
         /\ coalesce_with_next(s, i).free = RemoveAt(s.free, i + 1)
<1> DEFINE t == coalesce_with_next(s, i)
           c == s.free[i]
           n == s.free[i + 1]
           D == DOMAIN s.hdr
           big == [s.hdr[c] EXCEPT !.size = @ + HeaderSize + s.hdr[n].size]
<1>1. /\ GoodHeaders(s.hdr) /\ GoodTiling(s, M) /\ GoodList(s)
  BY DEF GoodHeap
<1>2. /\ i \in 1 .. Len(s.free) - 1 /\ End(s, c) = n
      /\ t.hdr = [b \in D \ {n} |-> IF b = c THEN big ELSE s.hdr[b]]
      /\ t.free = RemoveAt(s.free, i + 1)
  BY DEF Joins, coalesce_with_next
<1>3. /\ s.free \in Seq(Nat) /\ IsInjective(s.free) /\ Len(s.free) \in Nat
      /\ Range(s.free) = FreeCells(s.hdr)
  BY <1>1, ListFacts
<1>4. i \in 1 .. Len(s.free) /\ i + 1 \in 1 .. Len(s.free)
  BY <1>2, <1>3
<1>5. /\ c \in D /\ ~s.hdr[c].allocated /\ c \in FreeCells(s.hdr) /\ c \in Nat
      /\ n \in D /\ ~s.hdr[n].allocated /\ n \in FreeCells(s.hdr) /\ n \in Nat
  BY <1>1, <1>4, ListFacts
<1>6. /\ s.hdr[c] \in Header /\ s.hdr[c].size \in Nat /\ s.hdr[c].size > 0
      /\ Aligned(s.hdr[c].size) /\ n = c + HeaderSize + s.hdr[c].size /\ c < n
  BY <1>1, <1>2, <1>5, CellFacts
<1>7. /\ s.hdr[n] \in Header /\ s.hdr[n].size \in Nat /\ s.hdr[n].size > 0
      /\ Aligned(s.hdr[n].size) /\ End(s, n) \in Nat
      /\ End(s, n) = n + HeaderSize + s.hdr[n].size /\ End(s, n) > n
  BY <1>1, <1>5, CellFacts
<1>8. HeaderSize \in Nat /\ HeaderSize > 0 /\ Aligned(HeaderSize)
  BY UnitsType
<1>9. /\ big.size = s.hdr[c].size + HeaderSize + s.hdr[n].size
      /\ big.mark = s.hdr[c].mark /\ ~big.allocated /\ big \in Header
  <2> DEFINE x == s.hdr[c].size
             y == s.hdr[n].size
  <2>1. x \in Nat /\ x > 0 /\ y \in Nat /\ HeaderSize \in Nat
    BY <1>6, <1>7, <1>8
  <2> HIDE DEF x, y
  <2>2. x + HeaderSize + y \in Nat \ {0}
    BY <2>1
  <2>3. QED
    BY <2>2, <1>5, <1>6 DEF Header, x, y
<1>10. Aligned(big.size)
  <2> DEFINE x == s.hdr[c].size
             y == s.hdr[n].size
  <2>1. x \in Nat /\ y \in Nat /\ HeaderSize \in Nat
    BY <1>6, <1>7, <1>8
  <2>2. Aligned(x) /\ Aligned(y) /\ Aligned(HeaderSize)
    BY <1>6, <1>7, <1>8
  <2> HIDE DEF x, y
  <2>3. x \in Int /\ y \in Int /\ HeaderSize \in Int /\ x + HeaderSize \in Int
    BY <2>1
  <2>4. Aligned((x + HeaderSize) + y)
    BY <2>2, <2>3, AlignedSum, Zenon
  <2>5. QED
    BY <2>4, <1>9 DEF x, y
<1>11. ASSUME NEW a \in D
       PROVE  /\ a \in Nat /\ End(s, a) \in Nat /\ a < End(s, a)
              /\ a < c => End(s, a) <= c
              /\ a > c => n <= a
              /\ a > n => End(s, n) <= a
  <2>1. \A b \in D : a < b => End(s, a) <= b
    BY <1>1 DEF GoodTiling
  <2>2. \A b \in D : b < a => End(s, b) <= a
    BY <1>1 DEF GoodTiling
  <2>3. a \in Nat /\ End(s, a) \in Nat /\ a < End(s, a)
    BY <1>1, CellFacts
  <2>4. QED
    BY <2>1, <2>2, <2>3, <1>2, <1>5
<1> HIDE DEF t, c, n, big
<1>12. /\ DOMAIN t.hdr = D \ {n} /\ c \in D \ {n} /\ t.hdr[c] = big
       /\ \A a \in D \ {n} : a # c => t.hdr[a] = s.hdr[a]
  BY <1>2, <1>5, <1>6
<1>13. /\ End(t, c) = End(s, n)
       /\ \A a \in D \ {n} : a # c => End(t, a) = End(s, a)
  BY <1>5, <1>6, <1>7, <1>8, <1>9, <1>12, SMTT(30) DEF End
<1>14. GoodHeaders(t.hdr)
  <2>1. ASSUME NEW a \in D \ {n}
        PROVE  t.hdr[a] \in Header /\ a \in Nat /\ Aligned(a) /\ Aligned(t.hdr[a].size)
    <3>1. a \in Nat /\ Aligned(a) /\ s.hdr[a] \in Header /\ Aligned(s.hdr[a].size)
      BY <1>1, CellFacts
    <3>2. QED
      BY <3>1, <1>9, <1>10, <1>12, Zenon
  <2>2. t.hdr \in [D \ {n} -> Header]
    BY <2>1, <1>2
  <2>3. QED
    BY <2>1, <2>2, <1>12, Zenon DEF GoodHeaders
<1>15. PICK k \in M : Inside(c, k) /\ EndsWell(s, c, k)
  BY <1>1, <1>5 DEF GoodTiling
<1>16. Inside(n, k) /\ k.start < n
  <2>1. n < k.end
    BY <1>1, <1>2, <1>5, <1>15, CellEndsIn DEF c, n
  <2>2. k.start \in Nat
    BY MappingFacts
  <2>3. QED
    BY <2>1, <2>2, <1>5, <1>6, <1>15 DEF Inside
<1>17. GoodTiling(t, M)
  <2>1. ASSUME NEW m \in M PROVE m.start \in DOMAIN t.hdr
    <3>1. m.start \in D /\ m.start \in Nat /\ m.end \in Nat /\ m.start < m.end
          /\ k.start \in Nat
      BY <1>1, MappingFacts DEF GoodTiling
    <3>2. m.start # n
      <4> SUFFICES ASSUME m.start = n PROVE FALSE
        OBVIOUS
      <4>1. Inside(n, m)
        BY <3>1 DEF Inside
      <4>2. m = k
        BY <4>1, <1>5, <1>16, SameMapping
      <4>3. QED
        BY <4>2, <3>1, <1>5, <1>16
    <3>3. QED
      BY <3>1, <3>2, <1>12
  <2>2. ASSUME NEW a \in D \ {n} PROVE \E m \in M : Inside(a, m) /\ EndsWell(t, a, m)
    <3>1. CASE a = c
      <4>1. EndsWell(s, n, k)
        BY <1>1, <1>5, <1>16, CellEndsIn
      <4>2. End(s, n) # n
        BY <1>5, <1>7
      <4>3. EndsWell(t, c, k)
        BY <4>1, <4>2, <1>12, <1>13 DEF EndsWell
      <4>4. QED
        BY <4>3, <3>1, <1>15
    <3>2. CASE a # c
      <4>1. PICK m \in M : Inside(a, m) /\ EndsWell(s, a, m)
        BY <1>1 DEF GoodTiling
      <4>2. End(s, a) # n
        <5>1. a < c \/ c < a
          BY <3>2, <1>5, <1>11
        <5>2. QED
          BY <5>1, <1>5, <1>6, <1>11
      <4>3. EndsWell(t, a, m)
        BY <4>1, <4>2, <3>2, <1>12, <1>13 DEF EndsWell
      <4>4. QED
        BY <4>1, <4>3
    <3>3. QED
      BY <3>1, <3>2
  <2>3. ASSUME NEW a \in D \ {n}, NEW b \in D \ {n}, a < b PROVE End(t, a) <= b
    <3>1. CASE a = c
      <4>1. b \in Nat /\ (b > c => n <= b) /\ (b > n => End(s, n) <= b)
        BY <1>11
      <4>2. b > c /\ b # n
        BY <2>3, <3>1
      <4>3. End(s, n) <= b
        BY <4>1, <4>2, <1>5
      <4>4. QED
        BY <4>3, <3>1, <1>13
    <3>2. CASE a # c
      BY <3>2, <2>3, <1>1, <1>13 DEF GoodTiling
    <3>3. QED
      BY <3>1, <3>2
  <2>4. QED
    BY <2>1, <2>2, <2>3, <1>12, Zenon DEF GoodTiling
<1>18. /\ FreeCells(t.hdr) = FreeCells(s.hdr) \ {n}
       /\ AllocCells(t.hdr) = AllocCells(s.hdr)
  BY <1>5, <1>9, <1>12 DEF FreeCells, AllocCells
<1>19. GoodList(t)
  <2>1. t.free \in Seq(Nat)
    BY <1>2, <1>3, <1>4, RemoveAtIs
  <2>2. Range(t.free) = Range(s.free) \ {n} /\ IsInjective(t.free)
    BY <1>2, <1>3, <1>4, RemoveAtRange DEF n
  <2>3. QED
    BY <2>1, <2>2, <1>3, <1>18, Zenon DEF GoodList
<1>20. Frame(s, t)
  <2>1. c \notin AllocCells(s.hdr)
    BY <1>5 DEF AllocCells
  <2>2. QED
    BY <2>1, <1>9, <1>12 DEF Frame, AllocCells
<1>21. Sorted(s.free) => Sorted(t.free)
  BY <1>2, <1>3, <1>4, RemoveAtSorted
<1>22. QED
  BY <1>2, <1>5, <1>6, <1>12, <1>13, <1>14, <1>17, <1>18, <1>19, <1>20, <1>21
  DEF GoodHeap, JoinStep, t, c, n

(* Two steps that keep the other cells keep them together.                 *)
LEMMA FrameTransitive ==
  ASSUME NEW s, NEW t, NEW u, Frame(s, t), Frame(t, u),
         AllocCells(u.hdr) \subseteq AllocCells(t.hdr)
  PROVE  Frame(s, u)
BY DEF Frame

(* In a sorted list the cell an entry ends at can only be the next entry.  *)
LEMMA NextInList ==
  ASSUME NEW s, NEW M, GoodHeap(s, M), Sorted(s.free), NEW i \in 1 .. Len(s.free),
         End(s, s.free[i]) \in FreeCells(s.hdr)
  PROVE  Joins(s, i)
<1> DEFINE c == s.free[i]
           e == End(s, c)
<1>1. /\ GoodHeaders(s.hdr) /\ GoodTiling(s, M) /\ GoodList(s)
  BY DEF GoodHeap
<1>2. c \in DOMAIN s.hdr /\ c \in Nat
  BY <1>1, ListFacts
<1>3. e \in Nat /\ c < e
  BY <1>1, <1>2, CellFacts
<1>4. PICK k \in 1 .. Len(s.free) : s.free[k] = e
  <2>1. e \in Range(s.free) /\ DOMAIN s.free = 1 .. Len(s.free)
    BY <1>1, ListFacts
  <2>2. QED
    BY <2>1 DEF Range
<1>5. Len(s.free) \in Nat
  BY <1>1, ListFacts
<1>6. k > i
  <2>1. k < i => s.free[k] < c
    BY DEF Sorted
  <2>2. k = i => s.free[k] = c
    OBVIOUS
  <2>3. QED
    BY <2>1, <2>2, <1>2, <1>3, <1>4
<1>7. k = i + 1
  <2> SUFFICES ASSUME k > i + 1 PROVE FALSE
    BY <1>6
  <2>1. i + 1 \in 1 .. Len(s.free)
    BY <1>5
  <2>2. s.free[i] < s.free[i + 1] /\ s.free[i + 1] < s.free[k]
    BY <2>1 DEF Sorted
  <2>3. s.free[i + 1] \in DOMAIN s.hdr /\ s.free[i + 1] \in Nat
    BY <2>1, <1>1, ListFacts
  <2>4. e <= s.free[i + 1]
    BY <2>2, <2>3, <1>1, <1>2 DEF GoodTiling
  <2>5. QED
    BY <2>2, <2>3, <2>4, <1>3, <1>4
<1>8. QED
  BY <1>4, <1>5, <1>7 DEF Joins
-----------------------------------------------------------------------------
(* deallocate(): the cell goes into the list, then takes over its right    *)
(* neighbour, then its left neighbour takes over it.                       *)
Listed(s, cell) ==
  [hdr  |-> [s.hdr EXCEPT ![cell].allocated = FALSE],
   free |-> InsertAt(s.free, InsertionPoint(s, cell), cell)]

(* The cell is back in the list and nothing else has changed.              *)
LEMMA ListedGood ==
  ASSUME NEW s, NEW M, GoodHeap(s, M), NEW c \in AllocCells(s.hdr)
  PROVE  LET t == Listed(s, c)
             i == InsertionPoint(s, c)
         IN  /\ GoodHeap(t, M)
             /\ i \in 1 .. Len(t.free) /\ t.free[i] = c
             /\ DOMAIN t.hdr = DOMAIN s.hdr
             /\ FreeCells(t.hdr) = FreeCells(s.hdr) \cup {c}
             /\ AllocCells(t.hdr) = AllocCells(s.hdr) \ {c}
             /\ Frame(s, t)
             /\ \A a \in DOMAIN s.hdr : End(t, a) = End(s, a)
             /\ Sorted(s.free) => Sorted(t.free)
<1> DEFINE t == Listed(s, c)
           i == InsertionPoint(s, c)
<1>1. /\ GoodHeaders(s.hdr) /\ GoodTiling(s, M) /\ GoodList(s)
  BY DEF GoodHeap
<1>2. c \in DOMAIN s.hdr /\ s.hdr[c].allocated /\ c \in Nat
  BY <1>1, CellFacts DEF AllocCells
<1>3. /\ s.free \in Seq(Nat) /\ IsInjective(s.free) /\ Len(s.free) \in Nat
      /\ DOMAIN s.free = 1 .. Len(s.free)
      /\ Range(s.free) = FreeCells(s.hdr)
  BY <1>1, ListFacts
<1>4. /\ i \in 1 .. Len(s.free) + 1
      /\ \A j \in 1 .. Len(s.free) : j < i => s.free[j] < c
      /\ i <= Len(s.free) => s.free[i] >= c
  BY <1>2, <1>3, InsertionPointIs, Zenon
<1>5. /\ t.free = InsertAt(s.free, i, c)
      /\ t.hdr = [s.hdr EXCEPT ![c].allocated = FALSE]
  BY DEF Listed
<1> HIDE DEF t, i
<1>6. Places(t.free, s.free, i, c)
  <2>1. s.free \in Seq(Nat) /\ i \in 1 .. Len(s.free) + 1 /\ c \in Nat
    BY <1>2, <1>3, <1>4
  <2>2. QED
    BY <2>1, <1>5, InsertAtPlaces, Zenon
<1>7. c \notin Range(s.free)
  BY <1>2, <1>3 DEF FreeCells
<1>8. /\ GoodHeaders(t.hdr) /\ GoodTiling(t, M)
      /\ DOMAIN t.hdr = DOMAIN s.hdr
      /\ \A a \in DOMAIN s.hdr : a # c => t.hdr[a] = s.hdr[a]
      /\ ~t.hdr[c].allocated
      /\ \A a \in DOMAIN s.hdr :
           /\ t.hdr[a].size = s.hdr[a].size /\ t.hdr[a].mark = s.hdr[a].mark
           /\ End(t, a) = End(s, a)
  <2>1. PICK b \in BOOLEAN : b = FALSE
    OBVIOUS
  <2>2. c \in DOMAIN s.hdr /\ Retags(s, t, c, b)
    BY <1>2, <1>5, <2>1 DEF Retags
  <2>3. /\ GoodHeaders(t.hdr) /\ GoodTiling(t, M)
        /\ DOMAIN t.hdr = DOMAIN s.hdr
        /\ \A a \in DOMAIN s.hdr : a # c => t.hdr[a] = s.hdr[a]
        /\ t.hdr[c].allocated = b
        /\ \A a \in DOMAIN s.hdr :
             /\ t.hdr[a].size = s.hdr[a].size /\ t.hdr[a].mark = s.hdr[a].mark
             /\ End(t, a) = End(s, a)
    BY <2>2, <1>1, RetagGood, ZenonT(40)
  <2>4. QED
    BY <2>1, <2>3
<1>9. /\ FreeCells(t.hdr) = FreeCells(s.hdr) \cup {c}
      /\ AllocCells(t.hdr) = AllocCells(s.hdr) \ {c}
  BY <1>2, <1>8 DEF FreeCells, AllocCells
<1>10. GoodList(t)
  <2>1. t.free \in Seq(Nat)
    BY <1>6 DEF Places
  <2>2. Range(t.free) = Range(s.free) \cup {c} /\ IsInjective(t.free)
    <3>1. s.free \in Seq(Nat) /\ IsInjective(s.free) /\ i \in 1 .. Len(s.free) + 1
      BY <1>3, <1>4
    <3>2. QED
      BY <3>1, <1>2, <1>5, <1>7, InsertAtRange
  <2>3. QED
    BY <2>1, <2>2, <1>3, <1>9, Zenon DEF GoodList
<1>11. i \in 1 .. Len(t.free) /\ t.free[i] = c
  <2>1. Len(t.free) = Len(s.free) + 1
    BY <1>6 DEF Places
  <2>2. t.free[i] = IF i < i THEN s.free[i] ELSE IF i = i THEN c ELSE s.free[i - 1]
    BY <1>4, <1>6, Zenon DEF Places
  <2>3. QED
    BY <2>1, <2>2, <1>3, <1>4
<1>12. Frame(s, t)
  BY <1>8, <1>9 DEF Frame, AllocCells
<1>13. ASSUME Sorted(s.free) PROVE Sorted(t.free)
  <2>1. Fits(s.free, i, c)
    <3> SUFFICES ASSUME NEW j \in 1 .. Len(s.free)
                 PROVE  IF j < i THEN s.free[j] < c ELSE c < s.free[j]
      BY DEF Fits
    <3>1. s.free[j] # c /\ s.free[j] \in Nat /\ i \in Nat /\ j \in Nat
      BY <1>3, <1>4, <1>7, ElementOfSeq, SMTT(30) DEF Range
    <3>2. CASE j < i
      BY <3>2, <1>4
    <3>3. CASE j = i
      BY <3>1, <3>3, <1>2, <1>4
    <3>4. CASE j > i
      <4>1. i \in 1 .. Len(s.free) /\ s.free[i] >= c
        BY <3>4, <1>3, <1>4
      <4>2. s.free[i] < s.free[j] /\ s.free[i] \in Nat
        BY <4>1, <3>4, <1>3, <1>13, ElementOfSeq DEF Sorted
      <4>3. QED
        BY <4>1, <4>2, <3>1, <3>4, <1>2
    <3>5. QED
      BY <3>1, <3>2, <3>3, <3>4
  <2>2. QED
    BY <2>1, <1>2, <1>3, <1>4, <1>5, <1>13, InsertAtSorted, ZenonT(40)
<1>14. QED
  BY <1>8, <1>9, <1>10, <1>11, <1>12, <1>13 DEF GoodHeap, t, i

(* Now the cell has taken over its right neighbour, if that one is free.   *)
LEMMA InsertedGood ==
  ASSUME NEW s, NEW M, GoodMappings(M), GoodHeap(s, M), NEW c \in AllocCells(s.hdr)
  PROVE  LET v == Inserted(s, c)
             i == InsertionPoint(s, c)
         IN  /\ GoodHeap(v, M)
             /\ i \in 1 .. Len(v.free) /\ v.free[i] = c
             /\ c \in FreeCells(v.hdr)
             /\ DOMAIN v.hdr \subseteq DOMAIN s.hdr
             /\ AllocCells(v.hdr) = AllocCells(s.hdr) \ {c}
             /\ Frame(s, v)
             /\ Tidy(s) => /\ Sorted(v.free)
                           /\ End(v, c) \notin FreeCells(v.hdr)
                           /\ \A a \in FreeCells(v.hdr) \ {c} :
                                End(v, a) \notin FreeCells(v.hdr) \ {c}
<1> DEFINE t == Listed(s, c)
           i == InsertionPoint(s, c)
           v == Inserted(s, c)
           n == t.free[i + 1]
<1>1. /\ GoodHeap(t, M)
      /\ i \in 1 .. Len(t.free) /\ t.free[i] = c
      /\ DOMAIN t.hdr = DOMAIN s.hdr
      /\ FreeCells(t.hdr) = FreeCells(s.hdr) \cup {c}
      /\ AllocCells(t.hdr) = AllocCells(s.hdr) \ {c}
      /\ Frame(s, t)
      /\ \A a \in DOMAIN s.hdr : End(t, a) = End(s, a)
      /\ Sorted(s.free) => Sorted(t.free)
  BY ListedGood, Zenon
<1>2. v = coalesce_with_next(t, i)
  BY DEF Inserted, Listed
<1>3. FreeCells(s.hdr) \subseteq DOMAIN s.hdr /\ FreeCells(t.hdr) \subseteq DOMAIN t.hdr
  BY DEF FreeCells
<1> HIDE DEF t, i, v
<1>4. ASSUME Tidy(s), NEW a \in FreeCells(t.hdr) \ {c}
      PROVE  End(t, a) \notin FreeCells(t.hdr) \ {c}
  <2>1. a \in FreeCells(s.hdr) /\ End(t, a) = End(s, a)
    BY <1>1, <1>3
  <2>2. QED
    BY <2>1, <1>1, <1>4 DEF Tidy
<1>5. CASE ~Joins(t, i)
  <2>1. v = t
    BY <1>2, <1>5 DEF coalesce_with_next, Joins
  <2>2. ASSUME Tidy(s) PROVE End(t, c) \notin FreeCells(t.hdr)
    BY <2>2, <1>1, <1>5, NextInList DEF Tidy
  <2>3. Tidy(s) => Sorted(t.free)
    BY <1>1 DEF Tidy
  <2>4. QED
    BY <2>1, <2>2, <2>3, <1>1, <1>4 DEF v, i
<1>6. CASE Joins(t, i)
  <2>1. i \in Nat
    BY <1>1
  <2>2. /\ GoodHeap(v, M)
        /\ c \in FreeCells(t.hdr) /\ n \in FreeCells(t.hdr) /\ c < n
        /\ DOMAIN v.hdr = DOMAIN t.hdr \ {n}
        /\ FreeCells(v.hdr) = FreeCells(t.hdr) \ {n}
        /\ AllocCells(v.hdr) = AllocCells(t.hdr)
        /\ Frame(t, v)
        /\ End(v, c) = End(t, n)
        /\ \A a \in DOMAIN v.hdr : a # c => End(v, a) = End(t, a)
        /\ v.free = RemoveAt(t.free, i + 1)
        /\ Sorted(t.free) => Sorted(v.free)
    <3>1. GoodHeap(t, M)
      BY <1>1
    <3>2. JoinStep(t, v, M, t.free[i], n) /\ v.free = RemoveAt(t.free, i + 1)
      BY <2>1, <3>1, <1>2, <1>6, JoinGood
    <3>3. QED
      BY <3>2, <1>1, Zenon DEF JoinStep
  <2> HIDE DEF n
  <2>3. c # n
    <3>1. c \in Nat /\ n \in Nat
      BY <2>2, <1>1, <1>3, CellFacts DEF GoodHeap
    <3>2. QED
      BY <3>1, <2>2
  <2>4. i \in 1 .. Len(v.free) /\ v.free[i] = c
    <3>1. t.free \in Seq(Nat) /\ Len(t.free) \in Nat
      BY <1>1, ListFacts DEF GoodHeap
    <3>2. i + 1 \in 1 .. Len(t.free)
      BY <3>1, <1>6 DEF Joins
    <3>3. /\ Len(v.free) = Len(t.free) - 1
          /\ \A j \in 1 .. Len(t.free) - 1 :
               v.free[j] = IF j < i + 1 THEN t.free[j] ELSE t.free[j + 1]
      <4>1. v.free = RemoveAt(t.free, i + 1)
        BY <2>2
      <4>2. QED
        BY <4>1, <3>1, <3>2, RemoveAtIs
    <3>4. QED
      BY <3>1, <3>2, <3>3, <1>1
  <2>5. Frame(s, v)
    BY <2>2, <1>1, FrameTransitive
  <2>6. c \in FreeCells(v.hdr)
    BY <2>2, <2>3
  <2>7. ASSUME Tidy(s) PROVE End(v, c) \notin FreeCells(v.hdr)
    <3>1. End(t, n) \notin FreeCells(t.hdr) \ {c}
      BY <2>2, <2>3, <2>7, <1>4
    <3>2. End(t, n) > n /\ End(t, n) \in Nat /\ n \in Nat /\ c \in Nat
      BY <2>2, <1>1, <1>3, CellFacts DEF GoodHeap
    <3>3. End(t, n) # c
      BY <3>2, <2>2
    <3>4. QED
      BY <3>1, <3>3, <2>2
  <2>8. ASSUME Tidy(s), NEW a \in FreeCells(v.hdr) \ {c}
        PROVE  End(v, a) \notin FreeCells(v.hdr) \ {c}
    <3>1. a \in DOMAIN v.hdr /\ a \in FreeCells(t.hdr) \ {c}
      BY <2>2, <2>8 DEF FreeCells
    <3>2. End(v, a) = End(t, a)
      BY <3>1, <2>2
    <3>3. QED
      BY <3>1, <3>2, <2>2, <2>8, <1>4
  <2>9. Tidy(s) => Sorted(v.free)
    BY <2>2, <1>1 DEF Tidy
  <2>10. DOMAIN v.hdr \subseteq DOMAIN s.hdr /\ AllocCells(v.hdr) = AllocCells(s.hdr) \ {c}
    BY <2>2, <1>1
  <2>11. QED
    BY <2>2, <2>4, <2>5, <2>6, <2>7, <2>8, <2>9, <2>10 DEF v, i
<1>7. QED
  BY <1>5, <1>6

(* deallocate() ends with a good heap, and with a tidy one if it was tidy. *)
LEMMA ReleasedGood ==
  ASSUME NEW s, NEW M, GoodMappings(M), GoodHeap(s, M), NEW c \in AllocCells(s.hdr)
  PROVE  LET w == Released(s, c)
             v == Inserted(s, c)
         IN  /\ GoodHeap(w, M)
             /\ DOMAIN v.hdr \ {c} \subseteq DOMAIN w.hdr
             /\ DOMAIN w.hdr \subseteq DOMAIN v.hdr
             /\ AllocCells(w.hdr) = AllocCells(s.hdr) \ {c}
             /\ Frame(s, w)
             /\ Tidy(s) => Tidy(w)
<1> DEFINE i == InsertionPoint(s, c)
           v == Inserted(s, c)
           w == Released(s, c)
           j == i - 1
           l == v.free[j]
<1>1. /\ GoodHeap(v, M)
      /\ i \in 1 .. Len(v.free) /\ v.free[i] = c
      /\ c \in FreeCells(v.hdr)
      /\ DOMAIN v.hdr \subseteq DOMAIN s.hdr
      /\ AllocCells(v.hdr) = AllocCells(s.hdr) \ {c}
      /\ Frame(s, v)
      /\ Tidy(s) => /\ Sorted(v.free)
                    /\ End(v, c) \notin FreeCells(v.hdr)
                    /\ \A a \in FreeCells(v.hdr) \ {c} :
                         End(v, a) \notin FreeCells(v.hdr) \ {c}
  BY InsertedGood, Zenon
<1>2. w = coalesce_with_next(v, j)
  BY DEF Released
<1>3. j \in Nat /\ j + 1 = i
  BY <1>1
<1> HIDE DEF i, v, w, j
<1>4. CASE ~Joins(v, j)
  <2>1. w = v
    BY <1>2, <1>4 DEF coalesce_with_next, Joins
  <2>2. ASSUME Tidy(s), NEW a \in FreeCells(v.hdr) PROVE End(v, a) \notin FreeCells(v.hdr)
    <3>1. CASE a = c
      BY <3>1, <2>2, <1>1
    <3>2. CASE a # c
      <4> SUFFICES ASSUME End(v, a) \in FreeCells(v.hdr) PROVE FALSE
        OBVIOUS
      <4>1. End(v, a) = c
        BY <3>2, <2>2, <1>1
      <4>2. GoodList(v)
        BY <1>1 DEF GoodHeap
      <4>3. PICK k \in 1 .. Len(v.free) : v.free[k] = a
        <5>1. a \in Range(v.free) /\ DOMAIN v.free = 1 .. Len(v.free)
          BY <2>2, <4>2, ListFacts
        <5>2. QED
          BY <5>1 DEF Range
      <4>4. Joins(v, k)
        BY <2>2, <4>3, <1>1, NextInList
      <4>5. v.free[k + 1] = v.free[i] /\ k + 1 \in DOMAIN v.free /\ i \in DOMAIN v.free
        <5>1. k + 1 \in 1 .. Len(v.free) /\ v.free[k + 1] = c
          BY <4>1, <4>3, <4>4 DEF Joins
        <5>2. DOMAIN v.free = 1 .. Len(v.free)
          BY <4>2, ListFacts
        <5>3. QED
          BY <5>1, <5>2, <1>1
      <4>6. k + 1 = i
        BY <4>5, <4>2 DEF GoodList, IsInjective
      <4>7. k = j
        BY <4>6, <1>3
      <4>8. QED
        BY <4>4, <4>7, <1>4
    <3>3. QED
      BY <3>1, <3>2
  <2>3. Tidy(s) => Tidy(v)
    BY <2>2, <1>1 DEF Tidy
  <2>4. QED
    BY <2>1, <2>3, <1>1 DEF v, w
<1>5. CASE Joins(v, j)
  <2>1. /\ GoodHeap(w, M)
        /\ l \in FreeCells(v.hdr) /\ v.free[j + 1] \in FreeCells(v.hdr)
        /\ DOMAIN w.hdr = DOMAIN v.hdr \ {v.free[j + 1]}
        /\ FreeCells(w.hdr) = FreeCells(v.hdr) \ {v.free[j + 1]}
        /\ AllocCells(w.hdr) = AllocCells(v.hdr)
        /\ Frame(v, w)
        /\ End(w, l) = End(v, v.free[j + 1])
        /\ \A a \in DOMAIN w.hdr : a # l => End(w, a) = End(v, a)
        /\ Sorted(v.free) => Sorted(w.free)
    <3>1. GoodHeap(v, M) /\ j \in Nat
      BY <1>1, <1>3
    <3>2. JoinStep(v, w, M, l, v.free[j + 1])
      BY <3>1, <1>2, <1>5, JoinGood
    <3>3. QED
      BY <3>2, Zenon DEF JoinStep
  <2>2. v.free[j + 1] = c
    BY <1>1, <1>3
  <2>3. Frame(s, w)
    BY <2>1, <1>1, FrameTransitive
  <2>4. ASSUME Tidy(s) PROVE Tidy(w)
    <3>1. ASSUME NEW a \in FreeCells(w.hdr) PROVE End(w, a) \notin FreeCells(w.hdr)
      <4>1. a \in DOMAIN w.hdr /\ a \in FreeCells(v.hdr) \ {c}
        BY <2>1, <2>2, <3>1 DEF FreeCells
      <4>2. QED
        BY <4>1, <2>1, <2>2, <2>4, <1>1
    <3>2. QED
      BY <3>1, <2>1, <2>4, <1>1 DEF Tidy
  <2>5. QED
    BY <2>1, <2>2, <2>3, <2>4, <1>1 DEF v, w
<1>6. QED
  BY <1>4, <1>5
=============================================================================
