---------------------- MODULE FreeListAllocatorProofs -----------------------
(***************************************************************************)
(* The inductive invariant of the large-object allocator, its theorems and *)
(* the proof that it implements BlockAllocator.                            *)
(*                                                                         *)
(* The invariant says that the heap is good, that the one mapping in the   *)
(* list is the one a sweep walks, and where in that mapping mark bits are  *)
(* still set: the walk clears them behind itself and gives back the cells  *)
(* that have none.                                                         *)
(***************************************************************************)
EXTENDS FreeListAllocatorLemmas

(* The heap is good, and tidy where mappings come at falling addresses.    *)
HeapInv == HeapOK(Heap, maps)

(* map_head holds one mapping at most: the next one drops the rest. A      *)
(* sweep walks that one, and what was marked live stays in use.            *)
StateInv ==
  /\ listed \in Seq(maps) /\ Len(listed) <= 1
  /\ todo \in {listed, <<>>}
  /\ pc \in {"mutator", "sweep", "swept"}
  /\ pc # "sweep" => todo = <<>>
  /\ pc = "mutator" => live = {}
  /\ live \subseteq Allocated

(* The cell lies in the mapping the sweep walks.                           *)
InWalk(a) == listed # <<>> /\ Inside(a, listed[1])

(* Between collections no cell of that mapping is marked.  In a sweep the  *)
(* cells behind the walk are unmarked and, if in use, live; the marks of   *)
(* the others are as the marker left them.                                 *)
MarksInv ==
  \A a \in Cells : InWalk(a) =>
    IF pc = "mutator" THEN ~hdr[a].mark
    ELSE IF todo = <<>> \/ a < cur
      THEN ~hdr[a].mark /\ (hdr[a].allocated => a \in live)
      ELSE hdr[a].mark <=> (hdr[a].allocated /\ a \in live)

(* The walk stands on a cell of its mapping or at its end.                 *)
WalkInv ==
  /\ cur \in Address
  /\ pc = "sweep" /\ todo # <<>> =>
       cur = todo[1].end \/ (cur \in Cells /\ Inside(cur, todo[1]))

(* The inductive invariant.                                                *)
Inv == HeapInv /\ StateInv /\ MarksInv /\ WalkInv
-----------------------------------------------------------------------------
(* What allocate() asks for and what extend() gives.                       *)
LEMMA NeededFacts ==
  ASSUME NEW size \in Nat
  PROVE  /\ Needed(size) \in Nat /\ Needed(size) > 0 /\ Aligned(Needed(size))
         /\ Needed(size) >= size
<1> DEFINE z == IF size < MIN_ALLOCATION_SIZE THEN MIN_ALLOCATION_SIZE ELSE size
<1>1. z \in Nat /\ z > 0 /\ z >= size
  BY UnitsType
<1>2. Needed(size) = align_up(z)
  BY DEF Needed
<1> HIDE DEF z
<1>3. align_up(z) \in Nat /\ Aligned(align_up(z)) /\ z <= align_up(z)
  BY <1>1, AlignUp
<1>4. QED
  BY <1>1, <1>2, <1>3

(* A mapping that extend() makes keeps clear of the others and has room    *)
(* for the request that called for it.                                     *)
LEMMA NewMapping ==
  ASSUME GoodMappings(maps), NEW size \in Nat,
         NEW p \in Placements(PagesFor(size + HeaderSize))
  PROVE  LET m == Mapping(p, PagesFor(size + HeaderSize))
         IN  /\ GoodMappings(maps \cup {m}) /\ m \notin maps
             /\ m.end - m.start - HeaderSize \in Nat
             /\ m.end - m.start - HeaderSize >= Needed(size)
             /\ TopDown => \A k \in maps : Apart(m, k)
<1> DEFINE n == PagesFor(size + HeaderSize)
           m == Mapping(p, n)
           lo == p * PAGE_SIZE
           hi == (p + n) * PAGE_SIZE
           top == Pages * PAGE_SIZE
           len == n * PAGE_SIZE
<1>1. /\ HeaderSize \in Nat /\ HeaderSize > 0 /\ Aligned(HeaderSize)
      /\ MapHeaderSize \in Nat /\ MapHeaderSize > 0 /\ Aligned(MapHeaderSize)
      /\ PAGE_SIZE \in Nat /\ PAGE_SIZE > 0
      /\ MIN_ALLOCATION_SIZE \in Nat /\ Pages \in Nat
      /\ MapHeaderSize + HeaderSize + MIN_ALLOCATION_SIZE <= PAGE_SIZE
  BY UnitsType
<1>2. /\ n \in Nat /\ n >= 1 /\ len >= size + HeaderSize + MapHeaderSize
      /\ len >= PAGE_SIZE
  <2>1. size + HeaderSize \in Nat
    BY <1>1
  <2>2. QED
    BY <2>1, PagesEnough
<1>3. /\ p \in 0 .. Pages - n
      /\ \A k \in maps : \/ hi <= k.start - align_up(MapHeaderSize)
                         \/ ~TopDown /\ lo >= k.end
  BY DEF Placements
<1>4. p \in Nat /\ p + n <= Pages /\ p + n \in Nat
  BY <1>1, <1>2, <1>3
<1>5. /\ lo \in Int /\ hi \in Int /\ len \in Int /\ top \in Int
      /\ Aligned(lo) /\ Aligned(hi) /\ Aligned(len)
  BY <1>1, <1>2, <1>4, PageMultiple
<1>6. lo >= 0 /\ hi = lo + len /\ hi <= top
  <2>1. lo >= 0
    BY <1>1, <1>4
  <2>2. hi = lo + len
    BY <1>1, <1>2, <1>4
  <2>3. top = hi + (Pages - (p + n)) * PAGE_SIZE
    BY <1>1, <1>2, <1>4
  <2>4. (Pages - (p + n)) * PAGE_SIZE >= 0
    BY <1>1, <1>2, <1>4
  <2>5. QED
    BY <2>1, <2>2, <2>3, <2>4, <1>5, <1>1, <1>4
<1>7. m = [start |-> lo + MapHeaderSize, end |-> hi]
  BY MapHeaderAligned DEF Mapping
<1>8. Aligned(lo + MapHeaderSize)
  <2>1. lo \in Int /\ MapHeaderSize \in Int
    BY <1>1, <1>5
  <2>2. QED
    BY <2>1, <1>1, <1>5, AlignedSum, Zenon
<1> HIDE DEF n, m, lo, hi, top, len
<1>9. /\ m \in [start : Nat, end : Nat]
      /\ m.start = lo + MapHeaderSize /\ m.end = hi
      /\ Aligned(m.start) /\ Aligned(m.end)
      /\ m.start < m.end /\ m.end <= Pages * PAGE_SIZE
  <2>1. /\ lo + MapHeaderSize \in Nat /\ hi \in Nat
        /\ lo + MapHeaderSize < hi /\ hi <= top
    BY <1>1, <1>2, <1>5, <1>6
  <2>2. QED
    BY <2>1, <1>5, <1>7, <1>8 DEF top
<1>10. ASSUME NEW k \in maps
       PROVE  /\ Apart(m, k) \/ Apart(k, m)
              /\ TopDown => Apart(m, k)
              /\ k # m
  <2>1. k.start \in Nat /\ k.end \in Nat /\ k.start < k.end
    BY MappingFacts
  <2>2. hi <= k.start - MapHeaderSize \/ (~TopDown /\ lo >= k.end)
    BY <1>3, MapHeaderAligned
  <2>3. CASE hi <= k.start - MapHeaderSize
    <3>1. Apart(m, k)
      BY <2>1, <2>3, <1>1, <1>5, <1>9 DEF Apart
    <3>2. k.start > hi /\ m.start < hi
      BY <2>1, <2>3, <1>1, <1>5, <1>9
    <3>3. QED
      BY <3>1, <3>2, <2>1, <1>5, <1>9
  <2>4. CASE ~TopDown /\ lo >= k.end
    <3>1. Apart(k, m)
      BY <2>1, <2>4, <1>1, <1>5, <1>9 DEF Apart
    <3>2. k.start < lo /\ m.start > lo
      BY <2>1, <2>4, <1>1, <1>5, <1>9
    <3>3. QED
      BY <3>1, <3>2, <2>1, <2>4, <1>5, <1>9
  <2>5. QED
    BY <2>2, <2>3, <2>4
<1>11. GoodMappings(maps \cup {m})
  <2>1. maps \cup {m} \subseteq [start : Nat, end : Nat]
    BY <1>9 DEF GoodMappings
  <2>2. \A k \in maps \cup {m} : /\ Aligned(k.start) /\ Aligned(k.end)
                                 /\ k.start < k.end /\ k.end <= Pages * PAGE_SIZE
    BY <1>9, Zenon DEF GoodMappings
  <2>3. \A k, l \in maps \cup {m} : k = l \/ Apart(k, l) \/ Apart(l, k)
    BY <1>10, Zenon DEF GoodMappings
  <2>4. QED
    BY <2>1, <2>2, <2>3, Zenon DEF GoodMappings
<1> DEFINE r == m.end - m.start - HeaderSize
<1>12. r \in Nat /\ r >= size /\ r >= MIN_ALLOCATION_SIZE
  BY <1>1, <1>2, <1>5, <1>6, <1>9
<1>13. Aligned(r)
  <2>1. /\ m.end \in Int /\ m.start \in Int /\ HeaderSize \in Int
        /\ m.end - m.start \in Int
    BY <1>1, <1>5, <1>9
  <2>2. QED
    BY <2>1, <1>1, <1>9, AlignedSum, Zenon
<1>14. r >= Needed(size)
  <2> DEFINE z == IF size < MIN_ALLOCATION_SIZE THEN MIN_ALLOCATION_SIZE ELSE size
  <2>1. z \in Nat /\ z <= r
    BY <1>1, <1>12
  <2>2. Needed(size) = align_up(z)
    BY DEF Needed
  <2> HIDE DEF z, r
  <2>3. align_up(z) <= r /\ align_up(z) \in Nat /\ r \in Int
    BY <2>1, <1>12, <1>13, AlignUpLeast, AlignUp
  <2>4. QED
    BY <2>2, <2>3
<1>15. QED
  BY <1>10, <1>11, <1>12, <1>14 DEF m, n

-----------------------------------------------------------------------------
(* Only the header table and the list matter, not the record around them.  *)
LEMMA SameHeap ==
  ASSUME NEW s, NEW t, NEW M, s.hdr = t.hdr, s.free = t.free, HeapOK(s, M)
  PROVE  HeapOK(t, M)
<1>1. \A a : End(t, a) = End(s, a)
  BY DEF End
<1>2. GoodHeap(t, M)
  BY <1>1, Zenon DEF HeapOK, GoodHeap, GoodTiling, GoodList, EndsWell
<1>3. Tidy(s) => Tidy(t)
  BY <1>1, Zenon DEF Tidy
<1>4. QED
  BY <1>2, <1>3 DEF HeapOK

(* A change of marks leaves everything else as it is.                      *)
LEMMA MarksOnly ==
  ASSUME NEW s, NEW t, NEW M, HeapOK(s, M), t.free = s.free,
         t.hdr \in [DOMAIN s.hdr -> Header],
         \A a \in DOMAIN s.hdr : /\ t.hdr[a].size = s.hdr[a].size
                                 /\ t.hdr[a].allocated = s.hdr[a].allocated
  PROVE  /\ HeapOK(t, M)
         /\ AllocCells(t.hdr) = AllocCells(s.hdr)
         /\ \A a \in DOMAIN s.hdr : End(t, a) = End(s, a)
<1>1. /\ GoodHeaders(s.hdr) /\ GoodTiling(s, M) /\ GoodList(s) /\ GoodMappings(M)
  BY DEF GoodHeap, HeapOK
<1>2. DOMAIN t.hdr = DOMAIN s.hdr
  OBVIOUS
<1>3. SameShape(s, t)
  BY <1>2, Zenon DEF SameShape
<1>4. GoodTiling(t, M) /\ \A a \in DOMAIN s.hdr : End(t, a) = End(s, a)
  BY <1>1, <1>3, ShapeTiling
<1>5. GoodHeaders(t.hdr)
  <2>1. \A a \in DOMAIN t.hdr : Aligned(a) /\ Aligned(t.hdr[a].size)
    BY <1>1, <1>2, Zenon DEF GoodHeaders
  <2>2. DOMAIN t.hdr \subseteq Nat /\ t.hdr \in [DOMAIN t.hdr -> Header]
    BY <1>1, <1>2 DEF GoodHeaders
  <2>3. QED
    BY <2>1, <2>2, Zenon DEF GoodHeaders
<1>6. /\ FreeCells(t.hdr) = FreeCells(s.hdr)
      /\ AllocCells(t.hdr) = AllocCells(s.hdr)
      /\ FreeCells(s.hdr) \subseteq DOMAIN s.hdr
  BY <1>2, Zenon DEF FreeCells, AllocCells
<1>7. GoodList(t)
  BY <1>1, <1>6, Zenon DEF GoodList
<1>8. Tidy(s) => Tidy(t)
  BY <1>4, <1>6 DEF Tidy
<1>9. QED
  BY <1>1, <1>4, <1>5, <1>6, <1>7, <1>8 DEF HeapOK, GoodHeap
-----------------------------------------------------------------------------
(* The steps, on the variables.  First what a step that takes or gives    *)
(* back a cell leaves alone.                                               *)
Kept ==
  /\ \A a \in Allocated \cap Allocated' : hdr'[a] = hdr[a]
  /\ \A a \in Cells' : hdr'[a].mark => a \in Cells /\ hdr[a].mark

(* The cells in use, by both names.                                        *)
LEMMA AllocatedIs == AllocCells(hdr) = Allocated
BY DEF AllocCells, Allocated, Cells

(* From the heap a function returns to the variables.                      *)
LEMMA BecomesKept ==
  ASSUME NEW u, Becomes(u), Frame(Heap, u)
  PROVE  /\ Kept
         /\ Cells' = DOMAIN u.hdr
         /\ Allocated' = AllocCells(u.hdr)
         /\ HeapOK(u, maps') => HeapInv'
<1>1. hdr' = u.hdr /\ free' = u.free
  BY DEF Becomes
<1>2. Cells' = DOMAIN u.hdr /\ Allocated' = AllocCells(u.hdr)
  BY <1>1 DEF Cells, Allocated, AllocCells
<1>3. Kept
  BY <1>1, <1>2, AllocatedIs DEF Frame, Kept, Heap, Cells
<1>4. ASSUME HeapOK(u, maps') PROVE HeapInv'
  <2>1. PICK t : t = [hdr |-> hdr', free |-> free']
    OBVIOUS
  <2>2. u.hdr = t.hdr /\ u.free = t.free
    BY <1>1, <2>1
  <2>3. PICK M : M = maps'
    OBVIOUS
  <2>4. HeapOK(t, M)
    BY <2>2, <2>3, <1>4, SameHeap
  <2>5. Heap' = t
    BY <2>1 DEF Heap
  <2>6. QED
    BY <2>3, <2>4, <2>5 DEF HeapInv
<1>5. QED
  BY <1>2, <1>3, <1>4

(* allocate() takes one free cell that is large enough.                    *)
LEMMA AllocateStep ==
  ASSUME HeapInv, NEW size \in Sizes, allocate(size)
  PROVE  /\ HeapInv' /\ Kept
         /\ \E c \in Cells' : /\ c \notin Allocated /\ Allocated' = Allocated \cup {c}
                              /\ hdr'[c].size >= Needed(size)
<1> DEFINE p == Needed(size)
<1>1. size \in Nat
  BY RequestAssumption
<1>2. p \in Nat /\ p > 0 /\ Aligned(p)
  BY <1>1, NeededFacts
<1> HIDE DEF p
<1>3. GoodMappings(maps) /\ GoodHeap(Heap, maps) /\ (TopDown => Tidy(Heap))
  BY DEF HeapInv, HeapOK
<1>4. PICK h : h = Heap
  OBVIOUS
<1>5. Heap.hdr = hdr /\ Heap.free = free
  BY DEF Heap
<1>6. ASSUME NEW s, NEW M, NEW i, GoodMappings(M), GoodHeap(s, M), TopDown => Tidy(s),
             AllocCells(s.hdr) = Allocated, Frame(Heap, s), maps' = M,
             i \in 1 .. Len(s.free), s.hdr[s.free[i]].size >= p,
             Becomes(Taken(s, i, p))
      PROVE  /\ HeapInv' /\ Kept
             /\ \E c \in Cells' : /\ c \notin Allocated /\ Allocated' = Allocated \cup {c}
                                  /\ hdr'[c].size >= p
  <2>1. PICK u : u = Taken(s, i, p)
    OBVIOUS
  <2>2. PICK c : c = s.free[i]
    OBVIOUS
  <2>3. /\ GoodHeap(u, M)
        /\ c \in DOMAIN s.hdr /\ c \notin AllocCells(s.hdr)
        /\ c \in DOMAIN u.hdr /\ u.hdr[c].size >= p
        /\ AllocCells(u.hdr) = AllocCells(s.hdr) \cup {c}
        /\ Frame(s, u)
        /\ Tidy(s) => Tidy(u)
    BY <1>2, <1>6, <2>1, <2>2, TakenGood
  <2>4. HeapOK(u, maps')
    BY <2>3, <1>6 DEF HeapOK
  <2>5. Frame(Heap, u)
    <3>1. AllocCells(Heap.hdr) = AllocCells(s.hdr)
      BY <1>5, <1>6, AllocatedIs
    <3>2. AllocCells(Heap.hdr) \cap AllocCells(u.hdr) \subseteq AllocCells(s.hdr)
      BY <3>1
    <3>3. QED
      BY <3>2, <2>3, <1>6 DEF Frame
  <2>6. Becomes(u) /\ hdr' = u.hdr
    BY <1>6, <2>1 DEF Becomes
  <2>7. /\ Kept /\ HeapInv'
        /\ Cells' = DOMAIN u.hdr /\ Allocated' = AllocCells(u.hdr)
    BY <2>4, <2>5, <2>6, BecomesKept
  <2>8. QED
    BY <2>3, <2>6, <2>7, <1>6
<1>7. CASE AllocateFromList(size)
  <2>1. PICK i : i = find(Heap, p)
    OBVIOUS
  <2>2. i # 0 /\ Becomes(Taken(Heap, i, p)) /\ maps' = maps
    BY <1>7, <2>1 DEF AllocateFromList, p
  <2>3. Heap.free \in Seq(Nat)
    BY <1>3 DEF GoodHeap, GoodList
  <2>4. i \in 1 .. Len(Heap.free) /\ Heap.hdr[Heap.free[i]].size >= p
    BY <2>1, <2>2, <2>3, FindIs
  <2>5. AllocCells(Heap.hdr) = Allocated /\ Frame(Heap, Heap)
    BY <1>5, AllocatedIs DEF Frame
  <2>6. QED
    BY <2>2, <2>4, <2>5, <1>3, <1>6 DEF p
<1>8. CASE AllocateExtending(size)
  <2> DEFINE n == PagesFor(size + HeaderSize)
  <2>1. PICK q \in Placements(n) :
          /\ maps' = maps \cup {Mapping(q, n)}
          /\ Becomes(Taken(extend(Heap, Mapping(q, n)),
                           find(extend(Heap, Mapping(q, n)), p), p))
    BY <1>8 DEF AllocateExtending, p
  <2>2. PICK m : m = Mapping(q, n)
    OBVIOUS
  <2>3. PICK s : s = extend(Heap, m)
    OBVIOUS
  <2>4. PICK i : i = find(s, p)
    OBVIOUS
  <2>5. maps' = maps \cup {m} /\ Becomes(Taken(s, i, p))
    BY <2>1, <2>2, <2>3, <2>4
  <2>6. /\ GoodMappings(maps \cup {m}) /\ m \notin maps
        /\ m.end - m.start - HeaderSize \in Nat
        /\ m.end - m.start - HeaderSize >= p
        /\ TopDown => \A k \in maps : Apart(m, k)
    BY <1>1, <1>3, <2>2, NewMapping DEF p
  <2>7. m.end - m.start - HeaderSize > 0
    <3> DEFINE r == m.end - m.start - HeaderSize
    <3>1. r \in Nat /\ r >= p
      BY <2>6
    <3> HIDE DEF r
    <3>2. r > 0
      BY <3>1, <1>2
    <3>3. QED
      BY <3>2 DEF r
  <2>8. /\ GoodHeap(s, maps \cup {m})
        /\ AllocCells(s.hdr) = AllocCells(Heap.hdr)
        /\ Frame(Heap, s)
        /\ Len(s.free) >= 1 /\ s.free[1] = m.start
        /\ s.hdr[m.start].size = m.end - m.start - HeaderSize
        /\ (Tidy(Heap) /\ \A k \in maps : Apart(m, k)) => Tidy(s)
    BY <1>3, <2>3, <2>6, <2>7, ExtendGood
  <2>9. s.free \in Seq(Nat) /\ Len(s.free) \in Nat
    BY <2>8, ListFacts DEF GoodHeap
  <2>10. 1 \in 1 .. Len(s.free) /\ s.hdr[s.free[1]].size >= p
    BY <2>6, <2>8, <2>9
  <2>11. i \in 1 .. Len(s.free) /\ s.hdr[s.free[i]].size >= p
    BY <2>4, <2>9, <2>10, FindIs
  <2>12. AllocCells(s.hdr) = Allocated
    BY <2>8, <1>5, AllocatedIs
  <2>13. TopDown => Tidy(s)
    BY <2>6, <2>8, <1>3
  <2>14. QED
    BY <2>5, <2>6, <2>8, <2>11, <2>12, <2>13, <1>6 DEF p
<1>9. QED
  BY <1>7, <1>8 DEF allocate

(* deallocate() and the sweep give one cell back.                          *)
LEMMA ReleaseStep ==
  ASSUME HeapInv, NEW c \in Allocated, Becomes(Released(Heap, c)), maps' = maps
  PROVE  LET e == End(Inserted(Heap, c), c)
         IN  /\ HeapInv' /\ Kept
             /\ Allocated' = Allocated \ {c} /\ Cells' \subseteq Cells
             /\ e \in Nat /\ c < e
             /\ \A a \in Cells' : a < e => a <= c
             /\ \A m \in maps : Inside(c, m) =>
                  e = m.end \/ (e \in Cells' /\ Inside(e, m))
<1>1. GoodMappings(maps) /\ GoodHeap(Heap, maps) /\ (TopDown => Tidy(Heap))
  BY DEF HeapInv, HeapOK
<1>2. Heap.hdr = hdr /\ Heap.free = free
  BY DEF Heap
<1>3. PICK w : w = Released(Heap, c)
  OBVIOUS
<1>4. PICK v : v = Inserted(Heap, c)
  OBVIOUS
<1>5. c \in AllocCells(Heap.hdr)
  BY <1>2, AllocatedIs
<1>6. /\ GoodHeap(w, maps)
      /\ DOMAIN v.hdr \ {c} \subseteq DOMAIN w.hdr
      /\ DOMAIN w.hdr \subseteq DOMAIN v.hdr
      /\ AllocCells(w.hdr) = AllocCells(Heap.hdr) \ {c}
      /\ Frame(Heap, w)
      /\ Tidy(Heap) => Tidy(w)
  BY <1>1, <1>3, <1>4, <1>5, ReleasedGood
<1>7. /\ GoodHeap(v, maps) /\ c \in FreeCells(v.hdr)
      /\ DOMAIN v.hdr \subseteq DOMAIN Heap.hdr
  BY <1>1, <1>4, <1>5, InsertedGood
<1>8. Becomes(w) /\ HeapOK(w, maps')
  BY <1>1, <1>3, <1>6 DEF HeapOK
<1>9. /\ Kept /\ HeapInv'
      /\ Cells' = DOMAIN w.hdr /\ Allocated' = AllocCells(w.hdr)
  BY <1>6, <1>8, BecomesKept
<1>10. Allocated' = Allocated \ {c} /\ Cells' \subseteq Cells
  BY <1>2, <1>6, <1>7, <1>9, AllocatedIs DEF Cells
<1> DEFINE e == End(v, c)
<1>11. c \in DOMAIN v.hdr /\ GoodHeaders(v.hdr) /\ GoodTiling(v, maps)
  BY <1>7 DEF FreeCells, GoodHeap
<1>12. e \in Nat /\ c < e /\ c \in Nat
  BY <1>11, CellFacts
<1>13. ASSUME NEW a \in Cells', a < e PROVE a <= c
  <2>1. a \in DOMAIN v.hdr
    BY <1>6, <1>9
  <2>2. a \in Nat /\ (c < a => e <= a)
    BY <2>1, <1>11, CellFacts DEF GoodTiling
  <2>3. QED
    BY <2>2, <1>12, <1>13
<1>14. ASSUME NEW m \in maps, Inside(c, m)
       PROVE  e = m.end \/ (e \in Cells' /\ Inside(e, m))
  <2>1. e = m.end \/ (e < m.end /\ e \in DOMAIN v.hdr)
    BY <1>1, <1>11, <1>14, CellEndsIn DEF EndsWell
  <2>2. ASSUME e < m.end, e \in DOMAIN v.hdr PROVE e \in Cells' /\ Inside(e, m)
    <3>1. e # c
      BY <1>12
    <3>2. m.start \in Nat /\ m.start <= c
      BY <1>1, <1>14, MappingFacts DEF Inside
    <3>3. QED
      BY <2>2, <3>1, <3>2, <1>6, <1>9, <1>12 DEF Inside
  <2>3. QED
    BY <2>1, <2>2
<1>15. QED
  BY <1>4, <1>9, <1>10, <1>12, <1>13, <1>14
-----------------------------------------------------------------------------
(* The invariant is kept by every step.                                    *)
LEMMA InitInv == Init => Inv
<1> SUFFICES ASSUME Init PROVE Inv
  OBVIOUS
<1>1. /\ hdr = <<>> /\ free = <<>> /\ maps = {} /\ listed = <<>>
      /\ pc = "mutator" /\ todo = <<>> /\ cur = 0 /\ live = {}
  BY DEF Init
<1>2. Cells = {} /\ Allocated = {}
  BY <1>1 DEF Cells, Allocated
<1>3. Heap.hdr = hdr /\ Heap.free = free /\ DOMAIN hdr = {}
  BY <1>1 DEF Heap
<1>4. GoodHeaders(Heap.hdr)
  BY <1>1, <1>3 DEF GoodHeaders
<1>5. GoodTiling(Heap, maps)
  BY <1>1, <1>3 DEF GoodTiling
<1>6. GoodList(Heap)
  BY <1>1, <1>3 DEF GoodList, FreeCells, Range, IsInjective
<1>7. Tidy(Heap)
  BY <1>1, <1>3 DEF Tidy, Sorted, FreeCells
<1>8. GoodMappings(maps)
  BY <1>1 DEF GoodMappings
<1>9. HeapInv
  BY <1>4, <1>5, <1>6, <1>7, <1>8 DEF HeapInv, HeapOK, GoodHeap
<1>10. StateInv
  BY <1>1, <1>2 DEF StateInv
<1>11. 0 \in Address
  BY UnitsType, PageMultiple DEF Address
<1>12. QED
  BY <1>1, <1>2, <1>9, <1>10, <1>11 DEF Inv, MarksInv, WalkInv

(* The heap, the mappings in it and the walk, unpacked.                    *)
LEMMA HeapFacts ==
  ASSUME HeapInv
  PROVE  /\ GoodMappings(maps) /\ GoodHeap(Heap, maps)
         /\ GoodHeaders(Heap.hdr) /\ GoodTiling(Heap, maps) /\ GoodList(Heap)
         /\ Heap.hdr = hdr /\ Heap.free = free
BY DEF HeapInv, HeapOK, GoodHeap, Heap

(* The list of mappings is empty or holds the one that is walked.          *)
LEMMA WalkFacts ==
  ASSUME StateInv, listed # <<>>
  PROVE  /\ listed[1] \in maps /\ Len(listed) = 1 /\ Tail(listed) = <<>>
         /\ \A a : InWalk(a) <=> Inside(a, listed[1])
<1>1. listed \in Seq(maps) /\ Len(listed) <= 1
  BY DEF StateInv
<1>2. Len(listed) \in Nat /\ Len(listed) # 0
  BY <1>1, EmptySeq, LenProperties
<1>3. Len(listed) = 1
  <2> DEFINE k == Len(listed)
  <2>1. k \in Nat /\ k # 0 /\ k <= 1
    BY <1>1, <1>2, Zenon
  <2> HIDE DEF k
  <2>2. k = 1
    BY <2>1
  <2>3. QED
    BY <2>2 DEF k
<1>4. listed[1] \in maps
  BY <1>1, <1>3, ElementOfSeq
<1>5. Tail(listed) \in Seq(maps) /\ Len(Tail(listed)) = 0
  BY <1>1, <1>3, HeadTailProperties
<1>6. QED
  BY <1>3, <1>4, <1>5, EmptySeq DEF InWalk

(* allocate() marks nothing and ends no object.                            *)
LEMMA AllocateInv ==
  ASSUME Inv, NEW size \in Sizes, allocate(size)
  PROVE  Inv'
<1>1. HeapInv /\ StateInv /\ MarksInv /\ WalkInv
  BY DEF Inv
<1>2. HeapInv' /\ Kept
  BY <1>1, AllocateStep
<1>3. /\ pc = "mutator" /\ pc' = pc /\ todo' = todo /\ cur' = cur /\ live' = live
  BY DEF allocate, AllocateFromList, AllocateExtending, walk
<1>4. todo = <<>> /\ live = {}
  BY <1>1, <1>3 DEF StateInv
<1>5. \A a \in Cells : InWalk(a) => ~hdr[a].mark
  BY <1>1, <1>3 DEF MarksInv
<1>6. CASE AllocateFromList(size)
  <2>1. maps' = maps /\ listed' = listed
    BY <1>6 DEF AllocateFromList
  <2>2. StateInv'
    BY <2>1, <1>1, <1>3, <1>4 DEF StateInv
  <2>3. ASSUME NEW a \in Cells', InWalk(a)' PROVE ~hdr'[a].mark
    <3>1. InWalk(a)
      BY <2>1, <2>3 DEF InWalk, Inside
    <3>2. QED
      BY <3>1, <1>2, <1>5 DEF Kept
  <2>4. QED
    BY <2>2, <2>3, <1>1, <1>2, <1>3 DEF Inv, MarksInv, WalkInv
<1>7. CASE AllocateExtending(size)
  <2> DEFINE n == PagesFor(size + HeaderSize)
  <2>1. PICK p \in Placements(n) :
          maps' = maps \cup {Mapping(p, n)} /\ listed' = LinkMapping(Mapping(p, n))
    BY <1>7 DEF AllocateExtending
  <2>2. PICK m : m = Mapping(p, n)
    OBVIOUS
  <2>3. GoodMappings(maps)
    BY <1>1, HeapFacts
  <2>4. GoodMappings(maps \cup {m}) /\ m \notin maps
    <3>1. size \in Nat
      BY RequestAssumption
    <3>2. QED
      BY <3>1, <2>2, <2>3, NewMapping
  <2>5. maps' = maps \cup {m} /\ listed' = <<m>>
    <3>1. listed' = LinkMapping(m) /\ maps' = maps \cup {m}
      BY <2>1, <2>2
    <3>2. CASE listed = <<>>
      BY <3>1, <3>2 DEF LinkMapping
    <3>3. CASE listed # <<>>
      <4>1. Tail(listed) = <<>>
        BY <3>3, <1>1, WalkFacts
      <4>2. QED
        BY <3>1, <3>3, <4>1, ConcatEmptySeq, <<m>> \in Seq({m}) DEF LinkMapping
    <3>4. QED
      BY <3>2, <3>3
  <2>6. StateInv'
    BY <2>5, <1>3, <1>4 DEF StateInv
  <2>7. ASSUME NEW a \in Cells', InWalk(a)' PROVE ~hdr'[a].mark
    <3> SUFFICES ASSUME hdr'[a].mark PROVE FALSE
      OBVIOUS
    <3>1. a \in Cells
      BY <1>2 DEF Kept
    <3>2. a \in DOMAIN Heap.hdr
      BY <3>1, <1>1, HeapFacts DEF Cells
    <3>3. PICK k \in maps : Inside(a, k)
      BY <3>2, <1>1, HeapFacts, CellPlace
    <3>4. Inside(a, m)
      BY <2>5, <2>7 DEF InWalk, Inside
    <3>5. a \in Nat
      BY <3>2, <1>1, HeapFacts, CellFacts
    <3>6. k = m
      BY <3>3, <3>4, <3>5, <2>4, SameMapping
    <3>7. QED
      BY <3>6, <2>4
  <2>8. QED
    BY <2>6, <2>7, <1>1, <1>2, <1>3 DEF Inv, MarksInv, WalkInv
<1>8. QED
  BY <1>6, <1>7 DEF allocate

(* deallocate() happens between sweeps, where nothing is marked.           *)
LEMMA DeallocateInv ==
  ASSUME Inv, NEW c \in Allocated, deallocate(c)
  PROVE  Inv'
<1>1. HeapInv /\ StateInv /\ MarksInv /\ WalkInv
  BY DEF Inv
<1>2. /\ pc = "mutator" /\ Becomes(Released(Heap, c)) /\ maps' = maps
      /\ listed' = listed
      /\ pc' = pc /\ todo' = todo /\ cur' = cur /\ live' = live
  BY DEF deallocate, walk
<1>3. HeapInv' /\ Kept
  BY <1>1, <1>2, ReleaseStep
<1>4. todo = <<>> /\ live = {}
  BY <1>1, <1>2 DEF StateInv
<1>5. StateInv'
  BY <1>1, <1>2, <1>4 DEF StateInv
<1>6. ASSUME NEW a \in Cells', InWalk(a)' PROVE ~hdr'[a].mark
  <2>1. InWalk(a)
    BY <1>2, <1>6 DEF InWalk, Inside
  <2>2. \A b \in Cells : InWalk(b) => ~hdr[b].mark
    BY <1>1, <1>2 DEF MarksInv
  <2>3. QED
    BY <2>1, <2>2, <1>3 DEF Kept
<1>7. QED
  BY <1>1, <1>2, <1>3, <1>5, <1>6 DEF Inv, MarksInv, WalkInv

(* A step that touches no more than marks.                                 *)
LEMMA MarksStep ==
  ASSUME HeapInv, free' = free, maps' = maps,
         hdr' \in [Cells -> Header],
         \A a \in Cells : /\ hdr'[a].size = hdr[a].size
                          /\ hdr'[a].allocated = hdr[a].allocated
  PROVE  /\ HeapInv' /\ Cells' = Cells /\ Allocated' = Allocated
         /\ \A a \in Cells : End(Heap', a) = End(Heap, a)
<1>1. Heap.hdr = hdr /\ Heap.free = free /\ HeapOK(Heap, maps)
  BY DEF Heap, HeapInv
<1>2. PICK s : s = Heap
  OBVIOUS
<1>3. PICK t : t = [hdr |-> hdr', free |-> free']
  OBVIOUS
<1>4. PICK M : M = maps
  OBVIOUS
<1>5. t.hdr = hdr' /\ t.free = free' /\ Heap' = t
  BY <1>3 DEF Heap
<1>6. /\ HeapOK(s, M) /\ t.free = s.free
      /\ t.hdr \in [DOMAIN s.hdr -> Header]
      /\ \A a \in DOMAIN s.hdr : /\ t.hdr[a].size = s.hdr[a].size
                                 /\ t.hdr[a].allocated = s.hdr[a].allocated
  BY <1>1, <1>2, <1>4, <1>5 DEF Cells
<1>7. /\ HeapOK(t, M)
      /\ AllocCells(t.hdr) = AllocCells(s.hdr)
      /\ \A a \in DOMAIN s.hdr : End(t, a) = End(s, a)
  BY <1>6, MarksOnly
<1>8. HeapInv'
  BY <1>4, <1>5, <1>7 DEF HeapInv
<1>9. Cells' = Cells
  BY DEF Cells
<1>10. Allocated' = Allocated
  BY <1>9 DEF Allocated
<1>11. QED
  BY <1>1, <1>2, <1>5, <1>7, <1>8, <1>9, <1>10 DEF Cells

(* A cell and its header.                                                  *)
LEMMA HeaderFacts ==
  ASSUME HeapInv, NEW a \in Cells
  PROVE  /\ a \in Nat /\ hdr[a] \in Header /\ hdr \in [Cells -> Header]
         /\ a \in DOMAIN Heap.hdr
BY HeapFacts, CellFacts DEF Cells, GoodHeaders

(* The marker sets bits of cells in use; the walk starts before all cells  *)
(* of its mapping.                                                         *)
LEMMA MarkInv ==
  ASSUME Inv, NEW S \in SUBSET Allocated, Mark(S)
  PROVE  Inv'
<1>1. HeapInv /\ StateInv /\ MarksInv /\ WalkInv
  BY DEF Inv
<1>2. /\ pc = "mutator"
      /\ hdr' = [a \in Cells |-> IF a \in S THEN [hdr[a] EXCEPT !.mark = TRUE] ELSE hdr[a]]
      /\ live' = S /\ pc' = "sweep" /\ todo' = listed
      /\ cur' = IF listed = <<>> THEN 0 ELSE listed[1].start
      /\ free' = free /\ maps' = maps /\ listed' = listed
  BY DEF Mark
<1>3. ASSUME NEW a \in Cells
      PROVE  /\ hdr'[a] \in Header /\ hdr'[a].size = hdr[a].size
             /\ hdr'[a].allocated = hdr[a].allocated
             /\ a \in S => hdr'[a].mark
             /\ a \notin S => hdr'[a] = hdr[a]
  <2>1. hdr[a] \in Header
    BY <1>1, HeaderFacts
  <2>2. CASE a \in S
    BY <2>1, <2>2, <1>2 DEF Header
  <2>3. CASE a \notin S
    BY <2>1, <2>3, <1>2
  <2>4. QED
    BY <2>2, <2>3
<1>4. hdr' \in [Cells -> Header]
  BY <1>2, <1>3
<1>5. HeapInv' /\ Cells' = Cells /\ Allocated' = Allocated
  BY <1>1, <1>2, <1>3, <1>4, MarksStep
<1>6. StateInv'
  BY <1>1, <1>2, <1>5 DEF StateInv
<1>7. ASSUME listed # <<>>
      PROVE  /\ listed[1].start \in Nat /\ listed[1].start \in Cells
             /\ Inside(listed[1].start, listed[1]) /\ listed[1].start \in Address
  <2>1. listed[1] \in maps
    BY <1>1, <1>7, WalkFacts
  <2>2. /\ listed[1].start \in Nat /\ listed[1].end \in Nat
        /\ listed[1].start < listed[1].end /\ listed[1].end <= Pages * PAGE_SIZE
    BY <2>1, <1>1, HeapFacts, MappingFacts
  <2>3. listed[1].start \in Cells
    BY <2>1, <1>1, HeapFacts DEF GoodTiling, Cells
  <2>4. Pages * PAGE_SIZE \in Int
    BY UnitsType, PageMultiple
  <2>5. QED
    BY <2>2, <2>3, <2>4 DEF Inside, Address
<1>8. ASSUME NEW a \in Cells, InWalk(a)
      PROVE  ~ (todo' = <<>> \/ a < cur') /\ (hdr'[a].mark <=> (hdr'[a].allocated /\ a \in live'))
  <2>1. listed # <<>> /\ Inside(a, listed[1]) /\ a \in Nat
    BY <1>1, <1>8, HeaderFacts DEF InWalk
  <2>2. todo' # <<>> /\ ~ (a < cur')
    BY <2>1, <1>2, <1>7 DEF Inside
  <2>3. ~hdr[a].mark
    BY <1>1, <1>2, <1>8 DEF MarksInv
  <2>4. a \in S => hdr[a].allocated
    BY DEF Allocated
  <2>5. QED
    BY <2>2, <2>3, <2>4, <1>2, <1>3
<1>9. MarksInv'
  <2>1. \A a \in Cells' : InWalk(a)' => InWalk(a) /\ a \in Cells
    BY <1>2, <1>5 DEF InWalk, Inside
  <2>2. pc' # "mutator"
    BY <1>2
  <2>3. QED
    BY <2>1, <2>2, <1>8 DEF MarksInv
<1>10. WalkInv'
  <2>1. cur' \in Address
    <3>1. 0 \in Address
      BY UnitsType, PageMultiple DEF Address
    <3>2. QED
      BY <3>1, <1>2, <1>7
  <2>2. ASSUME todo' # <<>> PROVE cur' \in Cells' /\ Inside(cur', todo'[1])
    BY <2>2, <1>2, <1>5, <1>7
  <2>3. QED
    BY <2>1, <2>2 DEF WalkInv, Inside
<1>11. QED
  BY <1>5, <1>6, <1>9, <1>10 DEF Inv
(* One cell of the walk: every cell behind it is done, none in front of it *)
(* is touched.                                                             *)
LEMMA SweepCellInv ==
  ASSUME Inv, SweepCell
  PROVE  Inv'
<1>1. HeapInv /\ StateInv /\ MarksInv /\ WalkInv
  BY DEF Inv
<1>2. /\ pc = "sweep" /\ todo # <<>> /\ cur < todo[1].end
      /\ maps' = maps /\ listed' = listed /\ pc' = pc /\ todo' = todo /\ live' = live
  BY DEF SweepCell
<1>3. todo = listed /\ listed # <<>>
  BY <1>1, <1>2 DEF StateInv
<1>4. PICK m \in maps : m = listed[1]
  BY <1>1, <1>3, WalkFacts
<1>5. /\ GoodMappings(maps) /\ GoodHeaders(Heap.hdr) /\ GoodTiling(Heap, maps)
      /\ Heap.hdr = hdr
  BY <1>1, HeapFacts
<1>6. /\ m.start \in Nat /\ m.end \in Nat /\ m.end <= Pages * PAGE_SIZE
      /\ Pages * PAGE_SIZE \in Int
  BY <1>5, MappingFacts, UnitsType, PageMultiple
<1>7. cur \in Nat /\ cur # m.end
  BY <1>1, <1>2, <1>3, <1>4, <1>6 DEF WalkInv, Address
<1>8. cur \in Cells /\ Inside(cur, m)
  BY <1>1, <1>2, <1>3, <1>4, <1>7 DEF WalkInv
<1>9. \A a : InWalk(a) <=> Inside(a, m)
  BY <1>1, <1>3, <1>4, WalkFacts
<1>10. ASSUME NEW a \in Cells, Inside(a, m)
       PROVE  IF a < cur THEN ~hdr[a].mark /\ (hdr[a].allocated => a \in live)
                         ELSE hdr[a].mark <=> (hdr[a].allocated /\ a \in live)
  BY <1>1, <1>2, <1>9, <1>10 DEF MarksInv
<1>11. /\ live \subseteq Allocated
       /\ \A a \in Cells : a \in Allocated <=> hdr[a].allocated
  BY <1>1 DEF StateInv, Allocated
<1>12. ~ (cur < cur)
  BY <1>7
<1>13. \A e \in Nat : (e = m.end \/ Inside(e, m)) => e \in Address
  BY <1>6 DEF Inside, Address
<1>14. SUFFICES
         /\ HeapInv' /\ cur' \in Nat /\ live \subseteq Allocated' /\ Cells' \subseteq Cells
         /\ \A a \in Cells' : Inside(a, m) =>
              IF a < cur' THEN ~hdr'[a].mark /\ (hdr'[a].allocated => a \in live)
                          ELSE hdr'[a].mark <=> (hdr'[a].allocated /\ a \in live)
         /\ cur' = m.end \/ (cur' \in Cells' /\ Inside(cur', m))
  <2>1. StateInv'
    BY <1>14, <1>1, <1>2 DEF StateInv
  <2>2. \A a \in Cells' : InWalk(a)' => Inside(a, m)
    BY <1>2, <1>3, <1>4 DEF InWalk, Inside
  <2>3. MarksInv'
    BY <1>14, <1>2, <2>2 DEF MarksInv
  <2>4. cur' \in Address
    BY <1>13, <1>14
  <2>5. WalkInv'
    BY <1>14, <1>2, <1>3, <1>4, <2>4 DEF WalkInv, Inside
  <2>6. QED
    BY <1>14, <2>1, <2>3, <2>5 DEF Inv
<1>15. CASE hdr[cur].allocated /\ ~hdr[cur].mark
  <2>1. Becomes(Released(Heap, cur)) /\ cur' = End(Inserted(Heap, cur), cur)
    BY <1>15 DEF SweepCell
  <2>2. cur \in Allocated
    BY <1>8, <1>11, <1>15
  <2>3. /\ HeapInv' /\ Kept
        /\ Allocated' = Allocated \ {cur} /\ Cells' \subseteq Cells
        /\ cur' \in Nat /\ cur < cur'
        /\ \A a \in Cells' : a < cur' => a <= cur
        /\ cur' = m.end \/ (cur' \in Cells' /\ Inside(cur', m))
    BY <2>1, <2>2, <1>1, <1>2, <1>8, ReleaseStep
  <2>4. cur \notin live
    BY <1>8, <1>10, <1>12, <1>15
  <2>5. ASSUME NEW a \in Cells', Inside(a, m)
        PROVE  IF a < cur' THEN ~hdr'[a].mark /\ (hdr'[a].allocated => a \in live)
                           ELSE hdr'[a].mark <=> (hdr'[a].allocated /\ a \in live)
    <3>1. /\ a \in Cells /\ a \in Nat
          /\ (hdr'[a].mark => hdr[a].mark)
          /\ hdr'[a].allocated <=> a \in Allocated'
          /\ (a \in Allocated' => hdr'[a] = hdr[a])
      BY <2>3, <2>5, <1>1, HeaderFacts DEF Kept, Allocated
    <3>2. CASE a < cur
      <4>1. ~hdr[a].mark /\ (hdr[a].allocated => a \in live) /\ a < cur'
        BY <3>1, <3>2, <2>3, <2>5, <1>7, <1>10
      <4>2. hdr'[a].allocated => hdr[a].allocated
        BY <3>1, <2>3, <1>11
      <4>3. QED
        BY <4>1, <4>2, <3>1
    <3>3. CASE a = cur
      BY <3>1, <3>3, <2>3, <1>15
    <3>4. CASE cur < a
      <4>1. ~ (a < cur') /\ a # cur /\ ~ (a < cur)
        BY <3>1, <3>4, <2>3, <1>7
      <4>2. hdr[a].mark <=> (hdr[a].allocated /\ a \in live)
        BY <3>1, <4>1, <2>5, <1>10
      <4>3. hdr'[a].allocated <=> hdr[a].allocated
        BY <3>1, <4>1, <2>3, <1>11
      <4>4. hdr'[a].mark <=> (hdr'[a].allocated /\ a \in live)
        BY <4>2, <4>3, <3>1, Zenon
      <4>5. QED
        BY <4>1, <4>4
    <3>5. QED
      BY <3>1, <3>2, <3>3, <3>4, <1>7
  <2>6. live \subseteq Allocated'
    BY <2>3, <2>4, <1>11
  <2>7. QED
    BY <2>3, <2>5, <2>6
<1>16. CASE ~ (hdr[cur].allocated /\ ~hdr[cur].mark)
  <2> DEFINE bit == hdr[cur].mark /\ ~hdr[cur].allocated
  <2>1. /\ hdr' = [hdr EXCEPT ![cur].mark = bit] /\ free' = free
        /\ cur' = End(Heap, cur)
    BY <1>16 DEF SweepCell
  <2>2. hdr[cur] \in Header /\ hdr \in [Cells -> Header]
    BY <1>1, <1>8, HeaderFacts
  <2>3. hdr[cur].mark <=> (hdr[cur].allocated /\ cur \in live)
    BY <1>8, <1>10, <1>12
  <2>4. bit = FALSE /\ (hdr[cur].allocated => cur \in live)
    BY <2>2, <2>3, <1>16 DEF Header
  <2>5. /\ hdr'[cur] = [hdr[cur] EXCEPT !.mark = FALSE]
        /\ \A a \in Cells : a # cur => hdr'[a] = hdr[a]
        /\ hdr' = [a \in Cells |-> hdr'[a]]
    BY <2>1, <2>2, <2>4, <1>8
  <2>6. /\ hdr'[cur] \in Header /\ ~hdr'[cur].mark
        /\ hdr'[cur].size = hdr[cur].size /\ hdr'[cur].allocated = hdr[cur].allocated
    BY <2>2, <2>5 DEF Header
  <2>7. hdr' \in [Cells -> Header]
    <3>1. \A a \in Cells : hdr'[a] \in Header
      BY <2>2, <2>5, <2>6
    <3>2. QED
      BY <3>1, <2>5
  <2>8. \A a \in Cells : hdr'[a].size = hdr[a].size /\ hdr'[a].allocated = hdr[a].allocated
    BY <2>5, <2>6, Zenon
  <2>9. HeapInv' /\ Cells' = Cells /\ Allocated' = Allocated
    BY <2>1, <2>7, <2>8, <1>1, <1>2, MarksStep
  <2>10. cur \in DOMAIN Heap.hdr
    BY <1>5, <1>8 DEF Cells
  <2>11. /\ cur' \in Nat /\ cur < cur'
         /\ cur' = m.end \/ (cur' < m.end /\ cur' \in Cells)
    BY <2>1, <2>10, <1>5, <1>8, CellFacts, CellEndsIn DEF EndsWell, Cells
  <2>12. ASSUME NEW a \in Cells', Inside(a, m)
         PROVE  IF a < cur' THEN ~hdr'[a].mark /\ (hdr'[a].allocated => a \in live)
                            ELSE hdr'[a].mark <=> (hdr'[a].allocated /\ a \in live)
    <3>1. a \in Cells /\ a \in Nat
      BY <2>9, <1>1, HeaderFacts
    <3>2. cur < a => cur' <= a
      BY <3>1, <2>1, <2>10, <1>5 DEF GoodTiling, Cells
    <3>3. CASE a < cur
      <4>1. a < cur' /\ hdr'[a] = hdr[a]
        BY <3>1, <3>3, <2>5, <2>11, <1>7
      <4>2. QED
        BY <4>1, <3>1, <3>3, <2>12, <1>10
    <3>4. CASE a = cur
      BY <3>4, <2>4, <2>6, <2>11
    <3>5. CASE cur < a
      <4>1. ~ (a < cur') /\ hdr'[a] = hdr[a] /\ ~ (a < cur)
        BY <3>1, <3>2, <3>5, <2>5, <2>11, <1>7
      <4>2. QED
        BY <4>1, <3>1, <2>12, <1>10
    <3>6. QED
      BY <3>1, <3>3, <3>4, <3>5, <1>7
  <2>13. cur' \in Cells /\ cur' < m.end => Inside(cur', m)
    BY <2>11, <1>6, <1>7, <1>8 DEF Inside
  <2>14. QED
    BY <2>9, <2>11, <2>12, <2>13, <1>11
<1>17. QED
  BY <1>15, <1>16

(* A step of the walk that touches no cell.                                *)
LEMMA UnchangedHeap ==
  ASSUME HeapInv, UNCHANGED <<hdr, free, maps>>
  PROVE  HeapInv' /\ Cells' = Cells /\ Allocated' = Allocated
BY DEF HeapInv, Heap, Cells, Allocated

(* At the end of its mapping the walk is over: there is no other in the    *)
(* list.                                                                   *)
LEMMA SweepNextMappingInv ==
  ASSUME Inv, SweepNextMapping
  PROVE  Inv'
<1>1. HeapInv /\ StateInv /\ MarksInv /\ WalkInv
  BY DEF Inv
<1>2. /\ pc = "sweep" /\ todo # <<>> /\ cur >= todo[1].end
      /\ todo' = Tail(todo) /\ cur' = IF Len(todo) = 1 THEN 0 ELSE todo[2].start
      /\ UNCHANGED <<hdr, free, maps, listed, pc, live>>
  BY DEF SweepNextMapping
<1>3. todo = listed /\ listed # <<>>
  BY <1>1, <1>2 DEF StateInv
<1>4. listed[1] \in maps /\ Len(listed) = 1 /\ Tail(listed) = <<>>
  BY <1>1, <1>3, WalkFacts
<1>5. todo' = <<>> /\ cur' = 0
  BY <1>2, <1>3, <1>4
<1>6. HeapInv' /\ Cells' = Cells /\ Allocated' = Allocated
  BY <1>1, <1>2, UnchangedHeap
<1>7. StateInv'
  BY <1>1, <1>2, <1>5, <1>6 DEF StateInv
<1>8. ASSUME NEW a \in Cells, InWalk(a)
      PROVE  ~hdr[a].mark /\ (hdr[a].allocated => a \in live)
  <2>1. a < listed[1].end /\ a \in Nat
    BY <1>1, <1>8, HeaderFacts DEF InWalk, Inside
  <2>2. listed[1].end \in Nat /\ cur \in Nat
    BY <1>1, <1>4, HeapFacts, MappingFacts DEF WalkInv, Address
  <2>3. a < cur
    BY <2>1, <2>2, <1>2, <1>3
  <2>4. QED
    BY <2>3, <1>1, <1>2, <1>8 DEF MarksInv
<1>9. MarksInv'
  <2>1. \A a \in Cells' : InWalk(a)' => InWalk(a) /\ a \in Cells
    BY <1>2, <1>6 DEF InWalk, Inside
  <2>2. QED
    BY <2>1, <1>2, <1>5, <1>8 DEF MarksInv
<1>10. WalkInv'
  <2>1. 0 \in Address
    BY UnitsType, PageMultiple DEF Address
  <2>2. QED
    BY <2>1, <1>5 DEF WalkInv
<1>11. QED
  BY <1>6, <1>7, <1>9, <1>10 DEF Inv

(* The end of a sweep and the return to the program.                       *)
LEMMA SweepEndInv ==
  ASSUME Inv, SweepOver \/ Return
  PROVE  Inv'
<1>1. HeapInv /\ StateInv /\ MarksInv /\ WalkInv
  BY DEF Inv
<1>2. UNCHANGED <<hdr, free, maps, listed, todo, cur>> /\ pc # "mutator" /\ todo = <<>>
  BY <1>1 DEF SweepOver, Return, StateInv
<1>3. HeapInv' /\ Cells' = Cells /\ Allocated' = Allocated
  BY <1>1, <1>2, UnchangedHeap
<1>4. \/ pc' = "swept" /\ live' = live
      \/ pc' = "mutator" /\ live' = {}
  BY DEF SweepOver, Return
<1>5. StateInv'
  BY <1>1, <1>2, <1>3, <1>4 DEF StateInv
<1>6. ASSUME NEW a \in Cells, InWalk(a)
      PROVE  ~hdr[a].mark /\ (hdr[a].allocated => a \in live)
  BY <1>1, <1>2, <1>6 DEF MarksInv
<1>7. MarksInv'
  <2>1. \A a \in Cells' : InWalk(a)' => InWalk(a) /\ a \in Cells
    BY <1>2, <1>3 DEF InWalk, Inside
  <2>2. QED
    BY <2>1, <1>2, <1>4, <1>6 DEF MarksInv
<1>8. WalkInv'
  BY <1>1, <1>2, <1>4 DEF WalkInv
<1>9. QED
  BY <1>3, <1>5, <1>7, <1>8 DEF Inv

(* A step of somebody else.                                                *)
LEMMA StutterInv ==
  ASSUME Inv, UNCHANGED vars
  PROVE  Inv'
<1>1. HeapInv /\ StateInv /\ MarksInv /\ WalkInv
  BY DEF Inv
<1>2. UNCHANGED <<hdr, free, maps, listed, pc, todo, cur, live>>
  BY DEF vars
<1>3. HeapInv' /\ Cells' = Cells /\ Allocated' = Allocated
  BY <1>1, <1>2, UnchangedHeap
<1>4. StateInv'
  BY <1>1, <1>2, <1>3 DEF StateInv
<1>5. MarksInv'
  <2>1. \A a : InWalk(a)' <=> InWalk(a)
    BY <1>2 DEF InWalk, Inside
  <2>2. QED
    BY <2>1, <1>1, <1>2, <1>3 DEF MarksInv
<1>6. WalkInv'
  BY <1>1, <1>2, <1>3 DEF WalkInv, Inside
<1>7. QED
  BY <1>3, <1>4, <1>5, <1>6 DEF Inv

(* Every step keeps the invariant.                                         *)
LEMMA NextInv == Inv /\ [Next]_vars => Inv'
<1> SUFFICES ASSUME Inv, [Next]_vars PROVE Inv'
  OBVIOUS
<1>1. ASSUME NEW size \in Sizes, allocate(size) PROVE Inv'
  BY <1>1, AllocateInv
<1>2. ASSUME NEW a \in Allocated, deallocate(a) PROVE Inv'
  BY <1>2, DeallocateInv
<1>3. ASSUME NEW S \in SUBSET Allocated, Mark(S) PROVE Inv'
  BY <1>3, MarkInv
<1>4. CASE SweepCell
  BY <1>4, SweepCellInv
<1>5. CASE SweepNextMapping
  BY <1>5, SweepNextMappingInv
<1>6. CASE SweepOver \/ Return
  BY <1>6, SweepEndInv
<1>7. CASE UNCHANGED vars
  BY <1>7, StutterInv
<1>8. QED
  BY <1>1, <1>2, <1>3, <1>4, <1>5, <1>6, <1>7 DEF Next

(* The inductive invariant holds in every reachable state.                 *)
THEOREM Invariance == Spec => []Inv
<1>1. Init => Inv
  BY InitInv
<1>2. Inv /\ [Next]_vars => Inv'
  BY NextInv
<1>3. QED
  BY <1>1, <1>2, PTL DEF Spec
-----------------------------------------------------------------------------
(* What the invariant says of the properties the runs check.               *)
LEMMA InvType == Inv => TypeOK
<1> SUFFICES ASSUME Inv PROVE TypeOK
  OBVIOUS
<1>1. HeapInv /\ StateInv /\ WalkInv
  BY DEF Inv
<1>2. /\ GoodMappings(maps) /\ GoodHeaders(Heap.hdr) /\ GoodTiling(Heap, maps)
      /\ GoodList(Heap) /\ Heap.hdr = hdr /\ Heap.free = free
  BY <1>1, HeapFacts
<1>3. Pages * PAGE_SIZE \in Nat
  BY UnitsType, PageMultiple
<1>4. Cells \subseteq Address
  <2>1. ASSUME NEW a \in Cells PROVE a \in Nat /\ a < Pages * PAGE_SIZE
    BY <1>1, <1>2, HeaderFacts, CellPlace
  <2>2. QED
    BY <2>1, <1>3 DEF Address
<1>5. \A a \in Cells : hdr[a] \in [size : Nat, allocated : BOOLEAN, mark : BOOLEAN]
  BY <1>1, HeaderFacts DEF Header
<1>6. free \in Seq(Address)
  <2>1. free \in Seq(Nat) /\ Range(free) = FreeCells(hdr)
    BY <1>2 DEF GoodList
  <2>2. ASSUME NEW i \in 1 .. Len(free) PROVE free[i] \in Address
    <3>1. free[i] \in Range(free)
      BY <2>1 DEF Range
    <3>2. QED
      BY <3>1, <2>1, <1>4 DEF FreeCells, Cells
  <2>3. QED
    BY <2>1, <2>2, SeqDef
<1>7. maps \subseteq [start : Address, end : Address]
  <2>1. ASSUME NEW m \in maps PROVE m \in [start : Address, end : Address]
    <3>1. /\ m.start \in Nat /\ m.end \in Nat
          /\ m.start < m.end /\ m.end <= Pages * PAGE_SIZE
          /\ m = [start |-> m.start, end |-> m.end]
      BY <1>2, MappingFacts
    <3>2. m.start \in Address /\ m.end \in Address
      BY <3>1, <1>3 DEF Address
    <3>3. QED
      BY <3>1, <3>2
  <2>2. QED
    BY <2>1
<1>8. listed \in Seq(maps) /\ todo \in Seq(maps) /\ pc \in {"mutator", "sweep", "swept"}
  <2>1. /\ listed \in Seq(maps) /\ todo \in {listed, <<>>}
        /\ pc \in {"mutator", "sweep", "swept"}
    BY <1>1 DEF StateInv
  <2>2. <<>> \in Seq(maps)
    BY EmptySeq
  <2>3. QED
    BY <2>1, <2>2
<1>9. cur \in Address /\ live \subseteq Address
  BY <1>1, <1>4 DEF WalkInv, StateInv, Allocated
<1>10. QED
  BY <1>4, <1>5, <1>6, <1>7, <1>8, <1>9 DEF TypeOK

(* The tiling, as the runs check it.                                       *)
LEMMA InvTiled == Inv => Tiled
<1> SUFFICES ASSUME Inv PROVE Tiled
  OBVIOUS
<1>1. GoodTiling(Heap, maps) /\ Heap.hdr = hdr
  BY HeapFacts DEF Inv
<1>2. \A m \in maps : m.start \in Cells
  BY <1>1 DEF GoodTiling, Cells
<1>3. ASSUME NEW a \in Cells
      PROVE  \E m \in maps :
               /\ m.start <= a /\ a < m.end
               /\ End(Heap, a) = m.end \/ (End(Heap, a) < m.end /\ End(Heap, a) \in Cells)
  <2>1. PICK m \in maps : Inside(a, m) /\ EndsWell(Heap, a, m)
    BY <1>1 DEF GoodTiling, Cells
  <2>2. QED
    BY <2>1, <1>1 DEF Inside, EndsWell, Cells
<1>4. \A a, b \in Cells : a < b => End(Heap, a) <= b
  BY <1>1 DEF GoodTiling, Cells
<1>5. QED
  BY <1>2, <1>3, <1>4 DEF Tiled

(* The free list, as the runs check it.                                    *)
LEMMA InvFreeList == Inv => FreeListExact
<1> SUFFICES ASSUME Inv PROVE FreeListExact
  OBVIOUS
<1>1. Range(free) = FreeCells(hdr) /\ IsInjective(free)
  BY HeapFacts DEF Inv, GoodList
<1>2. FreeCells(hdr) = Cells \ Allocated
  BY DEF FreeCells, Cells, Allocated
<1>3. QED
  BY <1>1, <1>2 DEF FreeListExact

(* The order of the list, as the runs check it.                            *)
LEMMA InvOrdered == TopDown /\ Inv => ListOrdered
<1> SUFFICES ASSUME TopDown, Inv PROVE ListOrdered
  OBVIOUS
<1>1. Sorted(free)
  BY HeapFacts DEF Inv, HeapInv, HeapOK, Tidy
<1>2. DOMAIN free = 1 .. Len(free)
  BY HeapFacts, LenProperties DEF Inv, GoodList
<1>3. QED
  BY <1>1, <1>2 DEF Sorted, ListOrdered

(* Free neighbours, as the runs check them.                                *)
LEMMA InvJoined == TopDown /\ Inv => Joined
<1> SUFFICES ASSUME TopDown, Inv PROVE Joined
  OBVIOUS
<1>1. Tidy(Heap) /\ Heap.hdr = hdr
  BY HeapFacts DEF Inv, HeapInv, HeapOK
<1>2. FreeCells(hdr) = Cells \ Allocated
  BY DEF FreeCells, Cells, Allocated
<1>3. QED
  BY <1>1, <1>2 DEF Joined, Tidy

(* The walk, as the runs check it.                                         *)
LEMMA InvWalk == Inv => WalkOnCells
BY DEF Inv, WalkInv, WalkOnCells

(* The mapping a cell lies in is the only one.                             *)
LEMMA MappedIs ==
  ASSUME HeapInv, NEW a \in Cells
  PROVE  Mapped(a) \in maps /\ Inside(a, Mapped(a))
<1>1. PICK m \in maps : Inside(a, m)
  BY HeapFacts, HeaderFacts, CellPlace
<1>2. \E n \in maps : n.start <= a /\ a < n.end
  BY <1>1 DEF Inside
<1>3. QED
  BY <1>2, Zenon DEF Mapped, Inside

(* The outcome of a sweep, as the runs check it.                           *)
LEMMA InvSweep == Inv => SweepExact
<1> SUFFICES ASSUME Inv, pc = "swept" PROVE
      /\ live \subseteq Allocated
      /\ \A a \in Allocated :
           Mapped(a) \in Range(listed) => a \in live /\ ~hdr[a].mark
  BY DEF SweepExact
<1>1. HeapInv /\ StateInv /\ MarksInv
  BY DEF Inv
<1>2. live \subseteq Allocated /\ todo = <<>> /\ listed \in Seq(maps)
  BY <1>1 DEF StateInv
<1>3. ASSUME NEW a \in Allocated, Mapped(a) \in Range(listed)
      PROVE  a \in live /\ ~hdr[a].mark
  <2>1. a \in Cells /\ hdr[a].allocated
    BY DEF Allocated
  <2>2. Inside(a, Mapped(a))
    BY <2>1, <1>1, MappedIs
  <2>3. PICK i \in DOMAIN listed : Mapped(a) = listed[i]
    BY <1>3 DEF Range
  <2>4. listed # <<>>
    BY <2>3
  <2>5. i = 1
    <3>1. Len(listed) = 1
      BY <2>4, <1>1, WalkFacts
    <3>2. DOMAIN listed = 1 .. Len(listed)
      BY <1>2, LenProperties
    <3>3. QED
      BY <3>1, <3>2, <2>3
  <2>6. InWalk(a)
    BY <2>2, <2>3, <2>4, <2>5 DEF InWalk
  <2>7. QED
    BY <2>1, <2>6, <1>1, <1>2 DEF MarksInv
<1>4. QED
  BY <1>2, <1>3

(* Every variable of the allocator keeps its type: addresses stay inside   *)
(* the memory mmap gave out.                                               *)
THEOREM TypeCorrect == Spec => []TypeOK
BY Invariance, InvType, PTL

(* The cells tile their mappings whatever is split, given back and joined: *)
(* a header read at the end of a cell is the header of a cell.             *)
THEOREM CellsTile == Spec => []Tiled
BY Invariance, InvTiled, PTL

(* The free list holds exactly the cells that are not in use, each once:   *)
(* allocate() never hands out a block twice, and none is lost to it.       *)
THEOREM ListExact == Spec => []FreeListExact
BY Invariance, InvFreeList, PTL

(* Where mmap places mappings at falling addresses, the free list is       *)
(* sorted: insert() finds the place of a cell by walking up to it.         *)
THEOREM ListSorted ==
  ASSUME TopDown
  PROVE  Spec => []ListOrdered
<1>1. Inv => ListOrdered
  BY InvOrdered
<1>2. QED
  BY <1>1, Invariance, PTL

(* Where mmap places mappings at falling addresses, deallocate() leaves no *)
(* two free neighbours unjoined.                                           *)
THEOREM NeighboursJoined ==
  ASSUME TopDown
  PROVE  Spec => []Joined
<1>1. Inv => Joined
  BY InvJoined
<1>2. QED
  BY <1>1, Invariance, PTL

(* Runtime::sweep stays on cells although it gives cells back, and joins   *)
(* them, while it walks over them.                                         *)
THEOREM WalkStaysOnCells == Spec => []WalkOnCells
BY Invariance, InvWalk, PTL

(* A sweep gives back the unmarked objects of the mapping it walks, keeps  *)
(* the marked ones and clears their marks.                                 *)
THEOREM SweepsExactly == Spec => []SweepExact
BY Invariance, InvSweep, PTL
-----------------------------------------------------------------------------
(* The block in the cell at a, and the blocks the abstract allocator has.  *)
BlockAt(a) == [lo |-> a + HeaderSize, hi |-> End(Heap, a)]
InUse == {BlockAt(a) : a \in Allocated}

(* The addresses, the blocks and what keeps blocks apart, as in            *)
(* BlockAllocator.                                                         *)
AlignedAddress == {a \in Address : a % Alignment = 0}
BlockOf == {b \in [lo : AlignedAddress, hi : AlignedAddress] : b.lo < b.hi}
Separate(b, c) == b.hi <= c.lo \/ c.hi <= b.lo

(* The block in a cell is one of the abstract allocator's, and blocks of   *)
(* different cells do not overlap.                                         *)
LEMMA BlockFacts ==
  ASSUME HeapInv, NEW a \in Cells
  PROVE  /\ BlockAt(a) \in BlockOf
         /\ \A b \in Cells : a # b => Separate(BlockAt(a), BlockAt(b))
<1>1. /\ GoodMappings(maps) /\ GoodHeaders(Heap.hdr) /\ GoodTiling(Heap, maps)
      /\ Cells = DOMAIN Heap.hdr
  BY HeapFacts DEF Cells
<1>2. HeaderSize \in Nat /\ Aligned(HeaderSize) /\ Pages * PAGE_SIZE \in Nat
  BY UnitsType, PageMultiple
<1>3. \A b \in Cells : /\ b \in Nat /\ Aligned(b) /\ End(Heap, b) \in Nat
                       /\ End(Heap, b) > b + HeaderSize /\ Aligned(End(Heap, b))
  BY <1>1, CellFacts
<1>4. End(Heap, a) <= Pages * PAGE_SIZE
  BY <1>1, CellPlace
<1>5. Aligned(a + HeaderSize)
  BY <1>2, <1>3, AlignedSum
<1>6. a + HeaderSize \in AlignedAddress /\ End(Heap, a) \in AlignedAddress
  BY <1>2, <1>3, <1>4, <1>5 DEF AlignedAddress, Address, Aligned
<1>7. BlockAt(a) \in BlockOf
  BY <1>3, <1>6 DEF BlockAt, BlockOf
<1>8. ASSUME NEW b \in Cells, a # b PROVE Separate(BlockAt(a), BlockAt(b))
  <2>1. End(Heap, a) <= b \/ End(Heap, b) <= a
    BY <1>1, <1>3, <1>8 DEF GoodTiling
  <2>2. End(Heap, a) <= b + HeaderSize \/ End(Heap, b) <= a + HeaderSize
    BY <2>1, <1>2, <1>3
  <2>3. QED
    BY <2>2 DEF BlockAt, Separate
<1>9. QED
  BY <1>7, <1>8

(* The same of all cells at once, so that it can be said of the next       *)
(* state.                                                                  *)
BlocksApart ==
  \A a \in Cells :
    /\ BlockAt(a) \in BlockOf
    /\ \A b \in Cells : a # b => Separate(BlockAt(a), BlockAt(b))

(* In every good heap blocks are apart,                                    *)
LEMMA BlocksAreApart == HeapInv => BlocksApart
BY BlockFacts DEF BlocksApart

(* so they are at all times: split_if_possible and coalesce_with_next cut  *)
(* and join cells without ever leaving two blocks that overlap, a block    *)
(* that is not aligned or one that ends beyond the pages mmap can give.    *)
THEOREM BlocksNeverOverlap == Spec => []BlocksApart
<1>1. Inv => BlocksApart
  BY BlocksAreApart DEF Inv
<1>2. QED
  BY <1>1, Invariance, PTL

(* In the next state too,                                                  *)
LEMMA BlocksStayApart == (HeapInv => BlocksApart)'
BY BlocksAreApart, PTL

(* and so the blocks of the next state are as BlockFacts says.             *)
LEMMA BlockFactsNext ==
  ASSUME HeapInv', NEW a \in Cells'
  PROVE  /\ BlockAt(a)' \in BlockOf
         /\ \A b \in Cells' : a # b => Separate(BlockAt(a)', BlockAt(b)')
BY BlocksStayApart DEF BlocksApart, BlockOf, AlignedAddress, Address, Separate

(* A block in use stays where it is and as long as it is.                  *)
LEMMA BlockKept ==
  ASSUME Kept, NEW a \in Allocated \cap Allocated'
  PROVE  BlockAt(a)' = BlockAt(a)
<1>1. hdr'[a] = hdr[a]
  BY DEF Kept
<1>2. QED
  BY <1>1 DEF BlockAt, End, Heap

(* Two cells never hold the same block.                                    *)
LEMMA BlockUnique ==
  ASSUME NEW a \in Nat, NEW b \in Nat, BlockAt(a) = BlockAt(b)
  PROVE  a = b
<1>1. a + HeaderSize = b + HeaderSize
  BY DEF BlockAt
<1>2. QED
  BY <1>1, UnitsType

(* allocate() adds a block that overlaps no other.                         *)
LEMMA AllocateBlock ==
  ASSUME HeapInv, NEW size \in Sizes, allocate(size)
  PROVE  \E b \in BlockOf : /\ \A c \in InUse : Separate(b, c)
                            /\ InUse' = InUse \cup {b}
<1>1. HeapInv' /\ Kept
  BY AllocateStep
<1>2. PICK c \in Cells' : c \notin Allocated /\ Allocated' = Allocated \cup {c}
  BY AllocateStep
<1>3. Allocated' \subseteq Cells'
  BY DEF Allocated
<1>4. \A a \in Allocated : BlockAt(a)' = BlockAt(a) /\ a \in Cells'
  BY <1>1, <1>2, <1>3, BlockKept
<1>5. BlockAt(c)' \in BlockOf
  BY <1>1, BlockFactsNext
<1>6. ASSUME NEW a \in Allocated PROVE Separate(BlockAt(c)', BlockAt(a))
  <2>1. a # c /\ a \in Cells'
    BY <1>2, <1>4
  <2>2. Separate(BlockAt(c)', BlockAt(a)')
    BY <2>1, <1>1, BlockFactsNext
  <2>3. QED
    BY <2>2, <1>4
<1>7. InUse' = InUse \cup {BlockAt(c)'}
  <2>1. InUse' = {BlockAt(a)' : a \in Allocated'}
    BY DEF InUse
  <2>2. QED
    BY <2>1, <1>2, <1>4 DEF InUse
<1>8. \A b \in InUse : Separate(BlockAt(c)', b)
  BY <1>6 DEF InUse
<1>9. QED
  BY <1>5, <1>7, <1>8

(* Giving a cell back takes its block away and no other.                   *)
LEMMA ReleaseBlock ==
  ASSUME HeapInv, NEW c \in Allocated, Becomes(Released(Heap, c)), maps' = maps
  PROVE  \E b \in InUse : InUse' = InUse \ {b}
<1>1. Kept /\ Allocated' = Allocated \ {c}
  BY ReleaseStep
<1>2. \A a \in Allocated' : BlockAt(a)' = BlockAt(a) /\ a \in Allocated
  BY <1>1, BlockKept
<1>3. \A a \in Allocated : BlockAt(a) = BlockAt(c) => a = c
  <2>1. \A a \in Allocated : a \in Nat
    BY HeaderFacts DEF Allocated
  <2>2. QED
    BY <2>1, BlockUnique
<1>4. InUse' = {BlockAt(a) : a \in Allocated'}
  BY <1>2 DEF InUse
<1>5. InUse' = InUse \ {BlockAt(c)}
  BY <1>1, <1>3, <1>4 DEF InUse
<1>6. BlockAt(c) \in InUse
  BY DEF InUse
<1>7. QED
  BY <1>5, <1>6

(* A step that writes no more than marks changes no block.                 *)
LEMMA MarksBlock ==
  ASSUME Allocated' = Allocated, \A a \in Cells : hdr'[a].size = hdr[a].size
  PROVE  InUse' = InUse
<1>1. Allocated \subseteq Cells
  BY DEF Allocated
<1>2. \A a \in Allocated : BlockAt(a)' = BlockAt(a)
  BY <1>1 DEF BlockAt, End, Heap
<1>3. QED
  BY <1>2 DEF InUse

(* A step of the abstract allocator.                                       *)
BlockStep ==
  \/ \E b \in BlockOf : (\A c \in InUse : Separate(b, c)) /\ InUse' = InUse \cup {b}
  \/ \E b \in InUse : InUse' = InUse \ {b}

(* Every step is one of the abstract allocator or changes no block.        *)
LEMMA StepSimulated ==
  ASSUME Inv, [Next]_vars
  PROVE  BlockStep \/ InUse' = InUse
<1>1. HeapInv /\ StateInv /\ WalkInv
  BY DEF Inv
<1>2. ASSUME NEW size \in Sizes, allocate(size) PROVE BlockStep
  BY <1>1, <1>2, AllocateBlock DEF BlockStep
<1>3. ASSUME NEW a \in Allocated, deallocate(a) PROVE BlockStep
  BY <1>1, <1>3, ReleaseBlock DEF deallocate, BlockStep
<1>4. ASSUME NEW S \in SUBSET Allocated, Mark(S) PROVE InUse' = InUse
  <2>1. hdr' = [a \in Cells |-> IF a \in S THEN [hdr[a] EXCEPT !.mark = TRUE] ELSE hdr[a]]
    BY <1>4 DEF Mark
  <2>2. ASSUME NEW a \in Cells
        PROVE  hdr'[a].size = hdr[a].size /\ hdr'[a].allocated = hdr[a].allocated
    <3>1. hdr[a] \in Header
      BY <1>1, HeaderFacts
    <3>2. QED
      BY <2>1, <3>1 DEF Header
  <2>3. Allocated' = Allocated
    BY <2>1, <2>2 DEF Allocated, Cells
  <2>4. QED
    BY <2>2, <2>3, MarksBlock
<1>5. ASSUME SweepCell PROVE BlockStep \/ InUse' = InUse
  <2>1. CASE hdr[cur].allocated /\ ~hdr[cur].mark
    <3>1. Becomes(Released(Heap, cur)) /\ maps' = maps
      BY <1>5, <2>1 DEF SweepCell
    <3>2. cur \in Cells
      <4>1. pc = "sweep" /\ todo # <<>> /\ cur < todo[1].end
        BY <1>5 DEF SweepCell
      <4>2. todo[1].end \in Nat /\ cur \in Nat
        BY <4>1, <1>1, WalkFacts, HeapFacts, MappingFacts DEF StateInv, WalkInv, Address
      <4>3. cur # todo[1].end
        BY <4>1, <4>2
      <4>4. QED
        BY <4>1, <4>3, <1>1 DEF WalkInv
    <3>3. cur \in Allocated
      BY <2>1, <3>2 DEF Allocated
    <3>4. QED
      BY <3>1, <3>3, <1>1, ReleaseBlock DEF BlockStep
  <2>2. CASE ~ (hdr[cur].allocated /\ ~hdr[cur].mark)
    <3>1. PICK bit : hdr' = [hdr EXCEPT ![cur].mark = bit]
      BY <1>5, <2>2 DEF SweepCell
    <3>2. ASSUME NEW a \in Cells
          PROVE  hdr'[a].size = hdr[a].size /\ hdr'[a].allocated = hdr[a].allocated
      <4>1. hdr[a] \in Header /\ hdr \in [Cells -> Header]
        BY <1>1, HeaderFacts
      <4>2. QED
        BY <3>1, <4>1 DEF Header
    <3>3. DOMAIN hdr' = DOMAIN hdr
      BY <3>1
    <3>4. Allocated' = Allocated
      BY <3>2, <3>3 DEF Allocated, Cells
    <3>5. QED
      BY <3>2, <3>4, MarksBlock
  <2>3. QED
    BY <2>1, <2>2
<1>6. CASE SweepNextMapping \/ SweepOver \/ Return \/ UNCHANGED vars
  <2>1. UNCHANGED <<hdr, free>>
    BY <1>6 DEF SweepNextMapping, SweepOver, Return, vars
  <2>2. QED
    BY <2>1 DEF InUse, BlockAt, End, Heap, Allocated, Cells
<1>7. QED
  BY <1>2, <1>3, <1>4, <1>5, <1>6 DEF Next

(* The allocator implements the abstract one: allocate() adds an aligned   *)
(* block that overlaps none in use, deallocate() and the sweep take one    *)
(* away, and no other step moves, shrinks or drops a block.                *)
THEOREM Refinement == Spec => ImplementsBlockAllocator
<1>1. Init => Blocks!Init
  BY DEF Init, Blocks!Init, Allocated, Cells
<1>2. Inv /\ [Next]_vars => [Blocks!Next]_{[lo |-> a + HeaderSize, hi |-> End(Heap, a)] : a \in Allocated}
  <2> SUFFICES ASSUME Inv, [Next]_vars
               PROVE  [Blocks!Next]_{[lo |-> a + HeaderSize, hi |-> End(Heap, a)] : a \in Allocated}
    OBVIOUS
  <2>1. BlockStep \/ InUse' = InUse
    BY StepSimulated
  <2>2. QED
    BY <2>1 DEF BlockStep, InUse, BlockAt, BlockOf, AlignedAddress, Separate,
                Blocks!Next, Blocks!Allocate, Blocks!Deallocate, Blocks!Block,
                Blocks!Disjoint
<1>3. QED
  BY <1>1, <1>2, Invariance, PTL DEF Spec, ImplementsBlockAllocator, Blocks!Spec

(* allocate() returns a block that is not in use and at least as long as   *)
(* what was asked for, also where extend() sized the mapping for a request *)
(* it had not rounded up.                                                  *)
THEOREM RequestsServed == Spec => AllocateServes
<1>1. Inv => \A size \in Sizes : allocate(size) =>
        \E a \in DOMAIN hdr' :
          /\ hdr'[a].allocated /\ a \notin Allocated
          /\ hdr'[a].size >= size
  <2> SUFFICES ASSUME Inv, NEW size \in Sizes, allocate(size)
               PROVE  \E a \in DOMAIN hdr' :
                        /\ hdr'[a].allocated /\ a \notin Allocated
                        /\ hdr'[a].size >= size
    OBVIOUS
  <2>1. HeapInv
    BY DEF Inv
  <2>2. HeapInv'
    BY <2>1, AllocateStep
  <2>3. PICK c \in Cells' : /\ c \notin Allocated /\ Allocated' = Allocated \cup {c}
                            /\ hdr'[c].size >= Needed(size)
    BY <2>1, AllocateStep
  <2>4. hdr'[c].allocated /\ c \in DOMAIN hdr'
    BY <2>3 DEF Allocated, Cells
  <2>5. hdr'[c].size \in Nat
    BY <2>2, <2>4 DEF HeapInv, HeapOK, GoodHeap, GoodHeaders, Header, Heap
  <2>6. size \in Nat /\ Needed(size) \in Nat /\ Needed(size) >= size
    BY RequestAssumption, NeededFacts
  <2>7. hdr'[c].size >= size
    BY <2>3, <2>5, <2>6
  <2>8. QED
    BY <2>3, <2>4, <2>7
<1>2. QED
  BY <1>1, Invariance, PTL DEF AllocateServes
=============================================================================
