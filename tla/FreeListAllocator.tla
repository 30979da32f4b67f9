-------------------------- MODULE FreeListAllocator --------------------------
(***************************************************************************)
(* runtime/fla.cpp and fla.hpp: the allocator of large objects.  It maps   *)
(* runs of pages, cuts them into cells with a header in front, keeps the   *)
(* free cells in a list it searches first fit, splits cells that are too   *)
(* large and joins neighbours when one is given back.  Runtime::sweep      *)
(* walks all cells and gives back those that are not marked, so the walk   *)
(* and the joining are interleaved here one cell at a time.                *)
(*                                                                         *)
(* One thread at a time uses it.  Addresses count from the bottom of the   *)
(* modelled memory.                                                        *)
(***************************************************************************)
EXTENDS Naturals, SequencesExt

CONSTANTS
  HeaderSize, MapHeaderSize,    \* sizeof(Header), sizeof(MapHeader)
  Alignment,                    \* alignof(std::max_align_t)
  MIN_ALLOCATION_SIZE,
  PAGE_SIZE,
  Sizes,                        \* requested sizes
  Pages,                        \* bound of the model: pages mmap can give out
  TopDown                       \* mmap places mappings below earlier ones

(* Headers keep what follows them aligned; a page holds its own header and *)
(* the smallest cell.                                                      *)
ASSUME UnitsAssumption ==
  /\ Alignment \in Nat \ {0}
  /\ MIN_ALLOCATION_SIZE \in Nat \ {0}
  /\ PAGE_SIZE \in Nat \ {0} /\ PAGE_SIZE % Alignment = 0
  /\ HeaderSize \in Nat \ {0} /\ HeaderSize % Alignment = 0
  /\ MapHeaderSize \in Nat \ {0} /\ MapHeaderSize % Alignment = 0
  /\ MapHeaderSize + HeaderSize + MIN_ALLOCATION_SIZE <= PAGE_SIZE
ASSUME RequestAssumption ==
  Sizes \subseteq Nat /\ Pages \in Nat /\ TopDown \in BOOLEAN

Address == 0 .. Pages * PAGE_SIZE

VARIABLES
  hdr,      \* the headers of the cells, by address
  free,     \* the list from free_head
  maps,     \* mappings: first cell and end
  listed,   \* the list from map_head
  pc,       \* "mutator", or where Runtime::sweep is
  todo,     \* mappings the walk still has to visit, r first
  cur,      \* the walk's cell in the first of them
  live      \* history: the cells that were marked live when the sweep began

vars == <<hdr, free, maps, listed, pc, todo, cur, live>>
walk == <<pc, todo, cur, live>>

align_up(n) == ((n + Alignment - 1) \div Alignment) * Alignment

Cells == DOMAIN hdr
Allocated == {a \in Cells : hdr[a].allocated}

Init ==
  /\ hdr = <<>>
  /\ free = <<>>
  /\ maps = {}
  /\ listed = <<>>
  /\ pc = "mutator"
  /\ todo = <<>>
  /\ cur = 0
  /\ live = {}

-----------------------------------------------------------------------------
(* The functions work on the headers and the free list, s = [hdr, free].   *)

Heap == [hdr |-> hdr, free |-> free]

End(s, a) == a + HeaderSize + s.hdr[a].size

With(h, a, header) == [b \in DOMAIN h \cup {a} |-> IF b = a THEN header ELSE h[b]]

findAny(s, size) == IF s.free = <<>> THEN 0 ELSE 1

(* The index of the first cell that is large enough, 0 for none. *)
find(s, size) == SelectInSeq(s.free, LAMBDA a : s.hdr[a].size >= size)

PagesFor(required_size) ==
  (required_size + align_up(MapHeaderSize) + PAGE_SIZE - 1) \div PAGE_SIZE

(* Where mmap may put a mapping of this many pages. *)
Placements(n) ==
  {p \in 0 .. Pages - n :
     \A m \in maps :
       \/ (p + n) * PAGE_SIZE <= m.start - align_up(MapHeaderSize)
       \/ ~TopDown /\ p * PAGE_SIZE >= m.end}

Mapping(p, n) ==
  [start |-> p * PAGE_SIZE + align_up(MapHeaderSize), end |-> (p + n) * PAGE_SIZE]

(* One free cell that fills the mapping, in front of the list. *)
extend(s, m) ==
  [hdr  |-> With(s.hdr, m.start, [size |-> m.end - m.start - HeaderSize,
                                  allocated |-> FALSE, mark |-> FALSE]),
   free |-> <<m.start>> \o s.free]

(* map_head->next is dropped into the new mapping's next, map_head is not. *)
LinkMapping(m) == IF listed = <<>> THEN <<m>> ELSE <<m>> \o Tail(listed)

split_without_room(s, i, payload_size) ==
  LET cell == s.free[i]
      new_cell == cell + payload_size + HeaderSize
      rest == s.hdr[cell].size - payload_size - HeaderSize
  IN  [hdr  |-> With([s.hdr EXCEPT ![cell].size = payload_size],
                     new_cell, [size |-> rest, allocated |-> FALSE, mark |-> FALSE]),
       free |-> InsertAt(s.free, i + 1, new_cell)]

split_if_possible(s, i, payload_size) ==
  LET cell == s.free[i]
      new_cell == cell + payload_size + HeaderSize
      rest == s.hdr[cell].size - payload_size - HeaderSize
  IN  IF s.hdr[cell].size >=
           payload_size + HeaderSize + HeaderSize + MIN_ALLOCATION_SIZE
        THEN [hdr  |-> With([s.hdr EXCEPT ![cell].size = payload_size],
                            new_cell, [size |-> rest,
                                       allocated |-> FALSE, mark |-> FALSE]),
              free |-> InsertAt(s.free, i + 1, new_cell)]
        ELSE s

TakenNotUnlinked(s, i, size) ==
  LET t == split_if_possible(s, i, size)
  IN  [hdr |-> [t.hdr EXCEPT ![s.free[i]].allocated = TRUE], free |-> t.free]

(* allocate() from the i-th free cell. *)
Taken(s, i, size) ==
  LET t == split_if_possible(s, i, size)
  IN  [hdr  |-> [t.hdr EXCEPT ![s.free[i]].allocated = TRUE],
       free |-> RemoveAt(t.free, i)]

InsertionPointFront(s, cell) == 1

(* insert() stops at the first cell that is not below the new one. *)
InsertionPoint(s, cell) ==
  LET i == SelectInSeq(s.free, LAMBDA a : a >= cell)
  IN  IF i = 0 THEN Len(s.free) + 1 ELSE i

coalesce_forgets_header(s, i) ==
  IF /\ i \in 1 .. Len(s.free) - 1
     /\ End(s, s.free[i]) = s.free[i + 1]
    THEN LET next == s.free[i + 1]
         IN  [hdr  |-> [b \in DOMAIN s.hdr \ {next} |->
                          IF b = s.free[i]
                            THEN [s.hdr[b] EXCEPT !.size = @ + s.hdr[next].size]
                            ELSE s.hdr[b]],
              free |-> RemoveAt(s.free, i + 1)]
    ELSE s

coalesce_not_adjacent(s, i) ==
  IF i \in 1 .. Len(s.free) - 1 /\ s.free[i] < s.free[i + 1]
    THEN LET next == s.free[i + 1]
         IN  [hdr  |-> [b \in DOMAIN s.hdr \ {next} |->
                          IF b = s.free[i]
                            THEN [s.hdr[b] EXCEPT
                                    !.size = End(s, next) - b - HeaderSize]
                            ELSE s.hdr[b]],
              free |-> RemoveAt(s.free, i + 1)]
    ELSE s

coalesce_with_next(s, i) ==
  IF /\ i \in 1 .. Len(s.free) - 1
     /\ End(s, s.free[i]) = s.free[i + 1]
    THEN LET next == s.free[i + 1]
         IN  [hdr  |-> [b \in DOMAIN s.hdr \ {next} |->
                          IF b = s.free[i]
                            THEN [s.hdr[b] EXCEPT
                                    !.size = @ + HeaderSize + s.hdr[next].size]
                            ELSE s.hdr[b]],
              free |-> RemoveAt(s.free, i + 1)]
    ELSE s

(* deallocate() before it looks at the cell's left neighbour... *)
Inserted(s, cell) ==
  LET i == InsertionPoint(s, cell)
  IN  coalesce_with_next([hdr  |-> [s.hdr EXCEPT ![cell].allocated = FALSE],
                          free |-> InsertAt(s.free, i, cell)], i)

(* ... and after. *)
Released(s, cell) == coalesce_with_next(Inserted(s, cell), InsertionPoint(s, cell) - 1)

Becomes(s) == hdr' = s.hdr /\ free' = s.free

-----------------------------------------------------------------------------
Needed(size) ==
  align_up(IF size < MIN_ALLOCATION_SIZE THEN MIN_ALLOCATION_SIZE ELSE size)

AllocateFromList(size) ==
  /\ pc = "mutator"
  /\ LET i == find(Heap, Needed(size))
     IN  i # 0 /\ Becomes(Taken(Heap, i, Needed(size)))
  /\ UNCHANGED <<maps, listed, walk>>

AllocateExtending(size) ==
  /\ pc = "mutator"
  /\ find(Heap, Needed(size)) = 0
  /\ \E p \in Placements(PagesFor(size + HeaderSize)) :
       LET m == Mapping(p, PagesFor(size + HeaderSize))
           s == extend(Heap, m)
       IN  /\ maps' = maps \cup {m}
           /\ listed' = LinkMapping(m)
           /\ Becomes(Taken(s, find(s, Needed(size)), Needed(size)))
  /\ UNCHANGED walk

allocate(size) == AllocateFromList(size) \/ AllocateExtending(size)

deallocate(a) ==
  /\ pc = "mutator"
  /\ a \in Allocated
  /\ Becomes(Released(Heap, a))
  /\ UNCHANGED <<maps, listed, walk>>

-----------------------------------------------------------------------------
(* One collection: the marker sets the mark bits of the objects in S, then *)
(* sweep() visits the cells of every mapping in the list.                  *)

Mark(S) ==
  /\ pc = "mutator"
  /\ S \subseteq Allocated
  /\ hdr' = [a \in Cells |->
               IF a \in S THEN [hdr[a] EXCEPT !.mark = TRUE] ELSE hdr[a]]
  /\ live' = S
  /\ pc' = "sweep"
  /\ todo' = listed
  /\ cur' = IF listed = <<>> THEN 0 ELSE listed[1].start
  /\ UNCHANGED <<free, maps, listed>>

SweepCellCachedSize ==
  /\ pc = "sweep"
  /\ todo # <<>>
  /\ cur < todo[1].end
  /\ IF hdr[cur].allocated /\ ~hdr[cur].mark
       THEN Becomes(Released(Heap, cur))
       ELSE /\ hdr' = [hdr EXCEPT ![cur].mark = @ /\ ~hdr[cur].allocated]
            /\ UNCHANGED free
  /\ cur' = End(Heap, cur)
  /\ UNCHANGED <<maps, listed, pc, todo, live>>

SweepCellKeepsMark ==
  /\ pc = "sweep"
  /\ todo # <<>>
  /\ cur < todo[1].end
  /\ IF hdr[cur].allocated /\ ~hdr[cur].mark
       THEN Becomes(Released(Heap, cur)) /\ cur' = End(Inserted(Heap, cur), cur)
       ELSE cur' = End(Heap, cur) /\ UNCHANGED <<hdr, free>>
  /\ UNCHANGED <<maps, listed, pc, todo, live>>

(* The walk steps on by the size it finds in the header after the visit.   *)
(* A cell that was joined to its left neighbour keeps its old header.      *)
SweepCell ==
  /\ pc = "sweep"
  /\ todo # <<>>
  /\ cur < todo[1].end
  /\ LET dead == hdr[cur].allocated /\ ~hdr[cur].mark
     IN  \/ /\ dead
            /\ Becomes(Released(Heap, cur))
            /\ cur' = End(Inserted(Heap, cur), cur)
         \/ /\ ~dead
            /\ hdr' = [hdr EXCEPT ![cur].mark = @ /\ ~hdr[cur].allocated]
            /\ cur' = End(Heap, cur)
            /\ UNCHANGED free
  /\ UNCHANGED <<maps, listed, pc, todo, live>>

SweepNextMapping ==
  /\ pc = "sweep"
  /\ todo # <<>>
  /\ cur >= todo[1].end
  /\ todo' = Tail(todo)
  /\ cur' = IF Len(todo) = 1 THEN 0 ELSE todo[2].start
  /\ UNCHANGED <<hdr, free, maps, listed, pc, live>>

SweepOver ==
  /\ pc = "sweep"
  /\ todo = <<>>
  /\ pc' = "swept"
  /\ UNCHANGED <<hdr, free, maps, listed, todo, cur, live>>

Return ==
  /\ pc = "swept"
  /\ pc' = "mutator"
  /\ live' = {}
  /\ UNCHANGED <<hdr, free, maps, listed, todo, cur>>

-----------------------------------------------------------------------------
Next ==
  \/ \E size \in Sizes : allocate(size)
  \/ \E a \in Allocated : deallocate(a)
  \/ \E S \in SUBSET Allocated : Mark(S)
  \/ SweepCell \/ SweepNextMapping \/ SweepOver \/ Return

Spec == Init /\ [][Next]_vars
-----------------------------------------------------------------------------
Mapped(a) == CHOOSE m \in maps : m.start <= a /\ a < m.end

(* Every variable has its type. *)
TypeOK ==
  /\ Cells \subseteq Address
  /\ \A a \in Cells : hdr[a] \in [size : Nat, allocated : BOOLEAN, mark : BOOLEAN]
  /\ free \in Seq(Address)
  /\ maps \subseteq [start : Address, end : Address]
  /\ listed \in Seq(maps) /\ todo \in Seq(maps)
  /\ pc \in {"mutator", "sweep", "swept"}
  /\ cur \in Address
  /\ live \subseteq Address

(* The cells tile their mapping: each ends where another one begins or the *)
(* mapping ends, and no header lies inside another cell.                   *)
Tiled ==
  /\ \A m \in maps : m.start \in Cells
  /\ \A a \in Cells : \E m \in maps :
       /\ m.start <= a /\ a < m.end
       /\ End(Heap, a) = m.end \/ (End(Heap, a) < m.end /\ End(Heap, a) \in Cells)
  /\ \A a, b \in Cells : a < b => End(Heap, a) <= b

(* The free list holds exactly the free cells, each one once. *)
FreeListExact == Range(free) = Cells \ Allocated /\ IsInjective(free)

(* Addresses rise along the free list, as long as mappings come at falling *)
(* addresses: extend() puts the new cell in front of the list, wherever    *)
(* mmap placed it, and insert() stops at the first cell above its own.     *)
ListOrdered == \A i, j \in DOMAIN free : i < j => free[i] < free[j]

(* No two neighbours are both free, as long as mappings come at falling    *)
(* addresses: insert() then finds the neighbours of every cell.            *)
Joined == \A a \in Cells \ Allocated : End(Heap, a) \notin Cells \ Allocated

(* The walk only ever reads headers of cells, whatever was joined behind   *)
(* or in front of it.                                                      *)
WalkOnCells ==
  pc = "sweep" /\ todo # <<>> => cur = todo[1].end \/ cur \in Cells

(* A sweep gives back every unmarked object of the mappings in the list,   *)
(* no marked one, and leaves their mark bits clear.                        *)
SweepExact ==
  pc = "swept" =>
    /\ live \subseteq Allocated
    /\ \A a \in Allocated :
         Mapped(a) \in Range(listed) => a \in live /\ ~hdr[a].mark

(* A sweep gives back every object that was not marked. *)
SweepFreesGarbage == pc = "swept" => Allocated \subseteq live

(* allocate() returns a block of at least the size asked for: the one the  *)
(* search finds after extend() has mapped pages for the unaligned size.    *)
AllocateServes ==
  [][\A size \in Sizes : allocate(size) =>
       \E a \in DOMAIN hdr' :
         /\ hdr'[a].allocated /\ a \notin Allocated
         /\ hdr'[a].size >= size]_vars

(* Blocks in use are aligned, they never overlap, move or change size, and *)
(* none disappears but the one given back.                                 *)
Blocks == INSTANCE BlockAllocator WITH
  Address <- {a \in Address : a % Alignment = 0},
  live    <- {[lo |-> a + HeaderSize, hi |-> End(Heap, a)] : a \in Allocated}

ImplementsBlockAllocator == Blocks!Spec
=============================================================================
