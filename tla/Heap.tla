---------------------------------- MODULE Heap ---------------------------------
(***************************************************************************)
(* The runtime as the program sees it, over its allocators: the bins of    *)
(* cells of one size (bin.cpp), the allocator of large objects, the main   *)
(* allocator that sends a request to one of them by its size and a cell    *)
(* back by what its header says, and the collections, again and again.     *)
(*                                                                         *)
(* The program is stopped while a collection runs.  Marking is one step    *)
(* here, as Marking shows it to be, and like there it may come across what *)
(* earlier collections left in the rings of the workers' deques; sweeping  *)
(* is done by a thread for each allocator, one cell at a time.  Of the     *)
(* large allocator, whose cells FreeListAllocator cuts and joins, only the *)
(* mappings are kept: a mapping is LargeCells cells, any free one may      *)
(* serve a request.                                                        *)
(***************************************************************************)
EXTENDS Naturals, Sequences, FiniteSets, SequencesExt

CONSTANTS
  BIN_LIMIT, MIN_ALLOCATION_SIZE,
  CellsIn,      \* the cells a mapping of a bin is cut into, by bin
  LargeCells,   \* bound of the model: cells in a mapping of the large allocator
  Pages,        \* bound of the model: mappings of each allocator
  MaxMappings,  \* bound of the model: mappings of all of them
  Sizes,        \* requested sizes
  MaxFrames,    \* bound of the model: frames on the shadow stack
  Null

Bins == 0 .. BIN_LIMIT - 1
LARGE_BIN == BIN_LIMIT + 1
Allocators == Bins \cup {LARGE_BIN}

\* With a single cell the loop that links a mapping would not run at all.
ASSUME BinAssumption ==
  /\ BIN_LIMIT \in Nat \ {0} /\ MIN_ALLOCATION_SIZE \in Nat \ {0}
  /\ CellsIn \in [Bins -> Nat \ {0, 1}] /\ LargeCells \in Nat \ {0}
ASSUME BoundAssumption ==
  /\ Pages \in [Allocators -> Nat] /\ MaxMappings \in Nat
  /\ Sizes \subseteq Nat /\ MaxFrames \in Nat

class_size(i) == MIN_ALLOCATION_SIZE * 2^i
CellCount(i) == IF i = LARGE_BIN THEN LargeCells ELSE CellsIn[i]
Slots(i) == 1 .. CellCount(i)
Cell == UNION {{<<i, p, s>> : p \in 1 .. Pages[i], s \in Slots(i)} : i \in Allocators}
ASSUME NullAssumption == Null \notin Cell

VARIABLES
  hdr,    \* the headers
  free,   \* the list from free_head of each allocator
  pages,  \* how many mappings each allocator has made
  maps,   \* the list from map_head of each allocator
  refs, stack, fresh,  \* the program's, see ManagedHeap
  rings,  \* the cells whose pointers the ring slots of the deques may hold
  todo,   \* the mappings each thread of a sweep has left, and its cell in the first
  seen    \* history: what the marking before this sweep may have come across

vars == <<hdr, free, pages, maps, refs, stack, fresh, rings, todo, seen>>
allocators == <<free, pages, maps>>
marking == <<rings, seen>>

Objects == INSTANCE ManagedHeap WITH
  Object <- Cell, objects <- {c \in Cell : hdr[c].allocated}

Sweeping == \E i \in Allocators : todo[i].maps # <<>>

Init ==
  /\ hdr = [c \in Cell |-> [size |-> 0, mark |-> FALSE, allocated |-> FALSE]]
  /\ free = [i \in Allocators |-> <<>>]
  /\ pages = [i \in Allocators |-> 0]
  /\ maps = [i \in Allocators |-> <<>>]
  /\ refs = [c \in Cell |-> Null] /\ stack = <<>> /\ fresh = Null
  /\ todo = [i \in Allocators |-> [maps |-> <<>>, slot |-> 1]]
  /\ rings = {} /\ seen = {}

-----------------------------------------------------------------------------
(* Choosing an allocator.                                                  *)

\* For a request: the first bin whose cells are large enough.
BinFor(size) ==
  LET fitting == {i \in Bins : size <= class_size(i)}
  IN IF fitting = {} THEN LARGE_BIN ELSE CHOOSE i \in fitting : \A j \in fitting : i <= j

countr_zero(n) == CHOOSE k \in 0 .. n : n % 2^k = 0 /\ n % 2^(k + 1) # 0

\* For a cell: from the size in its header.
BinOf(size) ==
  IF size = 0 \/ size > class_size(BIN_LIMIT - 1) THEN LARGE_BIN
  ELSE countr_zero(size) - countr_zero(MIN_ALLOCATION_SIZE)

\* Sizes are powers of two, so a size that a bin has written leads back to it.
ASSUME ClassAssumption ==
  \A i \in Bins : class_size(i) \in Nat \ {0} /\ BinOf(class_size(i)) = i

-----------------------------------------------------------------------------
(* Allocation.                                                             *)

\* The cells of a new mapping of a bin that are linked: all but the last one.
init_mapping(i, p) == [s \in 1 .. CellsIn[i] - 1 |-> <<i, p, s>>]
LargeMapping(p) == [s \in 1 .. LargeCells |-> <<LARGE_BIN, p, s>>]

Mapped == UNION {{i} \X (1 .. pages[i]) : i \in Allocators}
CanExtend(i) == pages[i] < Pages[i] /\ Cardinality(Mapped) < MaxMappings
Linked(i) == IF i = LARGE_BIN THEN LargeMapping(pages[i] + 1) ELSE init_mapping(i, pages[i] + 1)

MapsReplaced(i, p) == <<p>>

\* A new mapping in the list of mappings; the large allocator drops the first one.
WithMapping(i, p) ==
  IF i = LARGE_BIN /\ maps[i] # <<>> THEN <<p>> \o Tail(maps[i]) ELSE <<p>> \o maps[i]

extend(i) ==
  /\ CanExtend(i)
  /\ pages' = [pages EXCEPT ![i] = @ + 1]
  /\ maps' = [maps EXCEPT ![i] = WithMapping(i, pages[i] + 1)]

UnlinkForgotten(list, k) == list

\* The free list without its k-th cell.
Unlink(list, k) == RemoveAt(list, k)

SizeRequested(i, size) == size

\* The size in the header of a cell that is handed out.
SizeWritten(i, size) == IF i = LARGE_BIN THEN size ELSE class_size(i)

HandOutMarked(i, size, list, k) ==
  LET c == list[k]
  IN /\ free' = [free EXCEPT ![i] = Unlink(list, k)]
     /\ hdr' = [hdr EXCEPT ![c] = [size |-> SizeWritten(i, size), mark |-> @.mark,
                                   allocated |-> TRUE]]
     /\ fresh' = c

\* The k-th cell of the list is handed out: the runtime writes the reference
\* map and clears the mark, and the program fills its object in.
HandOut(i, size, list, k) ==
  LET c == list[k]
  IN /\ free' = [free EXCEPT ![i] = Unlink(list, k)]
     /\ hdr' = [hdr EXCEPT ![c] = [size |-> SizeWritten(i, size), mark |-> FALSE,
                                   allocated |-> TRUE]]
     /\ fresh' = c

\* A bin takes the first cell of its list, the large allocator any that fits.
AllocateFromList(i, size) ==
  /\ \E k \in DOMAIN free[i] : (i = LARGE_BIN \/ k = 1) /\ HandOut(i, size, free[i], k)
  /\ UNCHANGED <<pages, maps>>

\* The large allocator may have free cells that are too small.
AllocateExtending(i, size) ==
  /\ i = LARGE_BIN \/ free[i] = <<>>
  /\ extend(i)
  /\ HandOut(i, size, Linked(i) \o free[i], 1)

allocate(size) ==
  /\ ~Sweeping
  /\ \/ AllocateFromList(BinFor(size), size)
     \/ AllocateExtending(BinFor(size), size)
  /\ UNCHANGED <<refs, stack, todo, marking>>

Program ==
  /\ ~Sweeping
  /\ UNCHANGED <<hdr, allocators, todo, marking>>
  /\ Objects!Program

-----------------------------------------------------------------------------
(* Collection.                                                             *)

\* A thread walks over the mappings in the list, cell by cell.
Walk(i) == [maps |-> maps[i], slot |-> 1]
Visited(i) == <<i, Head(todo[i].maps), todo[i].slot>>
Advance(i) ==
  IF todo[i].slot < CellCount(i) THEN [maps |-> todo[i].maps, slot |-> todo[i].slot + 1]
  ELSE [maps |-> Tail(todo[i].maps), slot |-> 1]

Marked == {c \in Cell : hdr[c].mark}

(***************************************************************************)
(* Scanning and marking.  An object that is found marked already is taken  *)
(* to have been traced, so what it refers to is not looked at.  The        *)
(* marking has to find what the frames lead to.  A worker that loses the   *)
(* race for a last task may draw any pointer in a ring besides, and as it  *)
(* may do so when the others have already looked into all queues, what     *)
(* hangs from that pointer may be marked in part.  The pointer may be that *)
(* of a cell that is free by now: its mark is set like any other, and here *)
(* nothing hangs from it (in the program the link of the free list lies    *)
(* where the reference map would, and what comes of that is not defined).  *)
(***************************************************************************)
Found(roots) == Objects!ReachFrom(roots, refs, Marked)
Traced == Found(Objects!Roots)
Findable == Found(Objects!Roots \cup rings)

\* The pointers that are pushed when the cells in traced are traced.
Pushed(traced) == {refs[c] : c \in traced} \ {Null}

collect ==
  /\ ~Sweeping
  /\ \E strays \in SUBSET (Findable \ Traced) :
       LET new == (Traced \cup strays) \ Marked
       IN /\ hdr' = [c \in Cell |-> IF c \in new THEN [hdr[c] EXCEPT !.mark = TRUE] ELSE hdr[c]]
          /\ rings' = rings \cup Pushed(new)
  /\ seen' = Findable
  /\ todo' = [i \in Allocators |-> Walk(i)]
  /\ fresh' = Null
  /\ UNCHANGED <<allocators, refs, stack>>

deallocateKeepingFlag(c) ==
  LET i == BinOf(hdr[c].size)
  IN /\ free' = [free EXCEPT ![i] = <<c>> \o @]
     /\ UNCHANGED hdr
     /\ refs' = [refs EXCEPT ![c] = Null]

\* The cell goes back to the allocator that its header names.  What its slots
\* hold means nothing from here on.
deallocate(c) ==
  LET i == BinOf(hdr[c].size)
  IN /\ free' = [free EXCEPT ![i] = <<c>> \o @]
     /\ hdr' = [hdr EXCEPT ![c].allocated = FALSE]
     /\ refs' = [refs EXCEPT ![c] = Null]

Keep(c) == UNCHANGED <<hdr, free, refs>>

Unmark(c) == hdr' = [hdr EXCEPT ![c].mark = FALSE] /\ UNCHANGED <<free, refs>>

\* The thread of allocator i visits its next cell.
sweep(i) ==
  /\ todo[i].maps # <<>>
  /\ todo' = [todo EXCEPT ![i] = Advance(i)]
  /\ LET c == Visited(i)
     IN \/ ~hdr[c].allocated /\ UNCHANGED <<hdr, free, refs>>
        \/ hdr[c].allocated /\ hdr[c].mark /\ Unmark(c)
        \/ hdr[c].allocated /\ ~hdr[c].mark /\ deallocate(c)
  /\ seen' = IF Sweeping' THEN seen ELSE {}
  /\ UNCHANGED <<pages, maps, stack, fresh, rings>>

Next ==
  \/ \E size \in Sizes : allocate(size)
  \/ Program
  \/ collect
  \/ \E i \in Allocators : sweep(i)

Spec == Init /\ [][Next]_vars

-----------------------------------------------------------------------------
(* Properties.                                                             *)

(* The runtime keeps its promise to the program: an object it hands out    *)
(* does not exist yet, and one that exists goes only when the program can  *)
(* no longer reach it.  Holds while the large allocator has one mapping.   *)
ImplementsManagedHeap == Objects!Spec

IsLinked(c) == c[1] = LARGE_BIN \/ c[3] < CellsIn[c[1]]

(* No cell is lost and none is in two places: a cell of a mapping is       *)
(* either allocated or once in the free list of the allocator the mapping  *)
(* is of, but for the last one of a bin's mapping, which init_mapping      *)
(* never links.                                                            *)
CellsAccounted ==
  /\ \A i \in Allocators : ToSet(free[i]) \subseteq Cell /\ IsInjective(free[i])
  /\ \A c \in Cell : LET i == c[1]
                    IN /\ \A j \in Allocators \ {i} : c \notin ToSet(free[j])
                       /\ (c \in ToSet(free[i])) = (/\ c[2] <= pages[i] /\ IsLinked(c)
                                                   /\ ~hdr[c].allocated)
                       /\ hdr[c].allocated => c[2] <= pages[i] /\ IsLinked(c)

\* The cells that the thread of allocator i has yet to visit.
ToVisit(i) ==
  LET left == todo[i].maps
  IN {c \in Cell : /\ c[1] = i /\ left # <<>>
                   /\ \/ c[2] = Head(left) /\ c[3] >= todo[i].slot
                      \/ c[2] \in ToSet(Tail(left))}

(* A collection leaves no mark on an object for the next one to mistake    *)
(* for its own: an object that is marked is one that a thread has yet to   *)
(* visit.  A mark may outlast the sweep in a free cell, which a pointer in *)
(* a ring led to; it must be gone when the cell is handed out.  Holds      *)
(* while the large allocator has one mapping.                              *)
MarksClear ==
  \A c \in Marked : hdr[c].allocated => c \in ToVisit(c[1])

(* When the threads of a sweep have joined, no object is left but those    *)
(* that hang from a frame or from a pointer which was in a ring when the   *)
(* collection began.  As long as nothing has been pushed before, these are *)
(* the ones the program can reach.  Holds while the large allocator has    *)
(* one mapping.                                                            *)
GarbageFreed ==
  [][Sweeping /\ ~Sweeping' => {c \in Cell : hdr'[c].allocated} \subseteq seen]_vars

(* The threads of a sweep share no lock, so the thread of one allocator    *)
(* touches neither the cells nor the free list of another.                 *)
OwnBin ==
  [][Sweeping => \A i \in Allocators : todo'[i] # todo[i] =>
       /\ \A j \in Allocators \ {i} : free'[j] = free[j] /\ todo'[j] = todo[j]
       /\ \A c \in Cell : c[1] # i => hdr'[c] = hdr[c]]_vars

(* What the program can reach has not been given back, as the runtime's    *)
(* tests say of the objects that a frame leads to.  Broken when the large  *)
(* allocator drops a mapping from its list.                                *)
LiveAllocated == \A c \in Objects!Reachable : hdr[c].allocated
=============================================================================
