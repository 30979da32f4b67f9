-------------------------------- MODULE MCHeap --------------------------------
(* Instances of Heap.tla for TLC: two bins, the first with cells for       *)
(* requests of nothing at all, and the large allocator.                    *)
EXTENDS Heap

(* A bin's mapping has one cell more than can be used. *)
MCCellsIn == [i \in Bins |-> 2]

PagesBins == [i \in Allocators |-> IF i = 0 THEN 2 ELSE 1]
PagesLarge == [i \in Allocators |-> IF i = LARGE_BIN THEN 2 ELSE 1]
=============================================================================
