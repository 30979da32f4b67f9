---------------------------- MODULE BlockAllocator ----------------------------
(***************************************************************************)
(* What an allocator of the runtime promises its callers: blocks of memory *)
(* that do not overlap and that nobody moves, shrinks or takes away until  *)
(* they are given back.                                                    *)
(***************************************************************************)
EXTENDS Naturals

CONSTANT Address   \* where a block may begin or end

VARIABLE live      \* blocks in use: the addresses from lo up to, not with, hi

Block == {b \in [lo : Address, hi : Address] : b.lo < b.hi}

Disjoint(b, c) == b.hi <= c.lo \/ c.hi <= b.lo

Init == live = {}

Allocate ==
  \E b \in Block :
    /\ \A c \in live : Disjoint(b, c)
    /\ live' = live \cup {b}

Deallocate == \E b \in live : live' = live \ {b}

Next == Allocate \/ Deallocate

Spec == Init /\ [][Next]_live
=============================================================================
