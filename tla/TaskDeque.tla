------------------------------ MODULE TaskDeque ------------------------------
(***************************************************************************)
(* What one work-stealing deque of the marker promises, as a sequence: the *)
(* owner works at the right end, thieves at the left end, every step is    *)
(* atomic.  The ring buffer of WorkStealingDeque.tla implements it, and    *)
(* each deque of Marking.tla behaves as one of these.                      *)
(*                                                                         *)
(* The one surprise is PopLose.  When a thief takes the last task while    *)
(* the owner is popping it, the code leaves the deque holding whatever the *)
(* next ring slot happened to contain: Null if it was never written, else  *)
(* a task that was handed out before.                                      *)
(***************************************************************************)
EXTENDS Naturals, Sequences

CONSTANTS
  Task,       \* tasks (object pointers) that may be pushed
  Null,       \* no task: the null pointer, what an unwritten ring slot holds
  Capacity,   \* ring slots, at least 1; one of them always stays free
  Leftover,   \* contents of the ring slots when one begins to look at it
  LeftItems   \* tasks the deque may hold then

VARIABLES
  items,      \* tasks waiting in the deque, oldest first
  popping,    \* the owner has committed to the last task, not yet won it
  spent       \* values a ring slot may still hold

dequeVars == <<items, popping, spent>>

Front(s) == SubSeq(s, 1, Len(s) - 1)

TypeOK ==
  /\ items \in Seq(Task \cup {Null})
  /\ popping \in BOOLEAN
  /\ spent \subseteq Task \cup {Null}

Init ==
  /\ items \in LeftItems
  /\ popping = FALSE
  /\ spent = Leftover

Push(x) ==
  /\ ~popping
  /\ Len(items) < Capacity - 1
  /\ items' = Append(items, x)
  /\ spent' = spent \cup {x}
  /\ UNCHANGED popping

Pop ==
  /\ ~popping
  /\ Len(items) > 1
  /\ items' = Front(items)
  /\ UNCHANGED <<popping, spent>>

PopLast ==
  /\ ~popping
  /\ Len(items) = 1
  /\ popping' = TRUE
  /\ UNCHANGED <<items, spent>>

PopWin ==
  /\ popping
  /\ items # <<>>
  /\ items' = <<>>
  /\ popping' = FALSE
  /\ UNCHANGED spent

PopLose ==
  /\ popping
  /\ items = <<>>
  /\ \E x \in spent : items' = <<x>>
  /\ popping' = FALSE
  /\ UNCHANGED spent

Steal ==
  /\ items # <<>>
  /\ items' = Tail(items)
  /\ UNCHANGED <<popping, spent>>

Next ==
  \/ \E x \in Task : Push(x)
  \/ Pop
  \/ PopLast
  \/ PopWin
  \/ PopLose
  \/ Steal

Spec == Init /\ [][Next]_dequeVars
=============================================================================
