------------------------------ MODULE ManagedHeap ------------------------------
(***************************************************************************)
(* What the runtime promises a program: objects that are handed out once,  *)
(* stay as they are for as long as the program can reach them from its     *)
(* frames, and may go at any time after that.                              *)
(***************************************************************************)
EXTENDS Naturals, Sequences

CONSTANTS Object, Null, MaxFrames

VARIABLES
  objects,  \* the objects that exist
  refs,     \* the object each one refers to, or Null
  stack,    \* the roots of the frames
  fresh     \* the object the program was just given, or Null

vars == <<objects, refs, stack, fresh>>

\* What is reached from the roots without going on from an object in stop.
Closed(roots, ref, stop) ==
  LET known == roots \cup ({ref[o] : o \in Object} \ {Null})
  IN {set \in SUBSET known :
        roots \subseteq set /\ \A o \in set \ stop : ref[o] # Null => ref[o] \in set}
ReachFrom(roots, ref, stop) ==
  LET closed == Closed(roots, ref, stop)
  IN {o \in Object : \A set \in closed : o \in set}

Roots == {stack[i] : i \in DOMAIN stack}
Reachable == ReachFrom(Roots, refs, {})
InHand == Reachable \cup ({fresh} \ {Null})

Init ==
  /\ objects = {}
  /\ refs = [o \in Object |-> Null]
  /\ stack = <<>>
  /\ fresh = Null

New ==
  \E o \in Object \ objects :
    /\ objects' = objects \cup {o}
    /\ fresh' = o
    /\ UNCHANGED <<refs, stack>>

push_frame(o) ==
  /\ Len(stack) < MaxFrames
  /\ stack' = Append(stack, o)
  /\ UNCHANGED <<objects, refs, fresh>>

pop_frame ==
  /\ stack # <<>>
  /\ stack' = SubSeq(stack, 1, Len(stack) - 1)
  /\ UNCHANGED <<objects, refs, fresh>>

Write(o, target) ==
  /\ refs' = [refs EXCEPT ![o] = target]
  /\ UNCHANGED <<objects, stack, fresh>>

\* An object the program has not kept is lost to it.
Forget ==
  /\ fresh' = Null
  /\ UNCHANGED <<objects, refs, stack>>

Reclaim ==
  \E o \in objects \ InHand :
    /\ objects' = objects \ {o}
    /\ refs' = [refs EXCEPT ![o] = Null]
    /\ UNCHANGED <<stack, fresh>>

Program ==
  LET hand == InHand
  IN \/ \E o \in hand : push_frame(o)
     \/ pop_frame
     \/ \E o \in hand, target \in hand \cup {Null} : Write(o, target)

Next == New \/ Program \/ Forget \/ Reclaim

Spec == Init /\ [][Next]_vars
=============================================================================
