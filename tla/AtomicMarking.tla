---------------------------- MODULE AtomicMarking ----------------------------
(***************************************************************************)
(* What scan() and mark() come to for the collection that calls them: in   *)
(* one step, every object that is found from the roots gets its mark.  An  *)
(* object may get one besides that is found from a pointer which an        *)
(* earlier collection left in a ring of the workers' deques, and no other  *)
(* object does.  One that carries a mark already is found, but taken to    *)
(* have been traced: the search does not go on from it.                    *)
(***************************************************************************)
CONSTANT Object

VARIABLES
  children,  \* the objects each object refers to
  roots,     \* the objects the shadow stack refers to
  rings,     \* the objects whose pointers the rings may hold
  marks,     \* the objects that are marked
  returned   \* mark() has returned

vars == <<children, roots, rings, marks, returned>>

\* The least set that holds those in from and, with an object, its children.
FoundFrom(from) ==
  LET closed == {set \in SUBSET Object :
                   from \subseteq set /\ \A o \in set \ marks : children[o] \subseteq set}
  IN {o \in Object : \A set \in closed : o \in set}

Init ==
  /\ children \in [Object -> SUBSET Object]
  /\ roots \subseteq Object
  /\ rings \subseteq Object
  /\ marks \subseteq Object
  /\ returned = FALSE

Mark ==
  /\ ~returned
  /\ returned' = TRUE
  /\ LET traced == FoundFrom(roots)
     IN \E strays \in SUBSET (FoundFrom(roots \cup rings) \ traced) :
          LET new == (traced \cup strays) \ marks
          IN /\ marks' = marks \cup new
             /\ rings' = rings \cup UNION {children[o] : o \in new}
  /\ UNCHANGED <<children, roots>>

Spec == Init /\ [][Mark]_vars
=============================================================================
