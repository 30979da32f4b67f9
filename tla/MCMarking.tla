------------------------------ MODULE MCMarking ------------------------------
(* Instances of Marking.tla for TLC.  The heaps are small enough to count  *)
(* on one hand and still have what tracing finds hard: sharing, cycles, a  *)
(* null field, a word that only looks like a pointer, garbage that points  *)
(* at live objects.                                                        *)
EXTENDS Marking, TLC

CONSTANTS a, b, c, d, e

Ref(o) == [ref |-> TRUE, val |-> o]
Number(o) == [ref |-> FALSE, val |-> o]

(* a has two children that share a third; d is garbage. *)
Diamond ==
  (a :> <<Ref(b), Ref(c)>>) @@ (b :> <<Ref(c), Number(d)>>) @@
  (c :> <<Ref(Null), Ref(a)>>) @@ (d :> <<Ref(a)>>)

(* A list that ends in a cycle of garbage's making. *)
List ==
  (a :> <<Ref(b)>>) @@ (b :> <<Ref(b), Ref(c)>>) @@
  (c :> <<>>) @@ (d :> <<Ref(d), Ref(c)>>)

MCHeaps == {Diamond, List}

(* One object with more children than a deque of three tasks can hold, two *)
(* that are garbage.                                                       *)
Wide ==
  (a :> <<Ref(b), Ref(b), Ref(b), Ref(c)>>) @@ (b :> <<>>) @@ (c :> <<>>) @@
  (d :> <<Number(e), Ref(b)>>) @@ (e :> <<Ref(d)>>)

(* Two levels of forks, more than deques of one task can hold. *)
Tree ==
  (a :> <<Ref(b), Ref(c)>>) @@ (b :> <<>>) @@ (c :> <<Ref(b), Ref(d)>>) @@
  (d :> <<>>)

WideHeap == {Wide}
TreeHeap == {Tree}

MCStacks == {<<>>, <<<<a>>>>, <<<<c>>, <<b, c>>>>}
RootA == {<<<<a>>>>}

(* What is left of earlier collections: nothing, or in some of the deques  *)
(* the null of a slot that was never written.                              *)
Nothing == {<<>>}
NullsMadeUp == {<<>>, <<Null>>}

(* An object left in the global queue. *)
RootLeft == {<<d>>}

(* No object left marked, or one on the way to others. *)
NoMarks == {{}}
BMarked == {{}, {b}}

(* A frame with one object and two null pointers. *)
RootAndNulls == {<<<<a, Null, Null>>>>}
=============================================================================
