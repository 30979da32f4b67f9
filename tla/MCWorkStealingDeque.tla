------------------------- MODULE MCWorkStealingDeque -------------------------
(* Instance of WorkStealingDeque.tla for TLC: the smallest ring that can   *)
(* wrap, two interchangeable thieves.                                      *)
EXTENDS WorkStealingDeque, TLC

ThiefSymmetry == Permutations(Thief)
=============================================================================
