------------------------------ MODULE BlockLayout ------------------------------
(***************************************************************************)
(* The arithmetic of PaC-trees: the weight-balance criterion, and how many *)
(* elements go into each block when an array is cut into blocks of B to 2B *)
(* elements.  Sizes count elements; the weight of a tree is its size + 1.  *)
(*                                                                         *)
(* The code computes the criterion with doubles, alpha = 0.29,             *)
(* ratio = alpha / (1 - alpha) and beta = (1 - 2 alpha) / (1 - alpha);     *)
(* here both sides are multiplied out to integers.                         *)
(***************************************************************************)
EXTENDS Integers

CONSTANT B  \* block size

ASSUME BAssumption == B \in Nat \ {0}

kBaseCaseSize == 8 * B + 2   \* operations on at most so many elements are flat
kStackSize == 7 * B          \* elements make_compressed(l, r, e) can gather

weight(s) == s + 1

\* ratio * weight(s1) > weight(s2)
is_left_heavy(s1, s2) == 29 * weight(s1) > 71 * weight(s2)

is_balanced(s1, s2) == ~is_left_heavy(s1, s2) /\ ~is_left_heavy(s2, s1)

\* weight of the inner child <= beta * weight of its parent
is_single_rotation(inner, s) == 71 * weight(inner) <= 42 * weight(s)

could_single_rotate(s1, s2) ==
  is_single_rotation(s1, s1 + s2 + 1) /\ is_single_rotation(s2, s1 + s2 + 1)

will_be_compressed(s) == B <= s /\ s <= 2 * B

\* ceil(B * (1 + 1 / wb_ratio))
upper_threshold == (100 * B + 28) \div 29

(* Sizes of the two blocks, or of the two halves of four blocks, left and  *)
(* right of the separating element: two_compressed_nodes rounds the left   *)
(* one up, four_compressed_nodes and make_two_nodes round it down.         *)
TwoBlocksLeft(n) == n \div 2
TwoBlocksRight(n) == (n - 1) \div 2
FourBlocksLeft(n) == (n - 1) \div 2
FourBlocksRight(n) == n \div 2

(* The sizes of the blocks four_compressed_nodes puts under one half.      *)
IsOneBlock(n) == n = 2 * B
=============================================================================
