--------------------------- MODULE BlockLayoutProofs ---------------------------
(***************************************************************************)
(* Theorems about the layout of blocks and the balance of joins, for every *)
(* block size B.                                                           *)
(***************************************************************************)
EXTENDS BlockLayout, TLAPS

(* two_compressed_nodes: whenever make_compressed calls it, the two halves *)
(* fit a block (B to 2B elements), hold everything but the separator, and  *)
(* are balanced.                                                           *)
THEOREM TwoBlocksFit ==
  ASSUME NEW n \in (2 * B + 1)..(4 * B + 1)
  PROVE  /\ will_be_compressed(TwoBlocksLeft(n))
         /\ will_be_compressed(TwoBlocksRight(n))
         /\ TwoBlocksLeft(n) + TwoBlocksRight(n) + 1 = n
         /\ is_balanced(TwoBlocksLeft(n), TwoBlocksRight(n))
BY BAssumption, Z3
   DEF will_be_compressed, TwoBlocksLeft, TwoBlocksRight, is_balanced, is_left_heavy, weight

(* four_compressed_nodes: both halves are one block or can be cut into two *)
(* that fit, up to the kBaseCaseSize elements a base case may produce.     *)
THEOREM FourBlocksFit ==
  ASSUME NEW n \in (4 * B + 2)..kBaseCaseSize
  PROVE  /\ FourBlocksLeft(n) + FourBlocksRight(n) + 1 = n
         /\ is_balanced(FourBlocksLeft(n), FourBlocksRight(n))
         /\ \A h \in {FourBlocksLeft(n), FourBlocksRight(n)} :
              \/ IsOneBlock(h)
              \/ /\ will_be_compressed(FourBlocksLeft(h))
                 /\ will_be_compressed(FourBlocksRight(h))
                 /\ FourBlocksLeft(h) + FourBlocksRight(h) + 1 = h
                 /\ is_balanced(FourBlocksLeft(h), FourBlocksRight(h))
BY BAssumption, Z3
   DEF will_be_compressed, FourBlocksLeft, FourBlocksRight, is_balanced, is_left_heavy,
       weight, IsOneBlock, kBaseCaseSize

(* to_tree_impl builds with regular_node_join, which may not meet a block  *)
(* on its way down: cutting an array at n / 2 never leaves a heavy side,   *)
(* so every such join is a balanced one and never descends.                *)
THEOREM HalvesAreBalanced ==
  ASSUME NEW n \in Nat \ {0}
  PROVE  is_balanced(n \div 2, n - n \div 2 - 1)
BY Z3 DEF is_balanced, is_left_heavy, weight
-----------------------------------------------------------------------------
(* balanced_join: with a side below B the compressed result fits at most   *)
(* two blocks, so the gathering buffer of 7B elements is never overrun.    *)
THEOREM BalancedJoinFits ==
  ASSUME NEW l \in Nat, NEW r \in Nat, is_balanced(l, r), l < B \/ r < B
  PROVE  l + r + 1 <= 4 * B + 1 /\ l + r + 1 <= kStackSize
BY BAssumption, Z3 DEF is_balanced, is_left_heavy, weight, kStackSize

(* regular_join: what it compresses right away fits at most two blocks.    *)
THEOREM RegularJoinFits == upper_threshold <= 4 * B /\ upper_threshold <= kStackSize
BY BAssumption, Z3 DEF upper_threshold, kStackSize

(* right_join descends from a balanced t1 = (lc, rc) that is heavy for t2. *)
Descends(lc, rc, t2) == is_balanced(lc, rc) /\ is_left_heavy(lc + rc + 1, t2)

(* The subtree it descends to is not too light for t2: where the descent   *)
(* ends, balanced_join's two assertions hold.                              *)
THEOREM DescentStaysBalanced ==
  ASSUME NEW lc \in Nat, NEW rc \in Nat, NEW t2 \in Nat, Descends(lc, rc, t2)
  PROVE  ~is_left_heavy(t2, rc)
BY Z3 DEF Descends, is_balanced, is_left_heavy, weight

(* A descent that ends in a block compresses that block with t2: the       *)
(* result fits the gathering buffer.                                       *)
THEOREM DescentToBlockFits ==
  ASSUME NEW lc \in Nat, NEW rc \in Nat, NEW t2 \in Nat,
         Descends(lc, rc, t2), rc <= 2 * B
  PROVE  rc + t2 + 1 <= kStackSize
BY BAssumption, Z3 DEF Descends, is_balanced, is_left_heavy, weight, kStackSize

(* The joined right child, (x, y) with all of rc and t2 in it, is balanced *)
(* and has become too heavy for lc.                                        *)
Overweight(lc, rc, t2, x, y) ==
  /\ Descends(lc, rc, t2)
  /\ is_balanced(x, y)
  /\ x + y + 1 = rc + t2 + 1
  /\ is_left_heavy(x + y + 1, lc)

(* rotate_left: when the inner child passes is_single_rotation, both nodes *)
(* of the rotated tree are balanced.                                       *)
THEOREM SingleRotationBalances ==
  ASSUME NEW lc \in Nat, NEW rc \in Nat, NEW t2 \in Nat, NEW x \in Nat, NEW y \in Nat,
         Overweight(lc, rc, t2, x, y), is_single_rotation(x, x + y + 1)
  PROVE  is_balanced(lc, x) /\ is_balanced(lc + x + 1, y)
BY Z3 DEF Overweight, Descends, is_single_rotation, is_balanced, is_left_heavy, weight

(* double_rotate_left: when it does not, and the inner child is a balanced *)
(* node (p, q), all three nodes of the rotated tree are balanced.          *)
THEOREM DoubleRotationBalances ==
  ASSUME NEW lc \in Nat, NEW rc \in Nat, NEW t2 \in Nat, NEW x \in Nat, NEW y \in Nat,
         NEW p \in Nat, NEW q \in Nat,
         Overweight(lc, rc, t2, x, y), ~is_single_rotation(x, x + y + 1),
         p + q + 1 = x, is_balanced(p, q)
  PROVE  /\ is_balanced(lc, p)
         /\ is_balanced(q, y)
         /\ is_balanced(lc + p + 1, q + y + 1)
BY Z3 DEF Overweight, Descends, is_single_rotation, is_balanced, is_left_heavy, weight

(* When the inner child is a block instead, right_join compresses the      *)
(* whole tree: it fits the gathering buffer.                               *)
THEOREM CollapseFits ==
  ASSUME NEW lc \in Nat, NEW rc \in Nat, NEW t2 \in Nat, NEW x \in Nat, NEW y \in Nat,
         Overweight(lc, rc, t2, x, y), ~is_single_rotation(x, x + y + 1), x <= 2 * B
  PROVE  lc + (x + y + 1) + 1 <= kStackSize
BY BAssumption, Z3
   DEF Overweight, Descends, is_single_rotation, is_balanced, is_left_heavy, weight, kStackSize
=============================================================================
