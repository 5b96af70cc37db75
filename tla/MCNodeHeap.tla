------------------------------ MODULE MCNodeHeap ------------------------------
(***************************************************************************)
(* Instances of NodeHeap for TLC.                                          *)
(***************************************************************************)
EXTENDS NodeHeap, TLC

LeafOf(keys) == [kind |-> "block", lc |-> 0, rc |-> 0, keys |-> keys]
NodeOf(k, l, r) == [kind |-> "regular", lc |-> l, rc |-> r, keys |-> {k}]

\* One node over two blocks, two batches.
OneLevel ==
  [nodes |-> <<NodeOf(2, 2, 3), LeafOf({1}), LeafOf({3})>>,
   x |-> 1, y |-> 0, batches |-> {{1, 2}}, budget |-> 2]

\* Two versions of a tree of two levels, which share the inner node, one batch.
TwoVersions ==
  [nodes |-> <<NodeOf(4, 2, 3), NodeOf(2, 4, 5), LeafOf({5}), LeafOf({1}), LeafOf({3}),
               NodeOf(4, 2, 7), LeafOf({6})>>,
   x |-> 1, y |-> 6, batches |-> {{1}}, budget |-> 1]

Both == {OneLevel, TwoVersions}

Symmetry == Permutations(Clients)
=============================================================================
