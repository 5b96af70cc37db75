-------------------------------- MODULE PacTree --------------------------------
(***************************************************************************)
(* PaC-trees (src/include/cpam): weight-balanced search trees whose leaves *)
(* are compressed blocks of B to 2B elements.  This module holds the trees *)
(* and the operations that build, join and take them apart by position;    *)
(* PacMapOps adds those that compare keys.                                 *)
(*                                                                         *)
(* Trees are values here: a regular node that the code updates in place    *)
(* because nobody else refers to it, and one it copies first, are the same *)
(* value, and reference counts are left out.  So is the encoding inside a  *)
(* block, which is the sequence of its elements.                           *)
(*                                                                         *)
(* A definition right before another of the same parameters, and used by   *)
(* none, is a bug the other might have had: the runs must notice it.       *)
(***************************************************************************)
EXTENDS BlockLayout, Sequences

CONSTANT Asserts  \* TRUE: built with assertions, FALSE: built with -DNDEBUG

ASSUME AssertsAssumption == Asserts \in BOOLEAN
-----------------------------------------------------------------------------
Nil == [kind |-> "nil", s |-> 0]
Block(es) == [kind |-> "block", s |-> Len(es), es |-> es]
Node(l, e, r) ==
  [kind |-> "node", s |-> l.s + r.s + 1, e |-> e, l |-> l, r |-> r]

is_compressed(t) == t.kind = "block"
is_regular(t) == ~is_compressed(t)
size(t) == t.s
heavy(t1, t2) == is_left_heavy(size(t1), size(t2))

\* An element no client can have: what a failed assertion, a bad cast or an
\* overrun buffer leaves behind.
Garbage == <<0, 0>>
Broken == Block(<<Garbage>>)
Asserted(ok, t) == IF Asserts /\ ~ok THEN Broken ELSE t

\* iterate_seq: the elements in order.
RECURSIVE Entries(_)
Entries(t) ==
  CASE t.kind = "nil" -> <<>>
    [] t.kind = "block" -> t.es
    [] t.kind = "node" -> Entries(t.l) \o <<t.e>> \o Entries(t.r)
-----------------------------------------------------------------------------
(* Cutting an array into blocks.                                           *)

\* The first l elements, a separator, and the rest.
Cut(es, l) ==
  [l |-> SubSeq(es, 1, l), e |-> es[l + 1], r |-> SubSeq(es, l + 2, Len(es))]

single_compressed_node(es) == Asserted(Len(es) <= 2 * B, Block(es))

two_compressed_nodes(es) ==
  LET c == Cut(es, TwoBlocksLeft(Len(es)))
  IN  Node(single_compressed_node(c.l), c.e, single_compressed_node(c.r))

make_two_nodes(es) ==
  LET c == Cut(es, FourBlocksLeft(Len(es))) IN
  Asserted(2 * B <= Len(es),
           IF IsOneBlock(Len(es))
           THEN single_compressed_node(es)
           ELSE Node(single_compressed_node(c.l), c.e, single_compressed_node(c.r)))

four_compressed_nodes(es) ==
  LET c == Cut(es, FourBlocksLeft(Len(es)))
  IN  Node(make_two_nodes(c.l), c.e, make_two_nodes(c.r))

LayOut(es) ==
  CASE Len(es) <= 2 * B -> single_compressed_node(es)
    [] Len(es) > 2 * B /\ Len(es) <= 4 * B + 1 -> two_compressed_nodes(es)
    [] Len(es) > 4 * B + 1 -> four_compressed_nodes(es)

make_compressed_array(es) ==
  Asserted(B <= Len(es) /\ Len(es) <= kBaseCaseSize, LayOut(es))

\* l and r gathered in a stack buffer, with e between them unless it is null.
make_compressed(l, e, r) ==
  LET es == Entries(l) \o e \o Entries(r)
  IN  IF Len(es) > kStackSize THEN Broken ELSE Asserted(B <= Len(es), LayOut(es))

finalize(t) == IF 0 < size(t) /\ size(t) < B THEN Block(Entries(t)) ELSE t

\* The elements of a small array as a tree; regular_node_join never descends
\* here (BlockLayoutProofs!HalvesAreBalanced), so its balanced case is inlined.
RECURSIVE to_tree_impl(_, _)
to_tree_impl(es, depth) ==
  CASE Len(es) = 0 -> Nil
    [] Len(es) = 1 -> Node(Nil, es[1], Nil)
    [] Len(es) > 1 /\ Len(es) = B /\ depth > 0 -> single_compressed_node(es)
    [] Len(es) > 1 /\ ~(Len(es) = B /\ depth > 0) ->
         LET c == Cut(es, Len(es) \div 2)
         IN  Node(to_tree_impl(c.l, depth + 1), c.e, to_tree_impl(c.r, depth + 1))

TreeUpToB(es) == IF Len(es) <= B THEN to_tree_impl(es, 0) ELSE make_compressed_array(es)

\* How every flat base case ends.
BuildFlat(es) == IF Len(es) < B THEN to_tree_impl(es, 0) ELSE make_compressed_array(es)

\* A tree as left, entry, right; a block is first made a tree.
expose(t) == IF is_compressed(t) THEN to_tree_impl(t.es, 0) ELSE t
-----------------------------------------------------------------------------
(* Joins: l, then e, then r.                                               *)

LeavesSmallBlocks(l, e, r) == Node(l, e, r)

balanced_join(l, e, r) ==
  Asserted(~heavy(l, r) /\ ~heavy(r, l),
    IF (size(l) < B \/ size(r) < B) /\ size(l) + size(r) + 1 >= B
    THEN make_compressed(l, <<e>>, r)
    ELSE Node(l, e, r))

\* Rotations cast the heavy child, and the double ones its inner child.
rotate_left(l, e, r) == Node(Node(l, e, r.l), r.e, r.r)
rotate_right(l, e, r) == Node(l.l, l.e, Node(l.r, e, r))
SwapsInner(l, e, r) ==
  rotate_left(l, e, Node(r.l.r, r.l.e, Node(r.l.l, r.e, r.r)))

double_rotate_left(l, e, r) ==
  rotate_left(l, e, Node(r.l.l, r.l.e, Node(r.l.r, r.e, r.r)))
double_rotate_right(l, e, r) ==
  rotate_right(Node(Node(l.l, l.e, l.r.l), l.r.e, l.r.r), e, r)

\* The end of right_join, on the joined right child.
RebalanceRight(l, e, r) ==
  LET single == is_single_rotation(size(r.l), size(r)) IN
  CASE ~heavy(r, l) -> Node(l, e, r)
    [] heavy(r, l) /\ is_compressed(r) -> Broken
    [] heavy(r, l) /\ is_regular(r) /\ single -> rotate_left(l, e, r)
    [] heavy(r, l) /\ is_regular(r) /\ ~single ->
         IF is_compressed(r.l) THEN make_compressed(Node(l, e, r), <<>>, Nil)
                               ELSE double_rotate_left(l, e, r)

DoesNotRebalance(l, e, r) == Node(l, e, r)

RebalanceLeft(l, e, r) ==
  LET single == is_single_rotation(size(l.r), size(l)) IN
  CASE ~heavy(l, r) -> Node(l, e, r)
    [] heavy(l, r) /\ is_compressed(l) -> Broken
    [] heavy(l, r) /\ is_regular(l) /\ single -> rotate_right(l, e, r)
    [] heavy(l, r) /\ is_regular(l) /\ ~single ->
         IF is_compressed(l.r) THEN make_compressed(Node(l, e, r), <<>>, Nil)
                               ELSE double_rotate_right(l, e, r)

RECURSIVE right_join(_, _, _)
right_join(t1, e, t2) ==
  CASE is_compressed(t1) -> make_compressed(t1, <<e>>, t2)
    [] is_regular(t1) /\ ~heavy(t1, t2) -> balanced_join(t1, e, t2)
    [] is_regular(t1) /\ heavy(t1, t2) ->
         IF will_be_compressed(size(t1) + size(t2) + 1)
         THEN make_compressed(t1, <<e>>, t2)
         ELSE RebalanceRight(t1.l, t1.e, right_join(t1.r, e, t2))

RECURSIVE left_join(_, _, _)
left_join(t1, e, t2) ==
  CASE is_compressed(t2) -> make_compressed(t1, <<e>>, t2)
    [] is_regular(t2) /\ ~heavy(t2, t1) -> balanced_join(t1, e, t2)
    [] is_regular(t2) /\ heavy(t2, t1) ->
         IF will_be_compressed(size(t1) + size(t2) + 1)
         THEN make_compressed(t1, <<e>>, t2)
         ELSE RebalanceLeft(left_join(t1, e, t2.l), t2.e, t2.r)

uneven_join(t1, e, t2) ==
  CASE heavy(t1, t2) -> right_join(t1, e, t2)
    [] heavy(t2, t1) -> left_join(t1, e, t2)
    [] is_balanced(size(t1), size(t2)) -> balanced_join(t1, e, t2)

regular_join(t1, e, t2) ==
  LET tot == size(t1) + size(t2) + 1
  IN  IF B <= tot /\ tot <= upper_threshold
      THEN make_compressed(t1, <<e>>, t2)
      ELSE uneven_join(t1, e, t2)

\* Two blocks, or a block that outweighs a regular tree, are compressed.
node_join(t1, e, t2) ==
  CASE is_regular(t1) /\ is_regular(t2) -> regular_join(t1, e, t2)
    [] is_compressed(t1) /\ is_compressed(t2) ->
         IF is_balanced(size(t1), size(t2)) \/ ~could_single_rotate(size(t1), size(t2))
         THEN balanced_join(t1, e, t2)
         ELSE make_compressed(t1, <<e>>, t2)
    [] is_regular(t1) /\ is_compressed(t2) ->
         IF heavy(t2, t1) THEN make_compressed(t1, <<e>>, t2) ELSE uneven_join(t1, e, t2)
    [] is_compressed(t1) /\ is_regular(t2) ->
         IF heavy(t1, t2) THEN make_compressed(t1, <<e>>, t2) ELSE uneven_join(t1, e, t2)

\* Concatenation without a middle element.
RECURSIVE join2(_, _)
join2(t1, t2) ==
  LET fits == will_be_compressed(size(t1) + size(t2)) IN
  CASE size(t1) = 0 -> t2
    [] size(t1) > 0 /\ size(t2) = 0 -> t1
    [] size(t2) > 0 /\ size(t1) > size(t2) ->
         IF is_compressed(t1) \/ fits
         THEN make_compressed(t1, <<>>, t2)
         ELSE node_join(t1.l, t1.e, join2(t1.r, t2))
    [] size(t1) > 0 /\ size(t1) <= size(t2) ->
         IF is_compressed(t2) \/ fits
         THEN make_compressed(t1, <<>>, t2)
         ELSE node_join(join2(t1, t2.l), t2.e, t2.r)
-----------------------------------------------------------------------------
RECURSIVE from_array(_)
from_array(es) ==
  CASE Len(es) = 0 -> Nil
    [] Len(es) = 1 -> Node(Nil, es[1], Nil)
    [] Len(es) > 1 /\ will_be_compressed(Len(es)) -> make_compressed_array(es)
    [] Len(es) > 1 /\ ~will_be_compressed(Len(es)) ->
         LET c == Cut(es, Len(es) \div 2)
         IN  node_join(from_array(c.l), c.e, from_array(c.r))
-----------------------------------------------------------------------------
(* What the code checks of a tree in its DEBUG builds, and documents.      *)

(* On the whole tree: a regular node is balanced and holds at least 2B     *)
(* elements, unless it is in a tree of fewer than B; a block holds at most *)
(* 2B.                                                                     *)
RECURSIVE check_structure(_, _)
check_structure(t, whole) ==
  CASE t.kind = "nil" -> TRUE
    [] t.kind = "block" -> size(t) <= 2 * B
    [] t.kind = "node" ->
         /\ size(t) >= 2 * B \/ size(t) < B
         /\ ~(whole > 2 * B /\ size(t) < B)
         /\ is_balanced(size(t.l), size(t.r))
         /\ check_structure(t.l, whole)
         /\ check_structure(t.r, whole)

\* "Complex nodes have between B and 2B elements": every leaf is such a block.
RECURSIVE FullBlocks(_)
FullBlocks(t) ==
  CASE t.kind = "nil" -> FALSE
    [] t.kind = "block" -> will_be_compressed(size(t))
    [] t.kind = "node" -> FullBlocks(t.l) /\ FullBlocks(t.r)

IsPacTree(t) == check_structure(t, size(t)) /\ (size(t) >= B => FullBlocks(t))
=============================================================================
