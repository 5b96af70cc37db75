-------------------------------- MODULE PacJoin --------------------------------
(***************************************************************************)
(* node_join and join2 on every pair of trees that check_structure         *)
(* (weight_balanced_tree.h) accepts, whatever sequence of operations may   *)
(* have made them, and the operations by position on every such tree.      *)
(* Elements are their positions.                                           *)
(***************************************************************************)
EXTENDS PacSeqOps

CONSTANTS
  MaxTotal,  \* bound: elements of the two trees to join
  MaxOne     \* bound: elements of a tree the operations by position run on

VARIABLES
  left, right,  \* the trees to join
  root,         \* the result
  step,         \* "ready", or the operation that ran
  range         \* the positions it was given, from and to

vars == <<left, right, root, step, range>>

Element(i) == <<i, 1>>
Run(from, n) == [i \in 1..n |-> Element(from + i - 1)]
-----------------------------------------------------------------------------
\* The trees over the n elements from..(from + n - 1) that are PaC-trees.
RECURSIVE Trees(_, _)
Trees(from, n) ==
  LET Blocks == IF will_be_compressed(n) THEN {Block(Run(from, n))} ELSE {}
      Nodes == {Node(l, Element(from + l.s), r) :
                  <<l, r>> \in UNION {Trees(from, i) \X Trees(from + i + 1, n - 1 - i) :
                                        i \in {i \in 0..(n - 1) : is_balanced(i, n - 1 - i)}}}
  IN  IF n = 0 THEN {Nil} ELSE Blocks \union {t \in Nodes : IsPacTree(t)}
-----------------------------------------------------------------------------
Init ==
  /\ \E i \in 0..MaxTotal : \E j \in 0..(MaxTotal - i) :
       left \in Trees(1, i) /\ right \in Trees(i + 2, j)
  /\ root = Nil
  /\ step = "ready"
  /\ range = <<0, 0>>

Joined(op) == step' = op /\ UNCHANGED <<left, right, range>>

NodeJoin ==
  /\ step = "ready"
  /\ root' = node_join(left, Element(size(left) + 1), right)
  /\ Joined("node_join")

Join2 ==
  /\ step = "ready"
  /\ root' = join2(left, right)
  /\ Joined("join2")

\* The operations on one tree.
OnOneTree(op, low, high) ==
  /\ step = "ready" /\ right = Nil /\ size(left) <= MaxOne
  /\ step' = op /\ range' = <<low, high>>
  /\ UNCHANGED <<left, right>>

Take ==
  \E k \in 0..size(left) :
    OnOneTree("take", 0, k) /\ root' = take(left, k)

\* suffix is internal to sequence_ops: subseq is its caller.
Suffix ==
  \E low \in 0..size(left) :
    OnOneTree("suffix", low, size(left)) /\ root' = suffix(left, low)

Subseq ==
  \E high \in 0..size(left) : \E low \in 0..high :
    OnOneTree("subseq", low, high) /\ root' = subseq(left, low, high)

Reverse == OnOneTree("reverse", 0, size(left)) /\ root' = reverse(left)

\* A function that keeps the positions apart.
Image(e) == <<e[1], 2>>
Map ==
  /\ OnOneTree("map", 0, size(left))
  /\ root' = map(left, [e \in {Element(i) : i \in 1..size(left)} |-> Image(e)])

Next == NodeJoin \/ Join2 \/ Take \/ Suffix \/ Subseq \/ Reverse \/ Map

Spec == Init /\ [][Next]_vars
-----------------------------------------------------------------------------
(* The result of a join, or of an operation on one tree, is a PaC-tree:    *)
(* balanced at every node, cut into blocks of B to 2B, whichever case of   *)
(* right_join, left_join and the rotations made it.                        *)
JoinIsPacTree == IsPacTree(root)

(* A join loses, repeats and reorders no element, fails no assertion,      *)
(* casts no block to a regular node and overruns no stack buffer; reverse  *)
(* exchanges the order of all elements, and map keeps it.                  *)
JoinConcatenates ==
  LET n == size(left) IN
  /\ step \in {"node_join", "join2"} =>
       Entries(root) = Entries(left)
                         \o (IF step = "node_join" THEN <<Element(n + 1)>> ELSE <<>>)
                         \o Entries(right)
  /\ step = "reverse" => Entries(root) = [i \in 1..n |-> Element(n + 1 - i)]
  /\ step = "map" => Entries(root) = [i \in 1..n |-> Image(Element(i))]

\* The positions in t, counted from start, that hold the entry of a regular node.
RECURSIVE NodePositions(_, _)
NodePositions(t, start) ==
  IF t.kind # "node" THEN {}
  ELSE {start + size(t.l)} \union NodePositions(t.l, start)
                          \union NodePositions(t.r, start + size(t.l) + 1)

(* take(k) returns exactly the first k elements, suffix(k) exactly those   *)
(* from position k on, subseq(k, m) exactly those from k to m - 1, and to  *)
(* m where one block holds them all, unless the position just behind the   *)
(* cut (k for take, m for subseq) or just before it (k - 1 for suffix and  *)
(* subseq) holds the entry of a regular node: there the code returns more. *)
(* select returns the element at its position, and foreach_index visits    *)
(* each element once, with its position.                                   *)
PartsAreExact ==
  LET es == Entries(root)
      low == range[1]
      high == range[2]
      inner == NodePositions(left, 0)
      inOneBlock == inner \intersect ((low - 1)..high) = {}
      past == IF inOneBlock /\ high < size(left) THEN high + 1 ELSE high
  IN
  /\ step = "take" /\ high \notin inner => es = Run(1, high)
  /\ step = "suffix" /\ low - 1 \notin inner => es = Run(low + 1, high - low)
  /\ step = "subseq" /\ low - 1 \notin inner /\ high \notin inner =>
       es = Run(low + 1, past - low)
  /\ step = "ready" /\ right = Nil =>
       /\ \A k \in 0..size(left) :
            select(left, k) = IF k < size(left) THEN {Element(k + 1)} ELSE {}
       /\ foreach_index(left, 0) = {<<Element(k), k - 1>> : k \in 1..size(left)}

(* "Keep elements from rank (inclusive) to end" (sequence_ops.h:295).      *)
SuffixStartsAtRank ==
  step = "suffix" => Entries(root) = Run(range[1] + 1, range[2] - range[1])
=============================================================================
