------------------------------ MODULE PacSeqOps ------------------------------
(***************************************************************************)
(* The operations of CPAM's sequences that go by position                  *)
(* (sequence_ops.h).  Positions count from 0.                              *)
(*                                                                         *)
(* A size_t wraps around: take computes rank - left_size - 1 also when     *)
(* rank equals left_size.                                                  *)
(***************************************************************************)
EXTENDS PacTree

SizeModulus == 2^16   \* bound: 2^64 in the code
Minus(a, b) == (a - b) % SizeModulus

\* The elements of a block at the positions from low to high.
entry_bc(t, low, high) ==
  LET at(i) == IF low <= i - 1 /\ i - 1 <= high THEN <<t.es[i]>> ELSE <<>>
      kept[i \in 0..size(t)] == IF i = 0 THEN <<>> ELSE kept[i - 1] \o at(i)
  IN  BuildFlat(kept[size(t)])

\* The element at position rank, if there is one.
RECURSIVE select(_, _)
select(t, rank) ==
  CASE t.kind = "nil" -> {}
    [] is_compressed(t) -> {t.es[i] : i \in {j \in DOMAIN t.es : j = rank + 1}}
    [] t.kind = "node" ->
         CASE rank > size(t.l) -> select(t.r, rank - size(t.l) - 1)
           [] rank < size(t.l) -> select(t.l, rank)
           [] rank = size(t.l) -> {t.e}

\* The first rank elements; the whole subtree whose left part has rank elements.
RECURSIVE take(_, _)
take(t, rank) ==
  CASE t.kind = "nil" -> Nil
    [] is_compressed(t) -> entry_bc(t, 0, rank - 1)
    [] t.kind = "node" ->
         IF rank < size(t.l)
         THEN take(t.l, rank)
         ELSE node_join(t.l, t.e, take(t.r, Minus(rank, size(t.l) + 1)))

\* The elements from position rank on; the entry before it too where rank is
\* the first position of a right subtree.
RECURSIVE suffix(_, _)
DropsRootEntry(t, rank) ==
  CASE t.kind = "nil" -> Nil
    [] is_compressed(t) -> entry_bc(t, rank, size(t))
    [] t.kind = "node" ->
         IF rank > size(t.l) - 1
         THEN suffix(t.r, Minus(rank, size(t.l) + 1))
         ELSE node_join(suffix(t.l, rank), t.e, t.r)

suffix(t, rank) ==
  CASE t.kind = "nil" -> Nil
    [] is_compressed(t) -> entry_bc(t, rank, size(t))
    [] t.kind = "node" ->
         IF rank > size(t.l) + 1
         THEN suffix(t.r, rank - size(t.l) - 1)
         ELSE node_join(suffix(t.l, rank), t.e, t.r)

\* The subtree subseq starts from, and the positions in it.
RECURSIVE subseq_root(_, _, _)
subseq_root(t, left, right) ==
  IF t.kind # "node" THEN <<t, left, right>>
  ELSE CASE right < size(t.l) -> subseq_root(t.l, left, right)
         [] right >= size(t.l) /\ left > size(t.l) + 1 ->
              subseq_root(t.r, left - size(t.l) - 1, right - size(t.l) - 1)
         [] right >= size(t.l) /\ left <= size(t.l) + 1 -> <<t, left, right>>

subseq(t, left, right) ==
  LET x == subseq_root(t, left, right) r == x[1] low == x[2] high == x[3] IN
  CASE r.kind = "nil" -> Nil
    [] is_compressed(r) -> entry_bc(r, low, high)
    [] r.kind = "node" ->
         node_join(suffix(r.l, low), r.e, take(r.r, Minus(high, size(r.l) + 1)))

RECURSIVE reverse(_)
reverse(t) ==
  CASE t.kind = "nil" -> Nil
    [] is_compressed(t) ->
         single_compressed_node([i \in DOMAIN t.es |-> t.es[Len(t.es) + 1 - i]])
    [] t.kind = "node" -> node_join(reverse(t.r), t.e, reverse(t.l))

\* The same tree of the images of the elements under the function f.
RECURSIVE map(_, _)
map(t, f) ==
  CASE t.kind = "nil" -> Nil
    [] is_compressed(t) -> make_compressed_array([i \in DOMAIN t.es |-> f[t.es[i]]])
    [] t.kind = "node" -> node_join(map(t.l, f), f[t.e], map(t.r, f))

\* The calls of the user's function: an element with its position.
RECURSIVE foreach_index(_, _)
foreach_index(t, start) ==
  CASE t.kind = "nil" -> {}
    [] is_compressed(t) -> {<<t.es[i], start + i - 1>> : i \in DOMAIN t.es}
    [] t.kind = "node" ->
         {<<t.e, start + size(t.l)>>}
           \union foreach_index(t.l, start)
           \union foreach_index(t.r, start + size(t.l) + 1)
=============================================================================
