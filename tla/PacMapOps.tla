------------------------------ MODULE PacMapOps ------------------------------
(***************************************************************************)
(* The operations of CPAM's maps on PaC-trees whose elements <<key, value>> *)
(* are sorted by key (map_ops.h, and the finalisation map.h adds).  A      *)
(* combining operation is a function f of two values.                      *)
(***************************************************************************)
EXTENDS PacTree

LOCAL INSTANCE Functions

CONSTANTS
  MaxKey,  \* bound: keys are 1..MaxKey
  Vals     \* values

Keys == 1..MaxKey

Key(e) == e[1]
Val(e) == e[2]
KeysIn(es) == {Key(es[i]) : i \in DOMAIN es}
ValueIn(es, k) == Val(es[CHOOSE i \in DOMAIN es : Key(es[i]) = k])

KeepKeys(es, K) == SelectSeq(es, LAMBDA e : Key(e) \in K)

\* The sorted array of the keys K with the values v(k).
SortedArray(K, v(_)) ==
  LET ks == SelectSeq([k \in Keys |-> k], LAMBDA k : k \in K)
  IN  [i \in DOMAIN ks |-> <<ks[i], v(ks[i])>>]

\* Merge of two sorted arrays; f combines the values of a common key.
Merge(es1, es2, f) ==
  LET K1 == KeysIn(es1) K2 == KeysIn(es2)
  IN  SortedArray(K1 \union K2,
        LAMBDA k : CASE k \in K1 \ K2 -> ValueIn(es1, k)
                     [] k \in K2 \ K1 -> ValueIn(es2, k)
                     [] k \in K1 \intersect K2 -> f[ValueIn(es1, k), ValueIn(es2, k)])

\* f with its arguments exchanged.
Swapped(f) == [p \in Vals \X Vals |-> f[p[2], p[1]]]

replace == [p \in Vals \X Vals |-> p[2]]
get_right == replace
-----------------------------------------------------------------------------
RECURSIVE find(_, _)
find(t, k) ==
  CASE t.kind = "nil" -> {}
    [] is_compressed(t) -> {Val(t.es[i]) : i \in {j \in DOMAIN t.es : Key(t.es[j]) = k}}
    [] t.kind = "node" -> CASE k < Key(t.e) -> find(t.l, k)
                            [] Key(t.e) < k -> find(t.r, k)
                            [] Key(t.e) = k -> {Val(t.e)}

RECURSIVE rank(_, _, _)
ForgetsRoot(t, k, sum) ==
  CASE t.kind = "nil" -> sum
    [] is_compressed(t) -> sum + Len(SelectSeq(t.es, LAMBDA e : Key(e) < k))
    [] t.kind = "node" -> CASE Key(t.e) < k -> rank(t.r, k, sum + size(t.l))
                            [] Key(t.e) = k -> sum + size(t.l)
                            [] k < Key(t.e) -> rank(t.l, k, sum)

rank(t, k, sum) ==
  CASE t.kind = "nil" -> sum
    [] is_compressed(t) -> sum + Len(SelectSeq(t.es, LAMBDA e : Key(e) < k))
    [] t.kind = "node" -> CASE Key(t.e) < k -> rank(t.r, k, sum + size(t.l) + 1)
                            [] Key(t.e) = k -> sum + size(t.l)
                            [] k < Key(t.e) -> rank(t.l, k, sum)

\* The tree below k, the element with key k if there is one, the tree above.
RECURSIVE split(_, _)
split(t, k) ==
  LET x == expose(t) IN
  CASE t.kind = "nil" -> [l |-> Nil, mid |-> <<>>, r |-> Nil]
    [] t.kind # "nil" /\ Key(x.e) < k ->
         LET s == split(x.r, k) IN [s EXCEPT !.l = node_join(x.l, x.e, s.l)]
    [] t.kind # "nil" /\ k < Key(x.e) ->
         LET s == split(x.l, k) IN [s EXCEPT !.r = node_join(s.r, x.e, x.r)]
    [] t.kind # "nil" /\ Key(x.e) = k -> [l |-> x.l, mid |-> <<x.e>>, r |-> x.r]
-----------------------------------------------------------------------------
(* Augmented values: the sum of the values (from_entry is the value,       *)
(* combine adds).  A node and a block cache their sum when they are made.  *)

aug_val(t) == LET es == Entries(t) IN SumFunction([i \in DOMAIN es |-> Val(es[i])])

\* The sum right of or at k.
RECURSIVE aug_sum_right(_, _)
aug_sum_right(t, k) ==
  CASE t.kind = "nil" -> 0
    [] is_compressed(t) -> aug_val(Block(SelectSeq(t.es, LAMBDA e : k <= Key(e))))
    [] t.kind = "node" ->
         IF k <= Key(t.e) THEN Val(t.e) + aug_val(t.r) + aug_sum_right(t.l, k)
                          ELSE aug_sum_right(t.r, k)

\* The first value above v: the predicate says of a subtree's augmented value,
\* here the maximum, that none of its elements is above v.
Exceeds(t, v) == LET es == Entries(t) IN \E i \in DOMAIN es : Val(es[i]) > v
FirstAbove(es, v) ==
  LET above == SelectSeq(es, LAMBDA e : Val(e) > v)
  IN  IF above = <<>> THEN {} ELSE {Head(above)}

RECURSIVE aug_select(_, _)
aug_select(t, v) ==
  CASE t.kind = "nil" -> {}
    [] is_compressed(t) -> FirstAbove(t.es, v)
    [] t.kind = "node" ->
         IF Exceeds(t.l, v) THEN aug_select(t.l, v)
         ELSE IF Val(t.e) > v THEN {t.e} ELSE aug_select(t.r, v)
-----------------------------------------------------------------------------
(* A single key.                                                           *)

\* Stores the new element and keeps the equal one.
KeepsEqual(t, e, f) ==
  make_compressed_array(SelectSeq(t.es, LAMBDA x : Key(x) <= Key(e)) \o <<e>>
                          \o SelectSeq(t.es, LAMBDA x : Key(e) < Key(x)))

\* The merge into a block: the loop that stores the new element does not
\* store the one it has met.
insert_compressed(t, e, f) ==
  LET below == SelectSeq(t.es, LAMBDA x : Key(x) < Key(e))
      equal == SelectSeq(t.es, LAMBDA x : Key(x) = Key(e))
      above == SelectSeq(t.es, LAMBDA x : Key(e) < Key(x))
  IN  make_compressed_array(
        IF equal # <<>>
        THEN below \o <<<<Key(e), f[Val(e), Val(equal[1])]>>>> \o above
        ELSE below \o <<e>> \o (IF above = <<>> THEN <<>> ELSE Tail(above)))

RECURSIVE insert_tmpl(_, _, _)
insert_tmpl(t, e, f) ==
  CASE t.kind = "nil" -> Node(Nil, e, Nil)
    [] is_compressed(t) -> insert_compressed(t, e, f)
    [] t.kind = "node" ->
         CASE Key(t.e) < Key(e) -> node_join(t.l, t.e, insert_tmpl(t.r, e, f))
           [] Key(e) < Key(t.e) -> node_join(insert_tmpl(t.l, e, f), t.e, t.r)
           [] Key(e) = Key(t.e) ->
                node_join(t.l, <<Key(e), f[Val(t.e), Val(e)]>>, t.r)

insert(t, e, f) == finalize(insert_tmpl(t, e, f))

RECURSIVE my_remove(_, _)
my_remove(t, k) ==
  LET x == expose(t) IN
  CASE t.kind = "nil" -> Nil
    [] t.kind # "nil" /\ Key(x.e) < k -> node_join(x.l, x.e, my_remove(x.r, k))
    [] t.kind # "nil" /\ k < Key(x.e) -> node_join(my_remove(x.l, k), x.e, x.r)
    [] t.kind # "nil" /\ Key(x.e) = k -> join2(x.l, x.r)

remove_compressed(t, k) == BuildFlat(KeepKeys(t.es, Keys \ {k}))

remove(t, k) == IF is_compressed(t) THEN remove_compressed(t, k) ELSE my_remove(t, k)

update_compressed(t, k, g) ==
  make_compressed_array([i \in DOMAIN t.es |->
    IF Key(t.es[i]) = k THEN <<k, g[Val(t.es[i])]>> ELSE t.es[i]])

\* g maps the old value to the new one.
RECURSIVE update(_, _, _)
UpdatesBlocksOnly(t, k, g) ==
  CASE t.kind = "nil" -> Nil
    [] is_compressed(t) -> update_compressed(t, k, g)
    [] t.kind = "node" ->
         IF Key(t.e) < k THEN node_join(t.l, t.e, update(t.r, k, g))
                         ELSE node_join(update(t.l, k, g), t.e, t.r)

update(t, k, g) ==
  CASE t.kind = "nil" -> Nil
    [] is_compressed(t) -> update_compressed(t, k, g)
    [] t.kind = "node" ->
         CASE Key(t.e) < k -> node_join(t.l, t.e, update(t.r, k, g))
           [] k < Key(t.e) -> node_join(update(t.l, k, g), t.e, t.r)
           [] Key(t.e) = k -> node_join(t.l, <<k, g[Val(t.e)]>>, t.r)
-----------------------------------------------------------------------------
(* A batch: a sorted array of elements or of keys, without duplicates.     *)

UpTo(es, k) == SelectSeq(es, LAMBDA e : Key(e) <= k)
Before(es, k) == SelectSeq(es, LAMBDA e : Key(e) < k)
After(es, k) == SelectSeq(es, LAMBDA e : k < Key(e))

multiinsert_bc(t, es, f) == BuildFlat(Merge(Entries(t), es, f))

RECURSIVE multi_insert_sorted(_, _, _)
multi_insert_sorted(t, es, f) ==
  LET x == expose(t)
      k == Key(x.e)
      l == multi_insert_sorted(x.l, Before(es, k), f)
      r == multi_insert_sorted(x.r, After(es, k), f)
  IN  CASE t.kind = "nil" -> from_array(es)
        [] t.kind # "nil" /\ Len(es) = 0 -> t
        [] t.kind # "nil" /\ Len(es) > 0 ->
             IF size(t) + Len(es) <= kBaseCaseSize
             THEN multiinsert_bc(t, es, f)
             ELSE node_join(l,
                    IF k \in KeysIn(es) THEN <<k, f[Val(x.e), ValueIn(es, k)]>> ELSE x.e,
                    r)

\* The constructors: a map built from a batch.
built(es) == finalize(multi_insert_sorted(Nil, es, replace))

multidelete_bc(t, K) == BuildFlat(KeepKeys(Entries(t), Keys \ K))

RECURSIVE multi_delete_sorted(_, _)
multi_delete_sorted(t, K) ==
  LET x == expose(t)
      k == Key(x.e)
      l == multi_delete_sorted(x.l, {j \in K : j < k})
      r == multi_delete_sorted(x.r, {j \in K : k < j})
  IN  CASE t.kind = "nil" -> Nil
        [] t.kind # "nil" /\ K = {} -> t
        [] t.kind # "nil" /\ K # {} ->
             IF size(t) <= kBaseCaseSize
             THEN multidelete_bc(t, K)
             ELSE IF k \in K THEN join2(l, r) ELSE node_join(l, x.e, r)
-----------------------------------------------------------------------------
(* A batch of pairs <<key, v>> whose v is no value yet: combine makes one  *)
(* of an old value and v, map_op of v alone; both are functions.           *)

MergeMap(es, A, combine, map_op) ==
  LET K1 == KeysIn(es) K2 == KeysIn(A)
  IN  SortedArray(K1 \union K2,
        LAMBDA k : CASE k \in K1 \ K2 -> ValueIn(es, k)
                     [] k \in K2 \ K1 -> map_op[ValueIn(A, k)]
                     [] k \in K1 \intersect K2 -> combine[ValueIn(es, k), ValueIn(A, k)])

multiinsert_map_bc(t, A, combine, map_op) ==
  BuildFlat(MergeMap(Entries(t), A, combine, map_op))

from_array_map(A, map_op) ==
  from_array([i \in DOMAIN A |-> <<Key(A[i]), map_op[Val(A[i])]>>])

\* The element of a root after a batch.
CombinesNeverInRoots(e, A, combine) == e
combine_values_v(e, A, combine) ==
  IF Key(e) \in KeysIn(A) THEN <<Key(e), combine[Val(e), ValueIn(A, Key(e))]>> ELSE e

RECURSIVE multi_insert_sorted_map(_, _, _, _)
multi_insert_sorted_map(t, A, combine, map_op) ==
  LET x == expose(t)
      l == multi_insert_sorted_map(x.l, Before(A, Key(x.e)), combine, map_op)
      r == multi_insert_sorted_map(x.r, After(A, Key(x.e)), combine, map_op)
  IN  CASE t.kind = "nil" -> from_array_map(A, map_op)
        [] t.kind # "nil" /\ Len(A) = 0 -> t
        [] t.kind # "nil" /\ Len(A) > 0 ->
             IF size(t) + Len(A) <= kBaseCaseSize
             THEN multiinsert_map_bc(t, A, combine, map_op)
             ELSE node_join(l, combine_values_v(x.e, A, combine), r)

multidelete_sorted_map_bc(t, A, combine) ==
  LET es == Entries(t)
  IN  BuildFlat([i \in DOMAIN es |-> combine_values_v(es[i], A, combine)])

RECURSIVE multi_delete_sorted_map(_, _, _)
multi_delete_sorted_map(t, A, combine) ==
  LET x == expose(t)
      l == multi_delete_sorted_map(x.l, Before(A, Key(x.e)), combine)
      r == multi_delete_sorted_map(x.r, After(A, Key(x.e)), combine)
  IN  CASE t.kind = "nil" -> Nil
        [] t.kind # "nil" /\ Len(A) = 0 -> t
        [] t.kind # "nil" /\ Len(A) > 0 ->
             IF size(t) <= kBaseCaseSize
             THEN multidelete_sorted_map_bc(t, A, combine)
             ELSE node_join(l, combine_values_v(x.e, A, combine), r)

\* In place: the tree keeps its shape.
RECURSIVE multi_update_sorted_inplace(_, _, _)
multi_update_sorted_inplace(t, A, combine) ==
  CASE t.kind = "nil" \/ Len(A) = 0 -> t
    [] is_compressed(t) /\ Len(A) > 0 ->
         Block([i \in DOMAIN t.es |-> combine_values_v(t.es[i], A, combine)])
    [] t.kind = "node" /\ Len(A) > 0 ->
         Node(multi_update_sorted_inplace(t.l, Before(A, Key(t.e)), combine),
              combine_values_v(t.e, A, combine),
              multi_update_sorted_inplace(t.r, After(A, Key(t.e)), combine))

\* What is stored into the results for the keys A, of which the first is number
\* offset (the code counts from 0): pairs of a number and a value.
RECURSIVE multi_find_sorted(_, _, _)
multi_find_sorted(t, A, offset) ==
  LET below == SelectSeq(A, LAMBDA k : k < Key(t.e))
      above == SelectSeq(A, LAMBDA k : Key(t.e) < k)
      dup == Len(A) - Len(below) - Len(above)
  IN  CASE t.kind = "nil" \/ Len(A) = 0 -> {}
        [] is_compressed(t) /\ Len(A) > 0 ->
             {<<offset + i - 1, ValueIn(t.es, A[i])>> :
                i \in {j \in DOMAIN A : A[j] \in KeysIn(t.es)}}
        [] t.kind = "node" /\ Len(A) > 0 ->
             multi_find_sorted(t.l, below, offset)
               \union multi_find_sorted(t.r, above, offset + Len(below) + dup)
               \union (IF dup = 1 THEN {<<offset + Len(below), Val(t.e)>>} ELSE {})
-----------------------------------------------------------------------------
(* Two maps.  The base cases give f its arguments in the other order.      *)

IsFlat(t1, t2) == size(t1) + size(t2) <= kBaseCaseSize

union_bc(t1, t2, f) == BuildFlat(Merge(Entries(t1), Entries(t2), Swapped(f)))

RECURSIVE uniont(_, _, _)
uniont(t1, t2, f) ==
  LET x == expose(t2)
      s == split(t1, Key(x.e))
      e == IF s.mid = <<>> THEN x.e ELSE <<Key(x.e), f[Val(s.mid[1]), Val(x.e)]>>
  IN  CASE t1.kind = "nil" -> t2
        [] t1.kind # "nil" /\ t2.kind = "nil" -> t1
        [] t1.kind # "nil" /\ t2.kind # "nil" ->
             IF IsFlat(t1, t2)
             THEN union_bc(t1, t2, f)
             ELSE node_join(uniont(s.l, x.l, f), e, uniont(s.r, x.r, f))

intersect_bc(t1, t2, f) ==
  LET es1 == Entries(t1) es2 == Entries(t2)
  IN  BuildFlat(SortedArray(KeysIn(es1) \intersect KeysIn(es2),
                            LAMBDA k : Swapped(f)[ValueIn(es1, k), ValueIn(es2, k)]))

RECURSIVE intersect(_, _, _)
intersect(t1, t2, f) ==
  LET x == expose(t2)
      s == split(t1, Key(x.e))
      l == intersect(s.l, x.l, f)
      r == intersect(s.r, x.r, f)
  IN  CASE t1.kind = "nil" \/ t2.kind = "nil" -> Nil
        [] t1.kind # "nil" /\ t2.kind # "nil" ->
             IF IsFlat(t1, t2)
             THEN intersect_bc(t1, t2, f)
             ELSE IF s.mid = <<>> THEN join2(l, r)
                  ELSE node_join(l, <<Key(x.e), f[Val(s.mid[1]), Val(x.e)]>>, r)

difference_bc(t1, t2) ==
  BuildFlat(KeepKeys(Entries(t1), Keys \ KeysIn(Entries(t2))))

RECURSIVE difference(_, _)
difference(t1, t2) ==
  LET x == expose(t1)
      s == split(t2, Key(x.e))
      l == difference(x.l, s.l)
      r == difference(x.r, s.r)
  IN  CASE t1.kind = "nil" -> Nil
        [] t1.kind # "nil" /\ t2.kind = "nil" -> t1
        [] t1.kind # "nil" /\ t2.kind # "nil" ->
             IF IsFlat(t1, t2)
             THEN difference_bc(t1, t2)
             ELSE IF s.mid = <<>> THEN node_join(l, x.e, r) ELSE join2(l, r)
-----------------------------------------------------------------------------
(* Parts of a map.                                                         *)

\* filter, by the set of keys the predicate keeps.
filter_bc(t, K) == BuildFlat(KeepKeys(Entries(t), K))

RECURSIVE filter(_, _)
filter(t, K) ==
  CASE t.kind = "nil" -> Nil
    [] is_compressed(t) -> filter_bc(t, K)
    [] t.kind = "node" ->
         IF Key(t.e) \in K THEN node_join(filter(t.l, K), t.e, filter(t.r, K))
                           ELSE join2(filter(t.l, K), filter(t.r, K))

comp_bc(t, K) == BuildFlat(KeepKeys(Entries(t), K))

RECURSIVE left_2(_, _)
left_2(t, k) ==
  CASE t.kind = "nil" -> Nil
    [] is_compressed(t) -> comp_bc(t, 1..k)
    [] t.kind = "node" ->
         IF k < Key(t.e) THEN left_2(t.l, k) ELSE node_join(t.l, t.e, left_2(t.r, k))

RECURSIVE right_2(_, _)
DropsLeftPart(t, k) ==
  CASE t.kind = "nil" -> Nil
    [] is_compressed(t) -> comp_bc(t, k..MaxKey)
    [] t.kind = "node" ->
         IF Key(t.e) <= k THEN right_2(t.r, k) ELSE node_join(right_2(t.l, k), t.e, t.r)

right_2(t, k) ==
  CASE t.kind = "nil" -> Nil
    [] is_compressed(t) -> comp_bc(t, k..MaxKey)
    [] t.kind = "node" ->
         IF Key(t.e) < k THEN right_2(t.r, k) ELSE node_join(right_2(t.l, k), t.e, t.r)

RECURSIVE range_root_2(_, _, _)
range_root_2(t, low, high) ==
  CASE t.kind # "node" -> t
    [] t.kind = "node" ->
         CASE high < Key(t.e) -> range_root_2(t.l, low, high)
           [] Key(t.e) < low -> range_root_2(t.r, low, high)
           [] low <= Key(t.e) /\ Key(t.e) <= high -> t

range_2(t, low, high) ==
  LET r == range_root_2(t, low, high) IN
  CASE r.kind = "nil" -> Nil
    [] is_compressed(r) -> comp_bc(r, low..high)
    [] r.kind = "node" -> node_join(right_2(r.l, low), r.e, left_2(r.r, high))
=============================================================================
