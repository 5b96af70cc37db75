-------------------------------- MODULE PacMap --------------------------------
(***************************************************************************)
(* A CPAM map (map.h) under a client that calls its operations in any      *)
(* order: the state is the tree the map refers to.                         *)
(***************************************************************************)
EXTENDS PacMapOps, FiniteSets

CONSTANTS
  Ops,        \* the operations the client uses
  BatchKeys,  \* bound: the sets of keys a batch or a second map may hold
  BatchValues(_),  \* bound: the values a batch may give the keys it holds
  RangeEnds,  \* bound: the keys a range may start or end at
  MaxCalls    \* bound: calls the client makes

VARIABLES
  root,      \* the tree
  promised,  \* history: the map the interface promises, as a function
  calls,     \* history: calls made
  inserted   \* history: insert was among them

vars == <<root, promised, calls, inserted>>

Map == INSTANCE OrderedMap

SortedSeq(K) == LET a == SortedArray(K, LAMBDA k : 0) IN [i \in DOMAIN a |-> Key(a[i])]

MapOf(es) == [k \in KeysIn(es) |-> ValueIn(es, k)]

Init == root = Nil /\ promised = Map!EmptyMap /\ calls = 0 /\ inserted = FALSE

\* A batch gives all its keys one value.
Batches == {SortedArray(K, LAMBDA k : v) :
               <<K, v>> \in {<<K, v>> \in BatchKeys \X Vals : v \in BatchValues(K)}}

Call(op) ==
  /\ op \in Ops
  /\ calls < MaxCalls
  /\ calls' = calls + 1
  /\ inserted' = (inserted \/ op = "insert")

Insert ==
  /\ Call("insert")
  /\ \E k \in Keys, v \in Vals :
       /\ root' = insert(root, <<k, v>>, replace)
       /\ promised' = Map!Overridden(promised, MapOf(<<<<k, v>>>>))

Remove ==
  /\ Call("remove")
  /\ \E k \in Keys :
       /\ root' = remove(root, k)
       /\ promised' = Map!Only(promised, Keys \ {k})

Update ==
  /\ Call("update")
  /\ \E k \in Keys, g \in [Vals -> Vals] :
       /\ root' = update(root, k, g)
       /\ promised' = Map!Updated(promised, k, g)

\* multi_insert leaves the result as it is, multi_insert_sorted finalises it.
MultiInsert ==
  /\ Call("multi_insert")
  /\ \E es \in Batches :
       /\ \/ root' = multi_insert_sorted(root, es, replace)
          \/ root' = finalize(multi_insert_sorted(root, es, replace))
       /\ promised' = Map!Overridden(promised, MapOf(es))

\* multi_insert_sorted_map, with values for the batch's pairs and for new keys.
MultiInsertMap ==
  /\ Call("multi_insert_map")
  /\ \E es \in Batches :
       /\ root' = multi_insert_sorted_map(root, es, replace, [v \in Vals |-> v])
       /\ promised' = Map!Overridden(promised, MapOf(es))

\* multi_delete_sorted_map and multi_update_sorted_inplace delete no key.
MultiUpdate ==
  /\ Call("multi_update")
  /\ \E es \in Batches :
       /\ \/ root' = multi_delete_sorted_map(root, es, replace)
          \/ root' = multi_update_sorted_inplace(root, es, replace)
       /\ promised' = Map!Replaced(promised, MapOf(es))

MultiDelete ==
  /\ Call("multi_delete")
  /\ \E K \in BatchKeys :
       /\ root' = finalize(multi_delete_sorted(root, K))
       /\ promised' = Map!Only(promised, Keys \ K)

Union ==
  /\ Call("union")
  /\ \E es \in Batches :
       /\ root' = uniont(root, built(es), get_right)
       /\ promised' = Map!Overridden(promised, MapOf(es))

Intersect ==
  /\ Call("intersect")
  /\ \E es \in Batches :
       /\ root' = intersect(root, built(es), get_right)
       /\ promised' = Map!Common(promised, MapOf(es))

Difference ==
  /\ Call("difference")
  /\ \E es \in Batches :
       /\ root' = difference(root, built(es))
       /\ promised' = Map!Only(promised, Keys \ KeysIn(es))

Filter ==
  /\ Call("filter")
  /\ \E K \in BatchKeys :
       /\ root' = finalize(filter(root, K))
       /\ promised' = Map!Only(promised, K)

Range ==
  /\ Call("range")
  /\ \E low \in RangeEnds, high \in RangeEnds :
       /\ root' = range_2(root, low, high)
       /\ promised' = Map!Only(promised, low..high)

Next ==
  \/ Insert \/ Remove \/ Update
  \/ MultiInsert \/ MultiInsertMap \/ MultiUpdate \/ MultiDelete
  \/ Union \/ Intersect \/ Difference
  \/ Filter \/ Range

Spec == Init /\ [][Next]_vars
-----------------------------------------------------------------------------
Elements == Entries(root)

(* Every operation, in any order, leaves a PaC-tree: balanced at every     *)
(* node, and with blocks of B to 2B at its leaves from B elements on (the  *)
(* checks of weight_balanced_tree.h:61-91, and basic_node.h:46).           *)
StructureIsSound == IsPacTree(root)

(* The elements are in the order of their keys and no key occurs twice.    *)
IsSearchTree ==
  LET es == Elements
  IN  \A i \in 1..(Len(es) - 1) : Key(es[i]) < Key(es[i + 1])

(* find, rank, multi_find_sorted and the sums of augmented values follow   *)
(* the tree to what its elements say.                                      *)
QueriesAgree ==
  LET es == Elements
      ks == SortedSeq(KeysIn(es) \union RangeEnds)
      Sum(fs) == aug_val(Block(fs))
  IN
  /\ multi_find_sorted(root, ks, 0) =
       {<<i - 1, ValueIn(es, ks[i])>> : i \in {j \in DOMAIN ks : ks[j] \in KeysIn(es)}}
  /\ \A k \in Keys :
       /\ find(root, k) = {Val(es[i]) : i \in {j \in DOMAIN es : Key(es[j]) = k}}
       /\ rank(root, k, 0) = Cardinality({j \in DOMAIN es : Key(es[j]) < k})
       /\ aug_sum_right(root, k) = Sum(SelectSeq(es, LAMBDA e : k <= Key(e)))
  /\ \A v \in {0} \union Vals : aug_select(root, v) = FirstAbove(es, v)

(* The tree holds exactly the elements the interface promises after the  *)
(* operations so far: none is lost, duplicated, resurrected or given the   *)
(* wrong value, whichever mixture of flat and recursive cases ran.         *)
HoldsWhatItPromises == MapOf(Elements) = promised

(* The same as long as insert, which loses elements, was not called.       *)
HoldsWithoutInsert == ~inserted => HoldsWhatItPromises
=============================================================================
