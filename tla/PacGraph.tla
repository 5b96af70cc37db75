------------------------------- MODULE PacGraph -------------------------------
(***************************************************************************)
(* The functional graph (immutable_graph.h): a map from vertices to edge   *)
(* trees, itself a PaC-tree, whose entries <<v, t>> hold the map t from    *)
(* the neighbours of v to the weights of the edges.  Batches of edges run  *)
(* an operation on the vertex tree that runs one on each edge tree.        *)
(*                                                                         *)
(* The in-place and the functional variants (insert_edges_batch and        *)
(* insert_edges_batch_2, insert_vertices_batch and its _functional one)    *)
(* return the same value.                                                  *)
(***************************************************************************)
EXTENDS PacMapOps, FiniteSets

CONSTANTS
  Sources,  \* bound: the sets of vertices a batch may be about
  Targets,  \* bound: the sets of neighbours a batch may give to them
  MaxCalls  \* bound: batches

VARIABLES
  V,         \* the vertex tree
  promised,  \* history: the neighbours each vertex should have
  calls      \* history: batches so far

vars == <<V, promised, calls>>

ASSUME UnweightedAssumption == Cardinality(Vals) = 1
empty == CHOOSE w \in Vals : TRUE

SlicesOf(T) == SortedArray(T, LAMBDA u : empty)
NeighborsIn(t) == KeysIn(Entries(t))
EdgeTreesOf(es) == {Val(es[i]) : i \in DOMAIN es}

\* The neighbours by vertex, of the graph and of a vertex tree.
NoVertices == [v \in {} |-> {}]
Adjacency(t) == LET es == Entries(t) IN [v \in KeysIn(es) |-> NeighborsIn(ValueIn(es, v))]
-----------------------------------------------------------------------------
\* A batch gives the same edges to all its sources, and is sorted by source
\* and packed to one slice of edges for each.
map_op(T) == [slice \in {SlicesOf(T)} |-> built(slice)]

combine_insert(trees, T) ==
  [p \in trees \X {SlicesOf(T)} |-> finalize(multi_insert_sorted(p[1], p[2], replace))]

combine_delete(trees, T) ==
  [p \in trees \X {SlicesOf(T)} |-> finalize(multi_delete_sorted(p[1], KeysIn(p[2])))]

\* combine_op of insert_vertices_batch.
inc(trees, t) == [p \in trees \X {t} |-> p[2]]

from_edges(S, T) ==
  multi_insert_sorted(Nil, SortedArray(S, LAMBDA v : built(SlicesOf(T))), inc({}, Nil))

insert_edges_batch(t, S, T) ==
  multi_insert_sorted_map(t, SortedArray(S, LAMBDA v : SlicesOf(T)),
    combine_insert(EdgeTreesOf(Entries(t)), T), map_op(T))

delete_edges_batch(t, S, T) ==
  multi_delete_sorted_map(t, SortedArray(S, LAMBDA v : SlicesOf(T)),
    combine_delete(EdgeTreesOf(Entries(t)), T))

insert_vertices_batch(t, S, T) ==
  LET new == built(SlicesOf(T))
  IN  finalize(multi_insert_sorted(t, SortedArray(S, LAMBDA v : new),
                                   inc(EdgeTreesOf(Entries(t)), new)))

delete_vertices_batch(t, S) == finalize(multi_delete_sorted(t, S))

get_vertex(t, v) == UNION {NeighborsIn(edges) : edges \in find(t, v)}
-----------------------------------------------------------------------------
\* A graph built from edges, or none.
Init ==
  /\ \/ V = Nil /\ promised = NoVertices
     \/ \E S \in Sources, T \in Targets :
          V = from_edges(S, T) /\ promised = [v \in S |-> T]
  /\ calls = 0

Call == calls < MaxCalls /\ calls' = calls + 1

InsertEdges ==
  /\ Call
  /\ \E S \in Sources, T \in Targets :
       /\ V' = insert_edges_batch(V, S, T)
       /\ promised' = [v \in DOMAIN promised \union S |->
            (IF v \in DOMAIN promised THEN promised[v] ELSE {})
              \union (IF v \in S THEN T ELSE {})]

\* A vertex that loses all its edges stays.
DeleteEdges ==
  /\ Call
  /\ \E S \in Sources, T \in Targets :
       /\ V' = delete_edges_batch(V, S, T)
       /\ promised' = [v \in DOMAIN promised |->
            IF v \in S THEN promised[v] \ T ELSE promised[v]]

InsertVertices ==
  /\ Call
  /\ \E S \in Sources, T \in Targets :
       /\ V' = insert_vertices_batch(V, S, T)
       /\ promised' = [v \in DOMAIN promised \union S |->
            IF v \in S THEN T ELSE promised[v]]

\* Some vertex stays: the augmented map's finalize takes no empty tree.
DeleteVertices ==
  /\ Call
  /\ \E S \in Sources :
       /\ DOMAIN promised \ S # {}
       /\ V' = delete_vertices_batch(V, S)
       /\ promised' = [v \in DOMAIN promised \ S |-> promised[v]]

Next == InsertEdges \/ DeleteEdges \/ InsertVertices \/ DeleteVertices

Spec == Init /\ [][Next]_vars
-----------------------------------------------------------------------------
(* After any batches in any order every vertex has exactly the neighbours  *)
(* the batches gave it and did not take away, for an iteration over the    *)
(* vertices and for get_vertex: the nested operations combine the right    *)
(* old edge tree with the right slice of the batch, in flat and in         *)
(* recursive cases of either tree.                                         *)
HoldsThePromisedEdges ==
  /\ Adjacency(V) = promised
  /\ \A v \in DOMAIN promised : get_vertex(V, v) = promised[v]

(* The vertex tree and every edge tree in it are balanced, blocked and     *)
(* sorted, whatever batches made them.                                     *)
TreesAreSound ==
  LET Sound(t) ==
        /\ IsPacTree(t)
        /\ LET es == Entries(t) IN \A i \in 1..(Len(es) - 1) : Key(es[i]) < Key(es[i + 1])
  IN  Sound(V) /\ \A t \in EdgeTreesOf(Entries(V)) : Sound(t)
=============================================================================
