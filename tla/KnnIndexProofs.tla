---------------------------- MODULE KnnIndexProofs ----------------------------
(***************************************************************************)
(* Theorems about KnnIndex, for any finite set of points, any degree bound *)
(* and any sizes of batches: what a search visits and a pruning keeps is   *)
(* known only as far as the definitions of KnnIndex bound it, so the       *)
(* theorems hold for every metric.                                         *)
(***************************************************************************)
EXTENDS KnnIndex, FiniteSetTheorems, TLAPS

(* A graph of points.                                                      *)
IsGraph(g) ==
  /\ g = [p \in DOMAIN g |-> g[p]]
  /\ DOMAIN g \subseteq Points
  /\ \A p \in DOMAIN g : g[p] \subseteq Points

Bounded(g) == \A p \in DOMAIN g : Cardinality(g[p]) <= maxDeg

(* The vertices in C have no edge to what the epoch deletes.               *)
Clean(g, C) == C \subseteq DOMAIN g /\ \A p \in C : g[p] \intersect old_delete_set = {}

Closed(g) == \A p \in DOMAIN g : g[p] \subseteq DOMAIN g

(* The medoid is never deleted, so that searches have a place to begin.    *)
Types ==
  /\ IsGraph(G)
  /\ medoid \in DOMAIN G
  /\ delete_set \subseteq Points \ {medoid}
  /\ old_delete_set \subseteq Points \ {medoid}
  /\ epoch_running \in BOOLEAN
  /\ thorough \in BOOLEAN

(* Between epochs nothing is being deleted, and what is being deleted is   *)
(* never counted as clean.                                                 *)
EpochInv ==
  /\ ~epoch_running => old_delete_set = {}
  /\ clean \intersect old_delete_set = {}

Inv ==
  /\ Types
  /\ EpochInv
  /\ Bounded(G)
  /\ Clean(G, clean)
  /\ thorough => Closed(G)
-----------------------------------------------------------------------------
(* Subsets of the points are finite.                                       *)
LEMMA PointSets ==
  ASSUME NEW S \in SUBSET Points
  PROVE  IsFiniteSet(S) /\ Cardinality(S) \in Nat
BY PointsAssumption, FS_Subset, FS_CardinalityType

(* A selection makes one choice for each of its arguments.                 *)
LEMMA SelectionsChoose ==
  ASSUME NEW choices, NEW f \in Selections(choices)
  PROVE  DOMAIN f = DOMAIN choices /\ \A p \in DOMAIN choices : f[p] \in choices[p]
BY DEF Selections

(* A pruning keeps at most maxDeg of what it was given.                    *)
LEMMA PruningIsBounded ==
  ASSUME NEW p, NEW candidates \in SUBSET Points, NEW mine \in SUBSET Points,
         NEW R \in robustPrune(p, candidates, mine)
  PROVE  R \subseteq candidates \union mine /\ Cardinality(R) <= maxDeg
<1> DEFINE C == (candidates \union mine) \ {p}
<1>1. R \in SUBSET C
  BY DEF robustPrune, AtMost
<1>2. CASE Cardinality(candidates) + Cardinality(mine) <= maxDeg
  <2>1. IsFiniteSet(candidates) /\ IsFiniteSet(mine) /\ IsFiniteSet(candidates \union mine)
    BY PointSets
  <2>2. Cardinality(candidates \union mine)
          = Cardinality(candidates) + Cardinality(mine) - Cardinality(candidates \intersect mine)
    BY <2>1, FS_Union
  <2>3. Cardinality(R) <= Cardinality(candidates \union mine)
    BY <1>1, <2>1, FS_Subset
  <2>4. /\ Cardinality(candidates \intersect mine) \in Nat
        /\ Cardinality(candidates) \in Nat /\ Cardinality(mine) \in Nat
        /\ Cardinality(R) \in Nat
    BY <1>1, PointSets
  <2> QED BY <1>1, <1>2, <2>2, <2>3, <2>4, maxDegAssumption
<1>3. CASE ~(Cardinality(candidates) + Cardinality(mine) <= maxDeg)
  BY <1>1, <1>3 DEF robustPrune, AtMost
<1> QED BY <1>1, <1>2, <1>3

(* A search visits points only, and leaves out what the epoch deletes.  In *)
(* a graph whose edges lead to vertices it visits vertices only.           *)
LEMMA SearchesStayInside ==
  ASSUME NEW g, medoid \in DOMAIN g, NEW S \in beam_search(g)
  PROVE  /\ S \subseteq Points \ old_delete_set
         /\ Closed(g) => S \subseteq DOMAIN g
<1>1. PICK W \in Walks(g) : S = W \ old_delete_set
  BY DEF beam_search
<1>2. W \subseteq Points /\ medoid \in W
  BY DEF Walks
<1>3. ASSUME Closed(g) PROVE W \subseteq DOMAIN g
  <2> DEFINE T == W \intersect DOMAIN g
  <2>1. T \in SUBSET W /\ medoid \in T
    BY <1>2
  <2>2. \A p \in T : out_neighbors(g, p) \intersect W \subseteq T
    BY <1>3 DEF Closed, out_neighbors
  <2>3. T = W
    BY <2>1, <2>2 DEF Walks
  <2> QED BY <2>3
<1> QED BY <1>1, <1>2, <1>3
-----------------------------------------------------------------------------
(* What a round of insertions does to the graph.                           *)
LEMMA BatchInsert ==
  ASSUME NEW g, IsGraph(g), medoid \in DOMAIN g,
         NEW batch \in SUBSET (Points \ old_delete_set),
         NEW h \in batch_insert(g, batch)
  PROVE  /\ IsGraph(h)
         /\ DOMAIN g \union batch \subseteq DOMAIN h
         /\ Bounded(g) => Bounded(h)
         /\ \A C : Clean(g, C) /\ batch \intersect DOMAIN g \subseteq C
                     => Clean(h, C \union batch)
         /\ Closed(g) => Closed(h) /\ DOMAIN h = DOMAIN g \union batch
<1>1. PICK new \in NewNeighbors(g, batch) :
        h \in {insert_vertices_batch(insert_vertices_batch(g, new), rev) :
                 rev \in ReverseEdges(insert_vertices_batch(g, new), new)}
  BY DEF batch_insert
<1>2. PICK g1 : g1 = insert_vertices_batch(g, new)
  OBVIOUS
<1>3. PICK rev \in ReverseEdges(g1, new) : h = insert_vertices_batch(g1, rev)
  BY <1>1, <1>2
<1>4. /\ DOMAIN new = batch
      /\ \A p \in batch : \E S \in beam_search(g) :
           new[p] \in robustPrune(p, S, out_neighbors(g, p))
  BY SelectionsChoose DEF NewNeighbors
<1>5. /\ DOMAIN rev = UNION Range(new)
      /\ \A q \in DOMAIN rev :
           rev[q] \in robustPrune(q, {p \in DOMAIN new : q \in new[p]}, out_neighbors(g1, q))
  BY <1>3, SelectionsChoose DEF ReverseEdges
<1>6. \A p \in Points : out_neighbors(g, p) \in SUBSET Points
  BY DEF out_neighbors, IsGraph
<1>7. \A S \in beam_search(g) : /\ S \in SUBSET Points
                                /\ S \intersect old_delete_set = {}
                                /\ Closed(g) => S \subseteq DOMAIN g
  BY SearchesStayInside
<1>8. ASSUME NEW p \in batch
      PROVE  /\ new[p] \in SUBSET Points
             /\ Cardinality(new[p]) <= maxDeg
             /\ \A C : Clean(g, C) /\ batch \intersect DOMAIN g \subseteq C
                         => new[p] \intersect old_delete_set = {}
             /\ Closed(g) => new[p] \subseteq DOMAIN g
  <2>1. PICK S \in beam_search(g) : new[p] \in robustPrune(p, S, out_neighbors(g, p))
    BY <1>4
  <2>2. new[p] \subseteq S \union out_neighbors(g, p) /\ Cardinality(new[p]) <= maxDeg
    BY <2>1, <1>6, <1>7, PruningIsBounded
  <2> QED BY <2>2, <1>6, <1>7 DEF out_neighbors, Clean, Closed
<1>9. /\ DOMAIN g1 = DOMAIN g \union batch
      /\ \A p \in batch : g1[p] = new[p]
      /\ \A p \in DOMAIN g \ batch : g1[p] = g[p]
  BY <1>2, <1>4 DEF insert_vertices_batch
<1>10. \A q \in Points : out_neighbors(g1, q) \in SUBSET Points
  BY <1>8, <1>9 DEF out_neighbors, IsGraph
<1>11. DOMAIN rev \subseteq Points
  BY <1>4, <1>5, <1>8 DEF Range
<1>12. \A q \in DOMAIN rev : /\ rev[q] \subseteq batch \union out_neighbors(g1, q)
                             /\ Cardinality(rev[q]) <= maxDeg
  <2> TAKE q \in DOMAIN rev
  <2>1. {p \in DOMAIN new : q \in new[p]} \in SUBSET Points
    BY <1>4
  <2>2. out_neighbors(g1, q) \in SUBSET Points
    BY <1>10, <1>11
  <2>3. rev[q] \in robustPrune(q, {p \in DOMAIN new : q \in new[p]}, out_neighbors(g1, q))
    BY <1>5
  <2>4. /\ rev[q] \subseteq {p \in DOMAIN new : q \in new[p]} \union out_neighbors(g1, q)
        /\ Cardinality(rev[q]) <= maxDeg
    BY <2>1, <2>2, <2>3, PruningIsBounded
  <2> QED BY <1>4, <2>4
<1>13. /\ h = [p \in DOMAIN h |-> h[p]]
       /\ DOMAIN h = DOMAIN g \union batch \union DOMAIN rev
       /\ \A q \in DOMAIN rev : h[q] = rev[q]
       /\ \A p \in DOMAIN g1 \ DOMAIN rev : h[p] = g1[p]
  BY <1>3, <1>9 DEF insert_vertices_batch
<1>14. IsGraph(h)
  BY <1>8, <1>9, <1>10, <1>11, <1>12, <1>13 DEF IsGraph
<1>15. Bounded(g) => Bounded(h)
  BY <1>8, <1>9, <1>12, <1>13 DEF Bounded
<1>16. ASSUME NEW C, Clean(g, C), batch \intersect DOMAIN g \subseteq C
       PROVE  Clean(h, C \union batch)
  <2>1. \A p \in C \union batch : p \in DOMAIN g1 /\ g1[p] \intersect old_delete_set = {}
    BY <1>8, <1>9, <1>16 DEF Clean
  <2>2. \A p \in C \union batch : h[p] \intersect old_delete_set = {}
    BY <2>1, <1>12, <1>13 DEF out_neighbors
  <2> QED BY <2>1, <2>2, <1>9, <1>13 DEF Clean
<1>17. ASSUME Closed(g) PROVE Closed(h) /\ DOMAIN h = DOMAIN g \union batch
  <2>1. DOMAIN rev \subseteq DOMAIN g
    BY <1>4, <1>5, <1>8, <1>17 DEF Range
  <2>2. DOMAIN h = DOMAIN g \union batch
    BY <1>13, <2>1
  <2>3. \A p \in DOMAIN g1 : g1[p] \subseteq DOMAIN g \union batch
    BY <1>8, <1>9, <1>17 DEF Closed
  <2>4. \A p \in DOMAIN h : h[p] \subseteq DOMAIN g \union batch
    BY <1>9, <1>12, <1>13, <2>1, <2>3 DEF out_neighbors
  <2> QED BY <2>2, <2>4 DEF Closed
<1> QED BY <1>9, <1>13, <1>14, <1>15, <1>16, <1>17
-----------------------------------------------------------------------------
(* What replaces the edges of a vertex leads to no deleted point, and is   *)
(* within the bound although only the candidates are counted, repeated     *)
(* ones included: there are no more points found than findings.            *)
LEMMA RedirectionIsBounded ==
  ASSUME NEW g, IsGraph(g), NEW p \in DOMAIN g, NEW R \in Redirected(g, p)
  PROVE  /\ R \subseteq Points \ old_delete_set
         /\ Cardinality(R) <= maxDeg
         /\ Closed(g) => R \subseteq DOMAIN g
<1> DEFINE N == Candidates(g, p)
           C == Found(N)
<1>1. R \in SUBSET C /\ (R = C \/ Cardinality(R) <= maxDeg)
  BY DEF Redirected, AtMost
<1>2. ASSUME NEW c \in N
      PROVE  \E q \in Points : c \in {q} \X (out_neighbors(g, q) \ old_delete_set)
  BY DEF Candidates, IsGraph
<1>3. ASSUME NEW c \in N
      PROVE  /\ c \in Points \X (Points \ old_delete_set)
             /\ Closed(g) => c[2] \in DOMAIN g
  <2>1. PICK q \in Points : c \in {q} \X (out_neighbors(g, q) \ old_delete_set)
    BY <1>2
  <2> QED BY <2>1 DEF out_neighbors, IsGraph, Closed
<1>4. C \subseteq Points \ old_delete_set /\ (Closed(g) => C \subseteq DOMAIN g)
  BY <1>3 DEF Found
<1>5. CASE R = C /\ Cardinality(N) <= maxDeg
  <2> DEFINE f == [c \in N |-> c[2]]
  <2>1. N \in SUBSET (Points \X Points)
    BY <1>3
  <2>2. IsFiniteSet(N) /\ Cardinality(N) \in Nat
    BY <2>1, PointsAssumption, FS_Product, FS_Subset, FS_CardinalityType
  <2>3. f \in Surjection(N, C)
    BY DEF Surjection, Found
  <2>4. Cardinality(C) <= Cardinality(N)
    BY <2>2, <2>3, FS_Surjection
  <2>5. Cardinality(C) \in Nat
    BY <1>4, PointSets
  <2> QED BY <1>4, <1>5, <2>2, <2>4, <2>5, maxDegAssumption
<1>6. CASE Cardinality(R) <= maxDeg
  BY <1>1, <1>4, <1>6
<1>7. (R = C /\ Cardinality(N) <= maxDeg) \/ Cardinality(R) <= maxDeg
  BY DEF Redirected, AtMost
<1> QED BY <1>5, <1>6, <1>7

(* What a consolidation of some vertices does to the graph.                *)
LEMMA Consolidation ==
  ASSUME NEW g, IsGraph(g), NEW indices, NEW h \in consolidate(g, indices)
  PROVE  /\ IsGraph(h)
         /\ DOMAIN h = DOMAIN g
         /\ Bounded(g) => Bounded(h)
         /\ \A C : Clean(g, C) =>
               Clean(h, C \union ((indices \intersect DOMAIN g) \ old_delete_set))
         /\ Closed(g) => Closed(h)
<1> DEFINE change == {p \in (Vertices(g) \intersect indices) \ old_delete_set :
                        g[p] \intersect old_delete_set # {}}
<1>1. PICK new \in Selections([p \in change |-> Redirected(g, p)]) :
        h = insert_vertices_batch(g, new)
  BY DEF consolidate
<1>2. /\ change \subseteq DOMAIN g
      /\ \A p \in ((indices \intersect DOMAIN g) \ old_delete_set) \ change :
           g[p] \intersect old_delete_set = {}
  BY DEF Vertices
<1> HIDE DEF change
<1>3. DOMAIN new = change /\ \A p \in change : new[p] \in Redirected(g, p)
  BY SelectionsChoose
<1>4. ASSUME NEW p \in change
      PROVE  /\ new[p] \subseteq Points \ old_delete_set
             /\ Cardinality(new[p]) <= maxDeg
             /\ Closed(g) => new[p] \subseteq DOMAIN g
  BY <1>2, <1>3, RedirectionIsBounded
<1>5. /\ h = [p \in DOMAIN h |-> h[p]]
      /\ DOMAIN h = DOMAIN g
      /\ \A p \in change : h[p] = new[p]
      /\ \A p \in DOMAIN g \ change : h[p] = g[p]
  BY <1>1, <1>2, <1>3 DEF insert_vertices_batch
<1>6. IsGraph(h)
  BY <1>4, <1>5 DEF IsGraph
<1>7. Bounded(g) => Bounded(h)
  BY <1>4, <1>5 DEF Bounded
<1>8. Closed(g) => Closed(h)
  BY <1>4, <1>5 DEF Closed
<1>9. ASSUME NEW C, Clean(g, C)
      PROVE  Clean(h, C \union ((indices \intersect DOMAIN g) \ old_delete_set))
  BY <1>2, <1>4, <1>5, <1>9 DEF Clean
<1> QED BY <1>5, <1>6, <1>7, <1>8, <1>9
-----------------------------------------------------------------------------
(* A graph of the medoid and one point more.                               *)
LEMMA InitInv == Init => Inv
<1> SUFFICES ASSUME Init PROVE Inv
  OBVIOUS
<1> DEFINE g == [q \in {medoid} |-> {}]
<1>1. PICK p \in Points : G \in batch_insert(g, {p})
  BY DEF Init
<1>2. delete_set = {} /\ old_delete_set = {} /\ epoch_running = FALSE
      /\ clean = {} /\ thorough = TRUE
  BY DEF Init
<1>3. IsGraph(g) /\ medoid \in DOMAIN g /\ Closed(g)
  BY PointsAssumption DEF IsGraph, Closed
<1>4. Bounded(g)
  BY FS_EmptySet, maxDegAssumption DEF Bounded
<1>5. {p} \in SUBSET (Points \ old_delete_set)
  BY <1>1, <1>2
<1> HIDE DEF g
<1>6. /\ IsGraph(G) /\ Bounded(G) /\ Closed(G)
      /\ DOMAIN g \union {p} \subseteq DOMAIN G
  BY <1>1, <1>3, <1>4, <1>5, BatchInsert
<1> QED BY <1>2, <1>3, <1>6 DEF Inv, Types, EpochInv, Clean

(* The two rounds of an insertion.                                         *)
LEMMA InsertInv ==
  ASSUME Inv, Insert
  PROVE  Inv'
<1> USE DEF Inv, Types, EpochInv
<1> DEFINE absent == Points \ (Vertices(G) \union old_delete_set)
<1>a. PICK first \in absent : \E others \in AtMost(BatchSize - 1, absent \ {first}) :
        /\ G' \in insert(G, first, others)
        /\ clean' = clean \union {first} \union others
  BY DEF Insert
<1>1. PICK others \in AtMost(BatchSize - 1, absent \ {first}) :
        /\ G' \in insert(G, first, others)
        /\ clean' = clean \union {first} \union others
  BY <1>a
<1> DEFINE batch == {first} \union others
<1>2. /\ batch \in SUBSET (Points \ old_delete_set)
      /\ others \in SUBSET (Points \ old_delete_set)
      /\ batch \intersect DOMAIN G = {}
      /\ clean' = clean \union batch
  BY <1>1 DEF AtMost, Vertices
<1>3. UNCHANGED <<delete_set, old_delete_set, epoch_running, thorough>>
  BY DEF Insert
<1>4. PICK g1 \in batch_insert(G, batch) :
        \/ G' = g1
        \/ G' \in batch_insert(g1, others)
  BY <1>1 DEF insert
<1>5. /\ IsGraph(g1) /\ medoid \in DOMAIN g1 /\ Bounded(g1)
      /\ Clean(g1, clean \union batch)
      /\ thorough => Closed(g1)
  BY <1>2, <1>4, BatchInsert
<1>6. /\ IsGraph(G') /\ medoid \in DOMAIN G' /\ Bounded(G')
      /\ \E C : Clean(G', C) /\ clean \union batch \subseteq C
      /\ thorough => Closed(G')
  <2>1. CASE G' = g1
    BY <1>5, <2>1
  <2>2. CASE G' \in batch_insert(g1, others)
    <3> HIDE DEF batch
    <3>1. PICK g2 \in batch_insert(g1, others) : G' = g2
      BY <2>2
    <3>2. others \intersect DOMAIN g1 \subseteq clean \union batch
      BY DEF batch
    <3>3. /\ IsGraph(g2) /\ medoid \in DOMAIN g2 /\ Bounded(g2)
          /\ Clean(g2, (clean \union batch) \union others)
          /\ thorough => Closed(g2)
      BY <1>2, <1>5, <3>2, BatchInsert
    <3> QED BY <3>1, <3>3
  <2> QED BY <1>4, <2>1, <2>2
<1>7. Clean(G', clean')
  BY <1>2, <1>6 DEF Clean
<1> QED BY <1>2, <1>3, <1>6, <1>7 DEF Clean, IsGraph, Bounded, Closed

(* The epochs.                                                             *)
LEMMA EpochsInv ==
  ASSUME Inv, LazyDelete \/ StartDeleteEpoch \/ ConsolidateDeletes \/ EndDeleteEpoch
  PROVE  Inv'
<1> USE DEF Inv, Types, EpochInv
<1>1. CASE LazyDelete
  BY <1>1 DEF LazyDelete, Vertices, IsGraph, Bounded, Clean, Closed
<1>2. CASE StartDeleteEpoch
  BY <1>2 DEF StartDeleteEpoch, IsGraph, Bounded, Clean, Closed
<1>3. CASE ConsolidateDeletes
  <2>1. PICK indices \in Portions :
          /\ G' \in consolidate(G, indices)
          /\ clean' = clean \union ((indices \intersect DOMAIN G) \ old_delete_set)
    BY <1>3 DEF ConsolidateDeletes, Vertices
  <2>2. UNCHANGED <<delete_set, old_delete_set, epoch_running, thorough>>
    BY <1>3 DEF ConsolidateDeletes
  <2>3. /\ IsGraph(G') /\ DOMAIN G' = DOMAIN G /\ Bounded(G')
        /\ Clean(G', clean') /\ (thorough => Closed(G'))
    BY <2>1, Consolidation
  <2> QED BY <2>1, <2>2, <2>3 DEF IsGraph, Bounded, Clean, Closed
<1>4. CASE EndDeleteEpoch
  <2>1. /\ G' = [p \in DOMAIN G \ old_delete_set |-> G[p]]
        /\ old_delete_set' = {} /\ clean' = {} /\ delete_set' = delete_set
        /\ epoch_running' = FALSE
        /\ thorough' = (thorough /\ DOMAIN G \ old_delete_set \subseteq clean)
    BY <1>4 DEF EndDeleteEpoch, Restrict, Vertices
  <2>2. IsGraph(G') /\ Bounded(G') /\ medoid \in DOMAIN G'
    BY <2>1 DEF IsGraph, Bounded
  <2>3. thorough' => Closed(G')
    BY <2>1 DEF Closed, Clean
  <2> QED BY <2>1, <2>2, <2>3 DEF IsGraph, Bounded, Clean, Closed
<1> QED BY <1>1, <1>2, <1>3, <1>4

(* No step of the client breaks the invariant.                             *)
LEMMA StepInv == Inv /\ [Next]_vars => Inv'
<1>1. Inv /\ UNCHANGED vars => Inv'
  BY DEF Inv, Types, EpochInv, IsGraph, Bounded, Clean, Closed, vars
<1> QED BY <1>1, InsertInv, EpochsInv DEF Next

(* However many points of a batch choose the same neighbour, and however   *)
(* many neighbours a deleted one leaves behind, no vertex exceeds the      *)
(* degree bound.                                                           *)
THEOREM DegreesAreBounded == Spec => []DegreeIsBounded
<1>1. Inv => DegreeIsBounded
  BY DEF Inv, Bounded, DegreeIsBounded, Vertices
<1> QED BY InitInv, StepInv, <1>1, PTL DEF Spec

(* Nothing that is inserted or consolidated in an epoch gives a vertex     *)
(* that is new or already consolidated an edge to a point being deleted.   *)
THEOREM CleanVerticesStayClean == Spec => []CleanStaysClean
<1>1. Inv => CleanStaysClean
  BY DEF Inv, Clean, CleanStaysClean
<1> QED BY InitInv, StepInv, <1>1, PTL DEF Spec

(* If every epoch consolidates all its vertices, no edge ever leads to a   *)
(* point that is gone, and no search or insertion meets one.               *)
THEOREM ThoroughEpochsLeaveNoDanglingEdge == Spec => []EdgesLeadToVertices
<1>1. Inv => EdgesLeadToVertices
  BY DEF Inv, Closed, EdgesLeadToVertices, Vertices
<1> QED BY InitInv, StepInv, <1>1, PTL DEF Spec
=============================================================================
