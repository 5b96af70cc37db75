------------------------------- MODULE KnnIndex -------------------------------
(***************************************************************************)
(* The vector index (diskann/index.h): a proximity graph whose points are  *)
(* inserted in batches and deleted lazily, in epochs that first redirect   *)
(* the edges to the deleted points and then remove their vertices.         *)
(*                                                                         *)
(* One thread inserts, consolidates and runs the epochs; each of these     *)
(* calls acquires the latest version of the graph, computes the next one   *)
(* and publishes it, so that it is one step here.  lazy_delete may come    *)
(* from any thread at any moment.  Queries read a version and write        *)
(* nothing.  Distances are left out: a search visits, and a pruning keeps, *)
(* what some distances make it visit and keep.                             *)
(***************************************************************************)
EXTENDS Integers, FiniteSets, Functions

CONSTANTS
  Points,    \* the points that have coordinates
  medoid,    \* where searches begin
  maxDeg,    \* degree bound of the graph
  MaxBatch,  \* bound: points inserted at once
  MaxCalls,  \* bound: insertions and epochs
  Portions   \* bound: the sets of points consolidated at once

ASSUME PointsAssumption == IsFiniteSet(Points) /\ medoid \in Points
ASSUME maxDegAssumption == maxDeg \in Nat \ {0}

VARIABLES
  G,               \* the latest version: out-neighbours of each vertex
  delete_set,      \* points deleted since the last epoch began
  old_delete_set,  \* points this epoch deletes
  epoch_running,
  clean,           \* history: vertices consolidated in this epoch or new in it
  thorough,        \* history: every epoch ended with all its vertices clean
  calls            \* history: insertions and epochs so far

vars == <<G, delete_set, old_delete_set, epoch_running, clean, thorough, calls>>

Vertices(g) == DOMAIN g
out_neighbors(g, p) == IF p \in DOMAIN g THEN g[p] ELSE {}
insert_vertices_batch(g, new) ==
  [p \in DOMAIN g \union DOMAIN new |-> IF p \in DOMAIN new THEN new[p] ELSE g[p]]

AtMost(n, C) == {R \in SUBSET C : Cardinality(R) <= n}
-----------------------------------------------------------------------------
\* The sets of points a search may visit: from the medoid, along edges.
Walks(g) ==
  {S \in SUBSET Points :
     /\ medoid \in S
     /\ \A T \in SUBSET S :
          medoid \in T /\ (\A p \in T : out_neighbors(g, p) \intersect S \subseteq T) => T = S}

VisitsTheDeleted(g) == Walks(g)

\* The candidates of a search leave out what the epoch deletes.
beam_search(g) == {S \ old_delete_set : S \in Walks(g)}

\* What may be kept of the neighbours mine of p and of the candidates: all if
\* the degree bound allows it, else the nearest and others not pruned by it.
robustPrune(p, candidates, mine) ==
  LET C == (candidates \union mine) \ {p}
  IN  IF Cardinality(candidates) + Cardinality(mine) <= maxDeg
      THEN {C}
      ELSE {R \in AtMost(maxDeg, C) : R = {} => C = {}}

\* One of choices[p] for every p.
Selections(choices) ==
  {f \in [DOMAIN choices -> UNION Range(choices)] :
     \A p \in DOMAIN choices : f[p] \in choices[p]}

\* The points of a batch find neighbours in the graph without the batch.
NewNeighbors(g, batch) ==
  LET searches == beam_search(g)
  IN  Selections([p \in batch |->
        UNION {robustPrune(p, visited, out_neighbors(g, p)) : visited \in searches}])

\* The neighbours found get edges back.
ReverseEdges(g, new) ==
  Selections([q \in UNION Range(new) |->
    robustPrune(q, {p \in DOMAIN new : q \in new[p]}, out_neighbors(g, q))])

batch_insert(g, batch) ==
  UNION {LET g1 == insert_vertices_batch(g, new)
         IN  {insert_vertices_batch(g1, rev) : rev \in ReverseEdges(g1, new)} :
           new \in NewNeighbors(g, batch)}

\* insert runs batch_insert_functional on all points and then
\* batch_insert_inplace on all but the first, in rounds that begin with one.
insert(g, first, others) ==
  LET g1 == batch_insert(g, {first} \union others)
  IN  IF others = {} THEN g1 ELSE UNION {batch_insert(h, others) : h \in g1}
-----------------------------------------------------------------------------
\* The neighbours of p that stay, and those of its deleted neighbours, each
\* with the vertex it was found at: what is found twice counts twice.
Candidates(g, p) ==
  UNION {{q} \X (out_neighbors(g, q) \ old_delete_set) :
           q \in {p} \union (g[p] \intersect old_delete_set)}

Found(candidates) == {c[2] : c \in candidates}

CountsSurvivorsOnly(g, p) ==
  LET C == Found(Candidates(g, p))
  IN  IF Cardinality(g[p] \ old_delete_set) <= maxDeg THEN {C} ELSE AtMost(maxDeg, C \ {p})

\* Only the pruning leaves p itself out.
Redirected(g, p) ==
  LET C == Found(Candidates(g, p))
  IN  IF Cardinality(Candidates(g, p)) <= maxDeg
      THEN {C}
      ELSE {R \in AtMost(maxDeg, C \ {p}) : R = {} => C \subseteq {p}}

consolidate(g, indices) ==
  LET change == {p \in (Vertices(g) \intersect indices) \ old_delete_set :
                   g[p] \intersect old_delete_set # {}}
  IN  {insert_vertices_batch(g, new) :
         new \in Selections([p \in change |-> Redirected(g, p)])}
-----------------------------------------------------------------------------
\* build_index inserts points into a graph of the medoid alone. Bound: one point.
Init ==
  /\ delete_set = {} /\ old_delete_set = {} /\ epoch_running = FALSE
  /\ \E p \in Points : G \in batch_insert([q \in {medoid} |-> {}], {p})
  /\ clean = {} /\ thorough = TRUE /\ calls = 0

Call == calls < MaxCalls /\ calls' = calls + 1

\* The client inserts points that have no vertex, and none that the running
\* epoch deletes. Bound: only its first call inserts several at once.
BatchSize == IF calls = 0 THEN MaxBatch ELSE 1

Insert ==
  /\ Call
  /\ LET new == Points \ (Vertices(G) \union old_delete_set)
     IN  \E first \in new : \E others \in AtMost(BatchSize - 1, new \ {first}) :
           /\ G' \in insert(G, first, others)
           /\ clean' = clean \union {first} \union others
  /\ UNCHANGED <<delete_set, old_delete_set, epoch_running, thorough>>

\* The medoid is not deleted. Bound: points that have no vertex are not either.
LazyDelete ==
  /\ \E p \in Vertices(G) \ {medoid} : delete_set' = delete_set \union {p}
  /\ UNCHANGED <<G, old_delete_set, epoch_running, clean, thorough, calls>>

StartDeleteEpoch ==
  /\ Call
  /\ ~epoch_running
  /\ delete_set' = old_delete_set /\ old_delete_set' = delete_set
  /\ epoch_running' = TRUE
  /\ clean' = {}
  /\ UNCHANGED <<G, thorough>>

ConsolidateDeletes ==
  /\ epoch_running
  /\ \E indices \in Portions :
       /\ G' \in consolidate(G, indices)
       /\ clean' = clean \union ((indices \intersect Vertices(G)) \ old_delete_set)
  /\ UNCHANGED <<delete_set, old_delete_set, epoch_running, thorough, calls>>

DeletesTheNext ==
  /\ epoch_running
  /\ G' = Restrict(G, Vertices(G) \ delete_set)
  /\ old_delete_set' = {}
  /\ epoch_running' = FALSE
  /\ clean' = {}
  /\ thorough' = (thorough /\ Vertices(G) \ old_delete_set \subseteq clean)
  /\ UNCHANGED <<delete_set, calls>>

EndDeleteEpoch ==
  /\ epoch_running
  /\ G' = Restrict(G, Vertices(G) \ old_delete_set)
  /\ old_delete_set' = {}
  /\ epoch_running' = FALSE
  /\ clean' = {}
  /\ thorough' = (thorough /\ Vertices(G) \ old_delete_set \subseteq clean)
  /\ UNCHANGED <<delete_set, calls>>

Next ==
  \/ Insert \/ LazyDelete
  \/ StartDeleteEpoch \/ ConsolidateDeletes \/ EndDeleteEpoch

Spec == Init /\ [][Next]_vars
-----------------------------------------------------------------------------
(* No vertex has more than maxDeg neighbours: not after a batch in which   *)
(* many points found the same neighbour, and not after a consolidation     *)
(* that replaces one deleted neighbour by all of its neighbours.           *)
DegreeIsBounded == \A p \in Vertices(G) : Cardinality(G[p]) <= maxDeg

(* A vertex that was consolidated in this epoch, or is new in it, has no   *)
(* edge to a point the epoch deletes, whatever is inserted beside it until *)
(* the epoch ends ("vertex u has deleted neighbor v", index.h:388).        *)
CleanStaysClean == \A p \in clean : G[p] \intersect old_delete_set = {}

(* If every epoch consolidated all its vertices, no edge leads to a point  *)
(* that is not in the graph, so that no search visits, and no insertion    *)
(* brings back, a point that was removed.                                  *)
EdgesLeadToVertices == thorough => \A p \in Vertices(G) : G[p] \subseteq Vertices(G)
=============================================================================
