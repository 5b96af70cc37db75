\* Batches of edges and of vertices on up to 20 vertices of up to 20 neighbours.
SPECIFICATION Spec
CONSTANTS
  B = 2
  Asserts = FALSE
  MaxKey = 20
  Vals = {1}
  MaxCalls = 3
  Sources <- MCSources
  Targets <- MCTargets
INVARIANTS
  HoldsThePromisedEdges
  TreesAreSound
\* The client stops after MaxCalls batches.
CHECK_DEADLOCK FALSE
