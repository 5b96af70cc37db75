\* A medoid and three points, inserted one or two at a time.
SPECIFICATION Spec
CONSTANTS
  Points = {p0, p1, p2, p3}
  medoid = p0
  maxDeg = 2
  MaxBatch = 2
  MaxCalls = 4
  Portions <- MCPortions
SYMMETRY Symmetry
INVARIANTS
  DegreeIsBounded
  CleanStaysClean
  EdgesLeadToVertices
\* The client stops after MaxCalls calls.
CHECK_DEADLOCK FALSE
