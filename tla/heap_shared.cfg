\* Two clients that start with the same map.
SPECIFICATION Spec
CONSTANTS
  Clients = {c1, c2}
  NCells = 11
  MaxCalls = 2
  Given <- Both
SYMMETRY Symmetry
INVARIANTS
  TypeOK
  CountIsExact
  BorrowedIsAlive
  TreesAreOrdered
PROPERTIES
  MapsArePersistent
  ImplementsMaps
\* The clients stop when the batches and the maps are used up.
CHECK_DEADLOCK FALSE
