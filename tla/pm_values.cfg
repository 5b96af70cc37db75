\* Two values, even B: batches give dense and sparse runs of keys different ones; insertions too.
SPECIFICATION Spec
CONSTANTS
  B = 2
  Asserts = FALSE
  MaxKey = 20
  Vals = {1, 2}
  Ops = {"remove", "update", "multi_insert", "multi_insert_map", "multi_update", "multi_delete", "difference", "insert"}
  MaxCalls = 3
  Stride = 2
  BatchKeys <- Runs
  BatchValues <- ByDensity
  RangeEnds <- EveryFifth
INVARIANTS
  StructureIsSound
  IsSearchTree
  HoldsWithoutInsert
\* The client stops after MaxCalls calls.
CHECK_DEADLOCK FALSE
