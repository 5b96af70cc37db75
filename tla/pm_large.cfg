\* Batches of up to 24 keys, odd B: flat and recursive cases, rotations; assertions on.
SPECIFICATION Spec
CONSTANTS
  B = 3
  Asserts = TRUE
  MaxKey = 24
  Vals = {1}
  Ops = {"remove", "multi_insert", "multi_insert_map", "multi_update", "multi_delete", "union", "intersect", "difference", "filter", "range"}
  MaxCalls = 3
  Stride = 2
  BatchKeys <- Runs
  BatchValues <- AnyValue
  RangeEnds <- EveryFifth
INVARIANTS
  StructureIsSound
  IsSearchTree
  QueriesAgree
  HoldsWhatItPromises
\* The client stops after MaxCalls calls.
CHECK_DEADLOCK FALSE
