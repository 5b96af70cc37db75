\* map_union of two small maps.
SPECIFICATION Spec
CONSTANTS
  B = 2
  Asserts = FALSE
  MaxKey = 3
  Vals = {1, 2}
  Ops = {"multi_insert", "union"}
  MaxCalls = 2
  Stride = 2
  BatchKeys <- AllKeySets
  BatchValues <- AnyValue
  RangeEnds <- Keys
INVARIANTS
  HoldsWhatItPromises
\* The client stops after MaxCalls calls.
CHECK_DEADLOCK FALSE
