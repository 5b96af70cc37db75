\* insert on a block.
SPECIFICATION Spec
CONSTANTS
  B = 2
  Asserts = FALSE
  MaxKey = 4
  Vals = {1}
  Ops = {"insert"}
  MaxCalls = 4
  Stride = 2
  BatchKeys <- AllKeySets
  BatchValues <- AnyValue
  RangeEnds <- Keys
INVARIANTS
  HoldsWhatItPromises
\* The client stops after MaxCalls calls.
CHECK_DEADLOCK FALSE
