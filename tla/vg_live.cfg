\* Progress and slot use over four batches; inserts are calm.
SPECIFICATION FairSpec
CONSTANTS
  r1 = r1
  r2 = r2
  wr = wr
  Readers <- MCOneReader
  Writer <- MCWriter
  MaxTs = 4
  NumSlots = 5
  MaxRefct = 9
  Calm = TRUE
INVARIANTS
  UsedSlotsAreBounded
PROPERTIES
  EventuallyReclaimed
  LockFree
