\* A reader overlaps a third version that reuses a slot, freely.
SPECIFICATION FairSpec
CONSTANTS
  r1 = r1
  r2 = r2
  wr = wr
  Readers <- MCOneReader
  Writer <- MCWriter
  MaxTs = 2
  NumSlots = 4
  MaxRefct = 9
  Calm = FALSE
PROPERTIES
  LockFree
