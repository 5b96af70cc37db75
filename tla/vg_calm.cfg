\* Two readers overlap each other and three batches; inserts are calm.
SPECIFICATION Spec
CONSTANTS
  r1 = r1
  r2 = r2
  wr = wr
  Readers <- MCReaders
  Writer <- MCWriter
  MaxTs = 3
  NumSlots = 5
  MaxRefct = 9
  Calm = TRUE
INVARIANTS
  TypeOK
  SnapshotIsIntact
  FreedOnce
  LatestCanBeAcquired
  CountIsExact
  NoneForgotten
PROPERTIES
  ImplementsSnapshots
SYMMETRY ReaderSymmetry
