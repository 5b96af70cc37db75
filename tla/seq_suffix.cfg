\* suffix at every position of every PaC-tree of up to 7 elements.
SPECIFICATION Spec
CONSTANTS
  B = 2
  Asserts = TRUE
  MaxTotal = 7
  MaxOne = 7
INVARIANT
  SuffixStartsAtRank
\* One operation, then the run is over.
CHECK_DEADLOCK FALSE
