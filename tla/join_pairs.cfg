\* Every pair of PaC-trees of up to 26 elements together; positions in every one of up to 15.
SPECIFICATION Spec
CONSTANTS
  B = 2
  Asserts = TRUE
  MaxTotal = 26
  MaxOne = 15
INVARIANTS
  JoinIsPacTree
  JoinConcatenates
  PartsAreExact
\* One operation, then the run is over.
CHECK_DEADLOCK FALSE
