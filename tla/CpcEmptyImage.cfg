SPECIFICATION Spec
CONSTANTS
  None = None
  NumCols = 6
  ColSpan = 8
  ColBits = 3
  WindowBits = 3
  SparseLimit <- MCSparseLimit
  HybridLimit <- MCHybridLimit
  ColumnCode <- MCColumnCode
  WindowCode <- MCWindowCode
  Permutation <- MCPermutation
  MaxCode = 5
  UnaryPeek = 3
  WordBits = 2
  Ks = {1, 2}
  Inputs <- MCInputs
  MaxGap = 2
  MaxMerges = 2
  EmptyImages = TRUE
INVARIANT KxpIsProbability
