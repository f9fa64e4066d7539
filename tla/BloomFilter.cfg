SPECIFICATION Spec
CONSTANTS
  Filters = {"f", "g", "h"}
  Items = {1, 2, 3}
  Seeds = {1, 2}
  Seed <- MCSeed
  Hash0 <- MCHash0
  Hash1 <- MCHash1
  HashBits = 5
  WordBits = 4
  NumBits <- MCNumBits
  NumHashes <- MCNumHashes
  MaxCalls = 6
INVARIANTS NoFalseNegatives CountExact
PROPERTIES ReloadLossless
