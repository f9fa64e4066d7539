SPECIFICATION Spec
CONSTANTS
  Normalizer <- MCNormalizer
  MaxValue = 3
  MaxUnmerged = 4
  Inputs <- MCInputs
  MaxWeight = 13
  None = None
INVARIANTS DigestExact RanksConsistent QuantilesInRange
