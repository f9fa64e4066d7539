SPECIFICATION CountSpec
CONSTANTS
  Sketches = {"left", "right"}
  Elements = {1, 2, 3}
  Rows = {1, 2}
  NumBuckets = 3
  Bucket <- MCBucket
  Weights <- MCWeights
  Decays <- MCDecays
  MaxValue = 5
INVARIANTS NeverUnderestimates
PROPERTIES CountReloadLossless
