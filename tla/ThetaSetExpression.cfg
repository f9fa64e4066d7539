SPECIFICATION ExprSpec
CONSTANTS
  MaxTheta = 40
  MinLgK = 1
  Hashes <- MCHashes
  LgK = 1
  LgResize = 1
  Sampling <- MCFullRate
  Inputs <- MCInputs
  Seed = "mine"
  MaxUpdates = 3
  MaxLgK = 4
  ByteBits = 4
INVARIANTS
  ResultRepresentsUnion
  ResultThetaJustified
  ResultRepresentsIntersection
  ResultRepresentsDifference
  JaccardExact
  ImagesLossless
