SPECIFICATION Spec
CONSTANTS
  ListCapacity = 2
  LgInitSet = 2
  LgDirect = 2
  SetMargin = 0
  MaxRegister = 3
  KxqSplit = 2
  Coupons <- MCCoupons
  SourceLgs = {1, 2, 3}
  SourceTypes = {"Hll4", "Hll6", "Hll8"}
  LgMaxes = {1, 2}
  ForeignTypes = {"Hll8"}
INVARIANTS
  SourceComplete
  UnionComplete
  EstimatorUsable
