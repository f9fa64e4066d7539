SPECIFICATION Spec
CONSTANTS
  Ks = {2, 4}
  Values = {1, 2}
  InitialSections = 1
  MinK = 2
  RawItems = 1
  MaxStream = 16
  Inputs <- MCInputs
  None = None
INVARIANTS AccountsExact RankMatchesView ExactTail ReloadLossless
