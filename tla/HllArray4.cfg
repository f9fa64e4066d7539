SPECIFICATION TableSpec
CONSTANTS
  K = 4
  MaxValue = 7
  AuxToken = 3
  LgAuxSize = 1
INVARIANTS
  RegistersExact
  CountersExact
  NoPanic
  TableIsMap
PROPERTIES ShiftingEnds
