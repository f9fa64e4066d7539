SPECIFICATION SlotSpec
CONSTANTS
  MaxTheta = 28
  MinLgK = 1
  Hashes = {1, 4, 8, 9, 12, 17, 20, 23, 25}
  Values = {1}
  LgK = 2
  LgResize = 1
  Sampling <- MCSampled
  MaxOffers = 8
  NoEntry = NoEntry
INVARIANTS EntriesFindable RetainedExact SummaryComplete EstimationModeFull
PROPERTIES ImplementsTupleSketch
