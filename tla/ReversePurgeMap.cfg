SPECIFICATION SlotSpec
CONSTANTS
  Sketches = {"left", "right"}
  Items = {1, 2, 3, 4, 5, 6, 7}
  Counts = {0, 1, 2, 4}
  Thresholds = {0, 2}
  LgMin = 2
  LgMax <- MCLgMax
  SampleSize = 1024
  MaxUpdates = 8
  MaxMerges = 1
  MaxRepeats = 1
  CountsOf <- MCCountsOf
  Homes <- MCHomes
INVARIANTS
  BoundsHold
  ListsHonourErrorType
  ErrorPaidFor
  EntriesFindable
PROPERTIES ImplementsFrequentItems
