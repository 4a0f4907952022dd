SPECIFICATION Spec
CONSTANTS
  NoKey = NoKey
  Key = {k1, k2, k3, k4}
  LifeTime = 2
  MaxRows = 3
  MinRows = 1
  DefaultMaxRows = 4
  DefaultMinRows = 2
  MaxNow = 4
SYMMETRY KeySymmetry
INVARIANTS
  SlotsPartitioned
  RowsFit
PROPERTIES
  FullMeansFull
  LiveRowsStay
