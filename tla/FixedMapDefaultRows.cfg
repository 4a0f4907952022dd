SPECIFICATION Spec
CONSTANTS
  NoKey = NoKey
  Key = {k1, k2, k3, k4}
  LifeTime = 0
  MaxRows = 2
  MinRows = 0
  DefaultMaxRows = 4
  DefaultMinRows = 3
  MaxNow = 1
SYMMETRY KeySymmetry
INVARIANT AtMostMaxRows
