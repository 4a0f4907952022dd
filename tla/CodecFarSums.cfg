SPECIFICATION MCSpec
CONSTANTS
  Texts = {}
  MaxBits = 2
  MaxValue = 97
  MaxDigits = 9
  MinScale <- MCMinScale
  MaxScale = 3
  NotScale <- MCNotScale
  Decimal <- MCDecimals
  Operand <- MCOperands
  Scales <- MCScales
  Text = {}
  Signed = {}
  Unsigned = {}
  Narrowest <- MCNarrowest
  Widest = 11
  Error = Error
CHECK_DEADLOCK FALSE
INVARIANTS
  FarSumsAreRounded
