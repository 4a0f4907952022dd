SPECIFICATION MCSpec
CONSTANTS
  Texts <- MCTexts
  MaxBits = 2
  MaxValue = 97
  MaxDigits = 9
  MinScale <- MCMinScale
  MaxScale = 3
  NotScale <- MCNotScale
  Decimal <- MCDecimals
  Operand <- MCOperands
  Scales <- MCScales
  Text <- MCText
  Signed <- MCSigned
  Unsigned <- MCUnsigned
  Narrowest <- MCNarrowest
  Widest = 11
  Error = Error
CHECK_DEADLOCK FALSE
INVARIANTS
  TextIsCut
  ArithmeticIsRounded
  TextsAreRounded
  TextComesBack
  ConversionsAreRounded
PROPERTIES
  TurnsMoveOn
