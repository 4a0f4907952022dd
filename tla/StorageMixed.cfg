SPECIFICATION StorageSpec
CONSTANTS
  NoKey = NoKey
  Key = {0, 1}
  IdRange = 2
  LifeTime = 1
  MaxRows = 1
  MinRows = 1
  DefaultMaxRows = 4
  DefaultMinRows = 2
  MaxNow = 2
  Serial = TRUE
  Missing = Missing
  Bad = Bad
  Keep = Keep
  NoId = NoId
  BadId = BadId
  Torn = Torn
  NoRow = NoRow
  Fields <- MixedFields
  Given <- MixedGiven
  InsertFill <- MixedInsertFill
  UpdateFill <- MixedUpdateFill
  RawRow <- MixedRaw
  RequestId <- Requests
INVARIANTS
  RowLengthIsMaximal
  FixedFieldsAtPosition
PROPERTIES
  ImplementsTable
