SPECIFICATION StorageSpec
CONSTANTS
  NoKey = NoKey
  Key = {0, 1, 2, 3}
  IdRange = 4
  LifeTime = 0
  MaxRows = 2
  MinRows = 1
  DefaultMaxRows = 4
  DefaultMinRows = 2
  MaxNow = 1
  Serial = FALSE
  Missing = Missing
  Bad = Bad
  Keep = Keep
  NoId = NoId
  BadId = BadId
  Torn = Torn
  NoRow = NoRow
  Fields <- DateFields
  Given <- DateGiven
  InsertFill <- DateFill
  UpdateFill <- DateUpdateFill
  RawRow <- DateRaw
  RequestId <- WideRequests
INVARIANT RowLengthIsMaximal
