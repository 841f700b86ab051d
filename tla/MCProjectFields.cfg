SPECIFICATION ProjectSpec
CONSTANTS
  Tokens <- MCTokens
  Order <- MCOrder
  Number <- MCNumber
  Digits <- MCDigits
  MaxIndex = 3
  PathLists <- MCPathLists
  Documents <- MCDocuments
  FirstRoom = 1
  Rooms = {2, 4}
  MaxCalls = 2
CHECK_DEADLOCK FALSE
INVARIANTS
  OnlySelectedFields
  SelectedFieldsEmitted
  ConflictsExact
