SPECIFICATION Spec
CONSTANTS
  Modes <- AllModes
  MaxMatches = 3
  MaxPieces = 2
  Faults <- AllFaults
INVARIANTS
  OutputInOrder
  CompleteOnReturn
  AsyncStateQuiet
PROPERTY ReturnsUnlessMutateGivesUp
CHECK_DEADLOCK FALSE
