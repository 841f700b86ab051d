SPECIFICATION Spec
CONSTANTS
  Modes <- AutoMode
  MaxMatches = 1
  MaxPieces = 1
  Faults <- SizeLimit
PROPERTY FailureIsReturned
CHECK_DEADLOCK FALSE
