SPECIFICATION Spec
CONSTANTS
  MaxTokens = 5
  Inputs <- MCInputs
CHECK_DEADLOCK FALSE
INVARIANTS
  LinesMatchInput
  CountersTrue
  EditIsAtomic
