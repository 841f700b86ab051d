SPECIFICATION Spec
CONSTANTS
  Documents <- MCDocuments
  Mutations <- MCMutations
  MaxMutations = 3
INVARIANTS
  Parity
  FailsTogether
  AddsNoMember
  RemovedIsGone
