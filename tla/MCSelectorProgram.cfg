SPECIFICATION Spec
CONSTANTS
  a = a
  b = b
  all = all
  Clauses <- MCClauses
  MatchAll = all
  Selectors <- MCSelectors
  MaxCandidates = 2
INVARIANTS
  MatchAgrees
  PruneLeavesNoMatch
