SPECIFICATION ScanSpec
CONSTANTS
  Cases <- MCCases
  DispatchLimit = 2
INVARIANTS
  AgreesWithEvaluator
  PathsAgree
  MatchersFollow
PROPERTY HitsStay
