SPECIFICATION Spec
CONSTANTS
  c1 = c1
  c2 = c2
  s1 = s1
  s2 = s2
  o1 = o1
  o2 = o2
  Calls <- MCCalls
  States <- MCStates
  Objects <- MCObjects
  Selectors <- MCSelectors
  Relative <- MCRelative
  Invalid <- MCInvalid
  Date <- MCDate
  BadDates <- MCBadDates
  Means <- MCMeans
  Hash <- MCHash
  Same <- MCSame
  MaxEntries = 2
  MaxClock = 1
SYMMETRY Symmetry
INVARIANTS
  OnePlanEach
  EngineIsFresh
