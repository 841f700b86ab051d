SPECIFICATION MemorySpec
CONSTANTS
  m1 = m1
  m2 = m2
  Observers <- MCStreams
  Floor = 256
  Ceil = 2048
  ClassCaps <- MCClassCaps
  SizeClasses <- MCSizeClasses
  Ids = {1, 2, 3, 4, 5, 6}
  MemoryBytes = 1000
  LearntHints = {600}
  InitialHint = 256
  WriteSizes = {330, 660}
  PayloadSizes = {600, 880}
  MaxCandidates = 3
  MaxWork = 2
  MaxFills = 2
  MaxPayloads = 2
  MaxNesting = 2
SYMMETRY MCSymmetry
CHECK_DEADLOCK FALSE
INVARIANTS
  BuffersExclusive
  PanicNeedsOddBuffer
PROPERTY
  HintIsAtomic
