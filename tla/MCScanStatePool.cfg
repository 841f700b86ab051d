SPECIFICATION Spec
CONSTANTS
  d1 = d1
  d2 = d2
  Dirs <- MCDirs
  MemoryBytes = 2
  IOFaults <- AllFaults
  WriteSizes = {1, 2}
  MaxCandidate = 3
  MaxCandidates = 3
  MaxCalls = 2
  Lossy = {TRUE, FALSE}
SYMMETRY DirSymmetry
INVARIANTS
  PayloadIntact
  SpillHasFile
  FilesOwned
