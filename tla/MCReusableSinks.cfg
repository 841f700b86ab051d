SPECIFICATION Spec
CONSTANTS
  u1 = u1
  u2 = u2
  Streams <- MCStreams
  MaxSinks = 2
  MemoryBytes = 1
  WriteSizes = {1, 2}
  MaxCandidate = 3
  MaxBytes = 5
  IOFaults = {"create", "rewind", "write", "remove"}
SYMMETRY StreamSymmetry
INVARIANTS
  Exclusive
  PayloadIntact
  FilesReclaimable
  NothingPooledOnceClosed
