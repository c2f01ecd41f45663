SPECIFICATION Spec
CONSTANTS
  Id = {i1, i2}
  Long = long
  Short = short
  File <- OneFile
  Total <- OneTotal
  NoFile = NoFile
  MaxChunks = 2
  TTL = 1
  MaxSessions = 1
  MaxFds = 2
  Wrap = 8
  MaxTime = 2
  Faults = {"open", "ftruncate", "read"}
SYMMETRY IdSymmetry
INVARIANT DescriptorsMatch
PROPERTY CleanupSparesFresh
