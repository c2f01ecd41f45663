SPECIFICATION Spec
CONSTANTS
  Id = {i1}
  Long = long
  Short = short
  File <- MCFiles
  Total <- MCTotal
  NoFile = NoFile
  MaxChunks = 2
  TTL = 1
  MaxSessions = 1
  MaxFds = 2
  Wrap = 8
  MaxTime = 2
  Faults = {"open", "ftruncate", "memory", "pwrite", "read", "rename"}
INVARIANTS TypeOK BitmapMatchesDisk
PROPERTIES ProgressKept FullMeansReadError ImplementsUploadService
