SPECIFICATION UploadSpec
CONSTANTS
  Id = {i1}
  Old = old
  New = new
  File <- MCFiles
  Total <- MCTotal
  NoFile = NoFile
  MaxChunks = 2
  TTL = 1
  MaxSessions = 1
  MaxFds = 1
  Wrap = 2
  MaxTime = 0
  Faults = {}
  Client = {c1}
  Worker = {w1, w2, w3}
  FileId <- MCFileId
  Versions <- OneVersion
  MaxRuns = 2
INVARIANTS SuccessIsPublished NeverLeftWaiting ClientNeverAhead WaitsForPublished
PROPERTY UploadEnds
