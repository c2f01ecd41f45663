SPECIFICATION Spec
CONSTANTS
  Wss = {c1, c2}
  Http = {h1}
  Worker = {w1}
  MaxFd = 2
  MaxBatch = 3
  Free = Free
  TempFile = TempFile
  Nobody = Nobody
INVARIANTS TypeOK OwnDescriptor InterestCoversPhase StaleOnlyAfterReap
CHECK_DEADLOCK FALSE
