SPECIFICATION Spec
CONSTANTS
  Conn = {c1}
  Worker = {w1, w2}
  NoConn = NoConn
  EarlyData = TRUE
  MaxInput = 3
  MaxPings = 1
SYMMETRY WorkerSymmetry
INVARIANTS TypeOK DataNeverFollowsClose UpgradeResponseFirst NoLostWakeup EchoExactlyOnce
