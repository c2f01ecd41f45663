SPECIFICATION LiveSpec
CONSTANTS
  Conn = {c1}
  Worker = {w1}
  NoConn = NoConn
  EarlyData = FALSE
  MaxInput = 3
  MaxPings = 0

PROPERTY EventuallySent
