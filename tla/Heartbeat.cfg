SPECIFICATION LiveSpec
CONSTANTS
  IdleSettings = {0, 1, 3}
  PingSettings = {0, 1, 9}
  DefaultIdle = 7
  MinPing = 3
  Res = 2
  MaxLate = 1
  MaxAge = 20
INVARIANTS TypeOK HealthyPeerKept PingsKeepPace
PROPERTY HalfOpenEnds
