SPECIFICATION Spec
CONSTANTS
  HeadLimit = 6
  BodyLimit = 3
  RecvLen = 3
  SndBuf = 2
  PageLen = 5
  Heads = {1, 3, 6, 10}
  Bodies = {0, 1, 2, 3, 4, 5}
INVARIANTS TypeOK LoggedOnce StatusFitsRequest CutShortOnlyByPeer
PROPERTY Answered
CHECK_DEADLOCK FALSE
