SPECIFICATION LiveSpec
CONSTANTS
  MaxConn = 3
  MaxActs = 1
  MaxOthers = 1
  MaxQueue = 2
INVARIANTS
  NoPhantomMove
  NullDrawIsSafe
PROPERTIES
  Converges
  DrawIsAnswered
CHECK_DEADLOCK FALSE
