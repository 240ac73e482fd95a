SPECIFICATION TimerSpec
CONSTANTS
  Process = {p1}
  Host = {p1}
  Record = {r1, r2}
  NoRecord = NoRecord
  Timeout = 0
  SlowFlush = FALSE
  MaxSlab = 2
  MaxFault = 0
PROPERTY Drained
CHECK_DEADLOCK FALSE
