SPECIFICATION SceneSpec
CONSTANTS
  Scenes = {"together"}
  Process = {p1, p2}
  Host = {p2}
  Shell = {p1}
  Record = {r1, r2}
  NoRecord = NoRecord
  Timeout = 0
  SlowFlush = FALSE
  MaxSlab = 2
  MaxFault = 0
SYMMETRY Symmetry
INVARIANT ToldIsStored
CHECK_DEADLOCK FALSE
