SPECIFICATION SceneSpec
CONSTANTS
  Scenes = {"takeover", "host"}
  Process = {p1, p2, p3}
  Host = {p3}
  Shell = {}
  Record = {r1, r2}
  NoRecord = NoRecord
  Timeout = 0
  SlowFlush = TRUE
  MaxSlab = 3
  MaxFault = 1
SYMMETRY Symmetry
INVARIANTS TypeOK Durable BilledIsLedgered ToldIsStored
CHECK_DEADLOCK FALSE
