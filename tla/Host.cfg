SPECIFICATION HostSpec
CONSTANTS
  Scenes = {"flushes", "one object", "one reader"}
  Process = {p1}
  Host = {p1}
  Record = {r1, r2}
  NoRecord = NoRecord
  Timeout = 0
  SlowFlush = FALSE
  MaxSlab = 3
  MaxFault = 1
  o1 = o1
  f1 = f1
  h1 = h1
  h2 = h2
  ObjectId = {o1, o2}
  NoObject = NoObject
  NetHost = {h1, h2, h3}
  Reader = {f1, f2}
  Shards = 2
  MinShards = 2
  MaxMove = 2
  MaxRefusal = 1
INVARIANTS LocationsTypeOK ClaimsHold ForgottenStaysForgotten
PROPERTIES Drained DropsEnd
CHECK_DEADLOCK FALSE
