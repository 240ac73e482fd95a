SPECIFICATION IndexSpec
CONSTANTS
  Process = {p1, p2}
  Subject = {r1}
  VectorSize = 2
  RemovalSize = 1
  MaxStamp = 4
  MaxFailure = 1
INVARIANT ReadsBack
CHECK_DEADLOCK FALSE
