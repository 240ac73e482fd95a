SPECIFICATION Spec
CONSTANTS
  d1 = d1
  d2 = d2
  p1 = p1
  p2 = p2
  Device = {d1}
  Process = {p1, p2}
  Home <- Both
  Record = {r1, r2}
  Commands = {"reclaim"}
  MaxSlab = 3
  MaxFault = 0
SYMMETRY Symmetry
INVARIANT Kept
CHECK_DEADLOCK FALSE
