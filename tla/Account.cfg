SPECIFICATION AccountSpec
CONSTANTS
  d1 = d1
  d2 = d2
  p1 = p1
  p2 = p2
  Device = {d1, d2}
  Process = {p1, p2}
  Home <- OneEach
  Record = {r1, r2}
  Commands = {"reclaim", "repack", "orphans", "unreadable", "hydrate", "ownership", "release-all"}
  MaxSlab = 4
  MaxFault = 2
SYMMETRY AccountSymmetry
INVARIANTS
  TypeOK Kept BilledIsFindable Swept
PROPERTY StrandsNothing
CHECK_DEADLOCK FALSE
