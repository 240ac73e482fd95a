SPECIFICATION ReadsSpec
CONSTANTS
  Host = {p1, p2}
  Memory = {r1, r2}
  NoMemory = NoMemory
  Write = {w1}
  Read = {c1}
  MaxSlab = 2
  MaxCut = 1
  MaxForget = 2
SYMMETRY Symmetry
INVARIANT ForgetResumes
CHECK_DEADLOCK FALSE
