SPECIFICATION Spec
CONSTANTS
  s1 = s1
  m1 = m1
  Session = {s1}
  Remembered = {m1}
  Names <- OneEach
  MaxSeq = 1
  MaxRestore = 2
  MaxGone = 0
  MaxFault = 0
INVARIANT Searchable
CHECK_DEADLOCK FALSE
