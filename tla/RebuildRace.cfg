SPECIFICATION Spec
CONSTANTS
  s1 = s1
  m1 = m1
  Session = {s1}
  Remembered = {m1}
  Names <- OneEach
  MaxSeq = 2
  MaxRestore = 1
  MaxGone = 0
  MaxFault = 0
PROPERTY HeadKept
CHECK_DEADLOCK FALSE
