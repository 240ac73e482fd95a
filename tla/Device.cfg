SPECIFICATION DeviceSpec
CONSTANTS
  Scenes = {"restore", "index", "startup", "reads"}
  s1 = s1
  m1 = m1
  Session = {s1}
  Remembered = {m1}
  Names <- OneEach
  MaxSeq = 2
  MaxRestore = 2
  MaxGone = 1
  MaxFault = 1
  Process = {p1, p2}
  Subject = {r1, r2}
  VectorSize = 2
  RemovalSize = 1
  MaxStamp = 4
  MaxFailure = 2
  older = older
  newer = newer
  Opener = {older, newer}
  KnownSchema <- TwoBuilds
  Phrases = {ph1, ph2}
  NoPhrase = NoPhrase
  Nobody = Nobody
  Files = 2
  Attempts = 2
  MaxStart = 3
  Host = {p1, p2}
  Memory = {r1, r2}
  NoMemory = NoMemory
  Write = {w1}
  Read = {c1}
  MaxSlab = 2
  MaxCut = 1
  MaxForget = 1
SYMMETRY Symmetry
INVARIANTS
  TypesOK InOrder Restored IndexIsWhole
  SchemaIsItsVersion FetchIsSound AnswersAreRight FailsForCause
CHECK_DEADLOCK FALSE
