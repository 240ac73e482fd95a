SPECIFICATION AnswersSpec
CONSTANTS
  Scenes = {"sessions"}
  p1 = p1
  c1 = c1
  c2 = c2
  Process = {p1}
  Call = {c1, c2}
  Serves <- OneHost
  First = First
  NoSession = NoSession
  HeadRevisions = 2
  MaxChunk = 2
  MaxFault = 0
  Turn = {1, 2, 3, 4}
  Weight <- LongLast
  Target = 3
  PageLimits = {0, 2}
  MaxBatch = 3
  MaxTurns = 5
  RowIds = {1, 2, 3}
  PageSizes = {0, 3}
  Filters <- FewFilters
  DefaultRecordLimit = 1
  MaxRecordLimit = 2
  MaxTime = 1
  MaxChange = 2
  Talk = {1, 2}
  Drawn = {m1}
  ResumeChoices = 1
  ResumeTurns = 2
  MaxResumeTurns = 2
  Numbers = {0, 1}
  MaxEvent = 3
  q1 = q1
  q2 = q2
  Asking = {q1, q2}
  NoQuery = NoQuery
  NearOrders <- FewNear
  TermOrders <- FewTerms
  Statuses <- FewStatuses
  Requests <- FewRequests
  Limits = {0, 3}
  Found = {1, 2, 3}
  DefaultLimit = 1
  MaxLimit = 2
  DefaultCandidates = 2
SYMMETRY Symmetry
INVARIANT EdgeGoesToo
CHECK_DEADLOCK FALSE
