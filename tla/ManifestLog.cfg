SPECIFICATION FairSpec
CONSTANTS
  Process = {p1, p2}
  Record = {r1, r2}
  Nobody = Nobody
  NoRecord = NoRecord
  MaxStamp = 3
  MaxFault = 1
INVARIANTS TypeOK CopyBehindFiles AcknowledgedIsKept
PROPERTIES ImplementsCatalog Served
