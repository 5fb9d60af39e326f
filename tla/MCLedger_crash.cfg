SPECIFICATION Spec
CONSTANTS
  p1 = p1  p2 = p2  p3 = p3  t1 = t1  t2 = t2  t3 = t3
  Proc = {p1, p2}
  Thread = {t1, t2}
  Host <- TwoHosts
  RecordId <- Ids2
  Nobody = Nobody  NoLock = NoLock
  Missing = Missing  Garbage = Garbage  Binary = Binary
  Ops <- JustRecord
  MaxRecords = 5
  DefaultDays = 0
  StaleAfter = 2
  LockWait = 1
  HoldTime = 1
  DiskFaults <- AllFaults
  InitialFiles <- AnyFile
  MaxCalls = 1
  MaxCrashes = 1
  MaxDay = 0
INVARIANTS AckedRecordsKept
PROPERTIES NeverTorn
