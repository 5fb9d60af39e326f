SPECIFICATION FairSpec
CONSTANTS
  p1 = p1  p2 = p2  p3 = p3  t1 = t1  t2 = t2  t3 = t3
  Proc = {p1, p2}
  Thread = {t1, t2, t3}
  Host <- SharedHost
  RecordId <- Ids3
  Nobody = Nobody  NoLock = NoLock
  Missing = Missing  Garbage = Garbage  Binary = Binary
  Ops <- EveryOp
  MaxRecords = 2
  DefaultDays = 1
  StaleAfter = 1
  LockWait = 1
  HoldTime = 0
  DiskFaults <- NoFaults
  InitialFiles <- TornOrGood
  MaxCalls = 1
  MaxCrashes = 0
  MaxDay = 1
INVARIANTS MutualExclusion
PROPERTIES ImplementsBook RecordsObeySettings EveryCallReturns
