SPECIFICATION Spec
CHECK_DEADLOCK FALSE
CONSTANTS
  t1 = t1  t2 = t2
  Null = Null  NoRow = NoRow  NoEntry = NoEntry
  Tables = {t1, t2}
  TableRank <- TwoTables
  Keys <- MCKeys
  Vals <- MCVals
  Records <- MCRecords
  MaxSeq = 19
  MaxId = 798
  Accounts = t1
  Subscriptions = t1
  Invoices = t2
  Payments = t2
  TableOrder <- MCOrder
  Initial <- MCInitial
  Quota <- MCQuota
  EventId <- MCEventId
  LateKey = 1
  LateLag = 4
  LateVal = 0
  MaxBatches = 2
INVARIANTS
  TypeOK
  SourceInvariant
  ReplicaMatchesSource
  EveryChangeInOnePlace
