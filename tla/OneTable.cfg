SPECIFICATION Spec
CONSTANTS
  t1 = t1  t2 = t2  k1 = k1  k2 = k2  v0 = v0  v1 = v1  v2 = v2
  Null = Null  NoRow = NoRow  NoEntry = NoEntry
  Tables = {t1}
  TableRank <- OneTable
  Keys = {k1, k2}
  Vals = {v0, v1, v2}
  Records <- OneTableRecords
  MaxSeq = 4
  MaxId = 7
  Snapshot <- MCSnapshot
  BatchContents <- OneTableContents
  MaxBatches = 3
  MaxCrashes = 1
INVARIANTS
  TypeOK
  CurrentStateConverges
  LedgerExplainsRows
  MetricsMatchLedger
  RecoveryImpliesCrash
PROPERTIES
  SequenceNeverRegresses
