SPECIFICATION FairSpec
CONSTANTS
  t1 = t1  t2 = t2  k1 = k1  k2 = k2  v0 = v0  v1 = v1  v2 = v2
  Null = Null  NoRow = NoRow  NoEntry = NoEntry
  Tables = {t1, t2}
  TableRank <- TwoTables
  Keys = {k1}
  Vals = {v0, v1, v2}
  Records <- TwoTablesRecords
  MaxSeq = 4
  MaxId = 5
  Snapshot <- MCSnapshot
  BatchContents <- TwoTablesContents
  MaxBatches = 2
  MaxCrashes = 2
INVARIANTS
  CheckpointAfterEffects
  InductiveInvariant
  HighWaterMarkExact
  QuarantineOncePerAttempt
  AccountingInvariant
PROPERTIES
  EffectivelyOnceSpec
  EveryBatchCompletes
