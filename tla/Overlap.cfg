SPECIFICATION FairSpec
CONSTANTS
  t1 = t1  t2 = t2  k1 = k1  v1 = v1
  Null = Null  NoFile = NoFile
  Tables = {t1, t2}
  TableRank <- TwoTables
  Keys = {k1}
  Vals = {v1}
  Records <- MCRecords
  MaxSeq = 3
  MaxId = 5
  BatchContents <- MCContents
  LegacyFiles <- NoLegacyFiles
  Overlaps = {TRUE}
  MaxBatches = 2
  MaxCrashes = 0
PROPERTIES
  EveryBatchSettles
