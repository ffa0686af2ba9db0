SPECIFICATION Spec
CONSTANTS
  t1 = t1  t2 = t2  k1 = k1  v1 = v1
  Null = Null  NoFile = NoFile
  Tables = {t1, t2}
  TableRank <- TwoTables
  Keys = {k1}
  Vals = {v1}
  Records <- MCRecords
  MaxSeq = 3
  MaxId = 5
  BatchContents <- MCContents
  LegacyFiles <- MCLegacy
  Overlaps = {TRUE, FALSE}
  MaxBatches = 2
  MaxCrashes = 1
INVARIANTS
  TypeOK
  CompletedIsWitnessed
  LateFileExact
  LateInvariant
PROPERTIES
  CheckpointOnlyGrows
