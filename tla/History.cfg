SPECIFICATION Spec
CHECK_DEADLOCK FALSE
CONSTANTS
  t1 = t1  k1 = k1  a0 = a0  a1 = a1  a2 = a2  c1 = c1  c2 = c2
  Null = Null  NoRow = NoRow  NoEntry = NoEntry  Open = Open
  Tables = {t1}
  TableRank <- OneTable
  Keys = {k1}
  Amounts = {a0, a1, a2}
  Cycles = {c1, c2}
  Vals <- Payload
  Records <- Pool
  MaxSeq = 8
  MaxId = 9
  Base <- MCBase
INVARIANTS
  TimelineTruthful
  ValidatorExact
