SPECIFICATION Spec
CONSTANTS
  subs = subs  other = other  k1 = k1  k2 = k2  a0 = a0  a1 = a1  a2 = a2  c1 = c1
  Null = Null  NoRow = NoRow  NoEntry = NoEntry  Open = Open
  Tables = {subs, other}
  TableRank <- TablesRank
  Keys = {k1, k2}
  Amounts = {a0, a1, a2}
  Cycles = {c1}
  Vals <- Payload
  Records <- MCRecords
  MaxSeq = 5
  MaxId = 7
  Subscriptions = subs
  Baseline <- MCBaseline
  Repairs = {FALSE}
  BatchContents <- LaneContents
  MaxBatches = 3
  MaxFaults = 0
INVARIANTS
  StoreHoldsFirst
  LanesAgree
