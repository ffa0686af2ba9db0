-------------------------- MODULE DeltaApply_proofs --------------------------
(***************************************************************************)
(* Safety of the apply pipeline for every feed, every number of batches,   *)
(* tables and keys, and every placement of crashes.                        *)
(***************************************************************************)
EXTENDS DeltaApply, DeltaMerge_proofs, SequenceTheorems

\* Landing a batch leaves the ones before it alone.
LEMMA LandKeeps ==
  ASSUME TypeOK, Land
  PROVE  /\ cdc' \in Seq(BatchContents)
         /\ Len(cdc') = Len(cdc) + 1
         /\ Len(cdc') <= MaxBatches
         /\ \A b \in 1..Len(cdc) : cdc'[b] = cdc[b]
<1>1. PICK files \in BatchContents : cdc' = Append(cdc, files)
  BY DEF Land
<1>2. cdc \in Seq(BatchContents) /\ Len(cdc) \in Nat
  BY DEF TypeOK
<1>3. Len(cdc) < MaxBatches
  BY DEF Land
<1>4. QED
  BY <1>1, <1>2, <1>3, LimitsAssumption

\* The files of a landed batch hold records.
LEMMA FilesAreRecords ==
  ASSUME TypeOK, NEW b \in 1..Len(cdc), NEW t \in Tables
  PROVE  cdc[b][t] \subseteq Records
<1>1. cdc[b] \in BatchContents
  BY DEF TypeOK
<1>2. QED
  BY <1>1, BatchContentsAssumption DEF BatchFiles

\* What a batch delivers are typed events.
LEMMA DeliveredType ==
  ASSUME TypeOK, NEW b \in 1..Len(cdc), NEW t \in Tables
  PROVE  /\ Delivered(b, t) \subseteq Record
         /\ \A r \in Delivered(b, t) : r.id \in EventIds /\ r.key \in Keys
<1>1. cdc[b][t] \subseteq Records
  BY FilesAreRecords
<1>2. QED
  BY <1>1, ParsedType DEF Delivered, EventIds, Record

-----------------------------------------------------------------------------
(***************************************************************************)
(* Types.                                                                  *)
(***************************************************************************)
\* Nothing staged is a typed set of audit records.
LEMMA NoEntriesType == NoEntries \in Entries
  BY DEF NoEntries, Entries

\* Before anything lands the stores are typed and empty.
LEMMA InitTyped == Init => TypeOK /\ Scope
<1> SUFFICES ASSUME Init PROVE TypeOK /\ Scope
  OBVIOUS
<1>1. target \in [Tables -> Rows]
  BY DEF Init, Rows
<1>2. ledger \in Entries /\ staged \in Entries /\ metrics \in [Batches -> [Tables -> Entries]]
  BY NoEntriesType DEF Init
<1>3. cdc \in Seq(BatchContents) /\ Len(cdc) = 0
  BY DEF Init
<1>4. TypeOK
  BY <1>1, <1>2, <1>3, LimitsAssumption DEF Init, TypeOK, Steps, NoMarks
<1>5. Scope
  BY DEF Init, Scope, InBatch
<1>6. QED
  BY <1>4, <1>5

\* Every step keeps the variables typed and the process on landed batches
\* that are not completed.
LEMMA StepTyped == TypeOK /\ Scope /\ [Next]_vars => TypeOK' /\ Scope'
<1> SUFFICES ASSUME TypeOK, Scope, [Next]_vars PROVE TypeOK' /\ Scope'
  OBVIOUS
<1> USE LimitsAssumption
<1>a. Len(cdc) \in Nat
  BY DEF TypeOK
<1>1. CASE Land
  <2>1. 1..Len(cdc) \subseteq 1..Len(cdc')
    BY <1>1, <1>a, LandKeeps
  <2>2. TypeOK'
    BY <1>1, LandKeeps DEF TypeOK, Land, durable, volatile
  <2>3. Scope'
    BY <1>1, <2>1 DEF Scope, Land, durable, volatile, InBatch
  <2>4. QED
    BY <2>2, <2>3
<1>2. CASE StartRun
  BY <1>2 DEF StartRun, TypeOK, Scope, durable, Steps, InBatch
<1>3. CASE \E t \in Tables : InitializeTable(t)
  <2>1. PICK t \in Tables : InitializeTable(t)
    BY <1>3
  <2>2. target' \in [Tables -> Rows]
    BY <2>1, SnapshotAssumption DEF InitializeTable, TypeOK
  <2>3. QED
    BY <2>1, <2>2 DEF InitializeTable, TypeOK, Scope, volatile, Steps, InBatch
<1>4. CASE Discover
  <2>1. 1..Len(cdc) \subseteq Batches
    BY <1>a DEF TypeOK, Batches
  <2>2. QED
    BY <1>4, <2>1 DEF Discover, TypeOK, Scope, durable, Steps, InBatch
<1>5. CASE \E b \in Batches : BeginBatch(b)
  <2>1. PICK b \in Batches : BeginBatch(b)
    BY <1>5
  <2>2. TypeOK'
    BY <2>1, NoEntriesType DEF BeginBatch, TypeOK, durable, Steps, NoMarks, Batches
  <2>3. Scope'
    BY <2>1 DEF BeginBatch, Scope, durable, InBatch
  <2>4. QED
    BY <2>2, <2>3
<1>6. CASE \E t \in Tables : SkipTable(t)
  <2>1. PICK t \in Tables : SkipTable(t)
    BY <1>6
  <2>2. batch \in Batches
    BY <2>1, <1>a DEF SkipTable, Scope, InBatch, TypeOK, Batches
  <2>3. merged' \in [Tables -> SUBSET Batches]
    BY <2>1, <2>2 DEF SkipTable, TypeOK
  <2>4. stagedHwm' \in [Tables -> Nat]
    BY <2>1 DEF SkipTable, TypeOK
  <2>5. QED
    BY <2>1, <2>3, <2>4 DEF SkipTable, TypeOK, Scope, durable, Steps, InBatch
<1>7. CASE \E t \in Tables : ReadTable(t)
  <2>1. PICK t \in Tables : ReadTable(t)
    BY <1>7
  <2> DEFINE n == IF Rejected(cdc[batch][t]) = {} THEN quarantine[batch][t]
                                                  ELSE quarantine[batch][t] + 1
  <2>2. batch \in Batches
    BY <2>1, <1>a DEF ReadTable, Scope, InBatch, TypeOK, Batches
  <2>3. n \in Nat
    BY <2>2 DEF TypeOK
  <2>4. quarantine' = [quarantine EXCEPT ![batch][t] = n]
    BY <2>1, <2>2 DEF ReadTable, TypeOK
  <2>5. quarantine' \in [Batches -> [Tables -> Nat]]
    <3> HIDE DEF n
    <3>1. QED
      BY <2>3, <2>4 DEF TypeOK
  <2>6. QED
    BY <2>1, <2>5 DEF ReadTable, TypeOK, Scope, Steps, InBatch
<1>8. CASE \E t \in Tables : MergeTable(t)
  <2>1. PICK t \in Tables : MergeTable(t)
    BY <1>8
  <2> DEFINE events == Parsed(cdc[batch][t], t)
  <2>2. batch \in 1..Len(cdc) /\ batch \in Batches /\ batch \in Nat
    BY <2>1, <1>a DEF MergeTable, Scope, InBatch, TypeOK, Batches
  <2>3. events \subseteq Record
    BY <2>2, DeliveredType DEF Delivered
  <2>4. target' \in [Tables -> Rows]
    BY <2>1, <2>2, <2>3, MergeType DEF MergeTable, TypeOK
  <2>5. staged' \in Entries
    BY <2>1, <2>3, AuditType, UpsertKeeps DEF MergeTable, TypeOK
  <2>6. stagedHwm' \in [Tables -> Nat]
    <3>1. HighestSequence(cdc[batch][t]) \in Nat
      BY <2>2, FilesAreRecords, HighestSequenceType, BoundsAssumption
    <3>2. checkpoint.hwm[t] \in Nat
      BY DEF TypeOK
    <3>3. Max({checkpoint.hwm[t], HighestSequence(cdc[batch][t])}) \in Nat
      BY <3>1, <3>2, MaxOfTwo
    <3>4. QED
      BY <2>1, <3>3 DEF MergeTable, TypeOK
  <2>7. merged' \in [Tables -> SUBSET Batches]
    BY <2>1, <2>2 DEF MergeTable, TypeOK
  <2>8. QED
    BY <2>1, <2>4, <2>5, <2>6, <2>7 DEF MergeTable, TypeOK, Scope, Steps, InBatch
<1>9. CASE UpsertLedger
  <2>1. ledger' \in Entries
    BY <1>9, UpsertKeeps DEF UpsertLedger, TypeOK
  <2>2. QED
    BY <1>9, <2>1 DEF UpsertLedger, TypeOK, Scope, Steps, InBatch
<1>10. CASE \E t \in Tables : RecordMetrics(t)
  <2>1. PICK t \in Tables : RecordMetrics(t)
    BY <1>10
  <2> DEFINE row == [i \in EventIds |-> IF \E r \in Parsed(cdc[batch][t], t) : r.id = i
                                        THEN staged[i] ELSE NoEntry]
  <2>2. row \in Entries
    BY DEF TypeOK, Entries
  <2>3. metrics' = [metrics EXCEPT ![batch][t] = row]
    BY <2>1 DEF RecordMetrics
  <2>4. metrics' \in [Batches -> [Tables -> Entries]]
    BY <2>2, <2>3 DEF TypeOK
  <2>5. QED
    BY <2>1, <2>4 DEF RecordMetrics, TypeOK, Scope, Steps, InBatch
<1>11. CASE CommitBatch
  <2>1. batch \in 1..Len(cdc) /\ batch \in Batches /\ batch \notin todo
    BY <1>11, <1>a DEF CommitBatch, Scope, InBatch, TypeOK, Batches
  <2>2. checkpoint' \in [hwm : [Tables -> Nat], completed : SUBSET Batches]
    BY <1>11, <2>1 DEF CommitBatch, TypeOK
  <2>3. checkpoint'.completed \subseteq checkpoint.completed \cup {batch}
    BY <1>11 DEF CommitBatch
  <2>4. TypeOK'
    BY <1>11, <2>2 DEF CommitBatch, TypeOK, Steps
  <2>5. ready' = Tables /\ pc' \in {"idle", "reconcile"}
    BY <1>11 DEF CommitBatch, Scope
  <2>6. cdc' = cdc /\ todo' = todo
    BY <1>11 DEF CommitBatch
  <2>7. Scope'
    BY <2>1, <2>3, <2>5, <2>6 DEF Scope, InBatch
  <2>8. QED
    BY <2>4, <2>7
<1>12. CASE Reconcile
  BY <1>12, NoEntriesType DEF Reconcile, TypeOK, Scope, durable, Steps, InBatch, NoMarks
<1>13. CASE FinishRun
  BY <1>13 DEF FinishRun, TypeOK, Scope, durable, Steps, InBatch
<1>14. CASE Crash
  BY <1>14, NoEntriesType DEF Crash, TypeOK, Scope, durable, Steps, InBatch, NoMarks
<1>15. CASE UNCHANGED vars
  BY <1>15 DEF vars, durable, volatile, TypeOK, Scope, InBatch
<1>16. QED
  BY <1>1, <1>2, <1>3, <1>4, <1>5, <1>6, <1>7, <1>8, <1>9, <1>10, <1>11, <1>12, <1>13, <1>14,
     <1>15 DEF Next, Process, ProcessTable

\* The variables of the pipeline keep their types, and its process works only
\* on batches that have landed and are not in the checkpoint.
THEOREM TypeCorrect == Spec => [](TypeOK /\ Scope)
<1>1. QED
  BY InitTyped, StepTyped, PTL DEF Spec

-----------------------------------------------------------------------------
(***************************************************************************)
(* Order: batches complete without gaps and no table is merged ahead.      *)
(***************************************************************************)

\* Every table has been through the completed batches and through at most one
\* more, the first that is not completed.
LEMMA StepOrdered ==
  TypeOK /\ Scope /\ BatchOrder /\ MergeOrder /\ [Next]_vars => BatchOrder' /\ MergeOrder'
<1> SUFFICES ASSUME TypeOK, Scope, BatchOrder, MergeOrder, [Next]_vars
             PROVE  BatchOrder' /\ MergeOrder'
  OBVIOUS
<1>a. Len(cdc) \in Nat /\ merged \in [Tables -> SUBSET Batches] /\ Batches \subseteq Nat
  BY LimitsAssumption DEF TypeOK, Batches
<1>1. CASE Land
  <2>1. 1..Len(cdc) \subseteq 1..Len(cdc')
    BY <1>1, <1>a, LandKeeps
  <2>2. QED
    BY <1>1, <2>1 DEF Land, durable, volatile, BatchOrder, MergeOrder, InBatch
<1>2. CASE StartRun
  BY <1>2 DEF StartRun, durable, BatchOrder, MergeOrder, InBatch
<1>3. CASE \E t \in Tables : InitializeTable(t)
  BY <1>3 DEF InitializeTable, volatile, BatchOrder, MergeOrder, InBatch
<1>4. CASE Discover
  <2>1. \A b \in todo' : 1..b \subseteq 1..Len(cdc)
    BY <1>4, <1>a DEF Discover
  <2>2. BatchOrder'
    BY <1>4, <2>1 DEF Discover, durable, BatchOrder, InBatch
  <2>3. MergeOrder'
    BY <1>4 DEF Discover, durable, MergeOrder
  <2>4. QED
    BY <2>2, <2>3
<1>5. CASE \E b \in Batches : BeginBatch(b)
  <2>1. PICK b \in Batches : BeginBatch(b)
    BY <1>5
  <2>2. 1..(b - 1) \subseteq 1..b /\ \A c \in 1..(b - 1) : ~ (b <= c)
    BY <1>a
  <2>3. 1..b \subseteq checkpoint.completed \cup todo
    BY <2>1 DEF BeginBatch, BatchOrder
  <2>4. 1..(b - 1) \subseteq checkpoint.completed
    BY <2>1, <2>2, <2>3 DEF BeginBatch
  <2>5. BatchOrder'
    BY <2>1, <2>4 DEF BeginBatch, durable, BatchOrder, InBatch
  <2>6. MergeOrder'
    BY <2>1 DEF BeginBatch, durable, MergeOrder
  <2>7. QED
    BY <2>5, <2>6
<1>6. CASE \E t \in Tables : SkipTable(t) \/ MergeTable(t)
  <2>1. PICK t \in Tables : SkipTable(t) \/ MergeTable(t)
    BY <1>6
  <2>2. /\ pc \in {"read", "merge"} /\ pc' = "read"
        /\ batch' = batch /\ todo' = todo /\ checkpoint' = checkpoint
        /\ ready' = ready /\ cdc' = cdc
        /\ pending' = pending \ {t}
        /\ merged' = [merged EXCEPT ![t] = merged[t] \cup {batch}]
    BY <2>1, <1>a DEF SkipTable, MergeTable, durable
  <2>3. ready = Tables /\ batch \in 1..Len(cdc) /\ 1..(batch - 1) \subseteq checkpoint.completed
    BY <2>2 DEF Scope, BatchOrder, InBatch
  <2>4. \A u \in Tables : merged'[u] = IF u = t THEN merged[t] \cup {batch} ELSE merged[u]
    BY <2>2, <1>a
  <2>5. MergeOrder'
    BY <2>1, <2>2, <2>3, <2>4 DEF MergeOrder
  <2>6. BatchOrder'
    BY <2>2 DEF BatchOrder, InBatch
  <2>7. QED
    BY <2>5, <2>6
<1>7. CASE \E t \in Tables : ReadTable(t)
  BY <1>7 DEF ReadTable, BatchOrder, MergeOrder, InBatch
<1>8. CASE UpsertLedger
  BY <1>8 DEF UpsertLedger, BatchOrder, MergeOrder, InBatch
<1>9. CASE \E t \in Tables : RecordMetrics(t)
  BY <1>9 DEF RecordMetrics, BatchOrder, MergeOrder, InBatch
<1>10. CASE CommitBatch
  <2>1. /\ pc = "metrics" /\ pc' \in {"idle", "reconcile"}
        /\ cdc' = cdc /\ todo' = todo /\ merged' = merged /\ ready' = ready
    BY <1>10 DEF CommitBatch
  <2>2. batch \in 1..Len(cdc) /\ 1..(batch - 1) \subseteq checkpoint.completed
    BY <2>1 DEF Scope, BatchOrder, InBatch
  <2>3. 1..batch \subseteq checkpoint.completed \cup {batch}
    BY <2>2, <1>a
  <2>4. \/ checkpoint' = checkpoint /\ pc' = "idle"
        \/ checkpoint'.completed = checkpoint.completed \cup {batch}
    BY <1>10 DEF CommitBatch
  <2>5. BatchOrder'
    BY <2>1, <2>3, <2>4 DEF BatchOrder, InBatch
  <2>6. MergeOrder'
    BY <2>1, <2>4 DEF MergeOrder
  <2>7. QED
    BY <2>5, <2>6
<1>11. CASE Reconcile
  BY <1>11 DEF Reconcile, durable, BatchOrder, MergeOrder, InBatch
<1>12. CASE FinishRun
  BY <1>12 DEF FinishRun, durable, BatchOrder, MergeOrder, InBatch
<1>13. CASE Crash
  BY <1>13 DEF Crash, durable, BatchOrder, MergeOrder, InBatch
<1>14. CASE UNCHANGED vars
  BY <1>14 DEF vars, durable, volatile, BatchOrder, MergeOrder, InBatch
<1>15. QED
  BY <1>1, <1>2, <1>3, <1>4, <1>5, <1>6, <1>7, <1>8, <1>9, <1>10, <1>11, <1>12, <1>13, <1>14
     DEF Next, Process, ProcessTable

\* Typing and order together.
Ordered == TypeOK /\ Scope /\ BatchOrder /\ MergeOrder

\* Before anything lands nothing is merged or completed.
LEMMA InitOrdered == Init => Ordered
<1> SUFFICES ASSUME Init PROVE BatchOrder /\ MergeOrder
  BY InitTyped DEF Ordered
<1>1. QED
  BY DEF Init, BatchOrder, MergeOrder, InBatch

\* Whatever crashes, batches complete in their order and no table is merged
\* beyond the first batch that is not completed.
THEOREM InOrder == Spec => []Ordered
<1>1. Ordered /\ [Next]_vars => Ordered'
  BY StepTyped, StepOrdered DEF Ordered
<1>2. QED
  BY InitOrdered, <1>1, PTL DEF Spec

-----------------------------------------------------------------------------
(***************************************************************************)
(* Convergence: the rows are what the newest merged events say.            *)
(***************************************************************************)

\* A landed batch goes on delivering the same events.
LEMMA LandDelivers ==
  ASSUME TypeOK, Land, NEW b \in 1..Len(cdc), NEW t \in Tables
  PROVE  Delivered(b, t)' = Delivered(b, t)
  BY LandKeeps DEF Delivered

\* The row a MERGE writes reflects the event it applied.
LEMMA MergedRowReflects ==
  ASSUME NEW row, NEW r, NEW b
  PROVE  MergedRow(row, r, b).batch = b /\ Reflects(MergedRow(row, r, b), r)
  BY DEF MergedRow, Reflects

\* The MERGE of the first batch that is not completed keeps the rows converged:
\* a row stays unless the batch has a newer event for its key.
LEMMA MergeConverges ==
  ASSUME Ordered, CurrentStateConverges, NEW t \in Tables, MergeTable(t)
  PROVE  CurrentStateConverges'
<1> DEFINE events == Parsed(cdc[batch][t], t)
<1>1. /\ cdc' = cdc /\ ready' = ready /\ ready = Tables
      /\ batch \in 1..Len(cdc) /\ batch \in Nat /\ Len(cdc) \in Nat
      /\ target \in [Tables -> Rows] /\ merged \in [Tables -> SUBSET Batches]
  BY DEF MergeTable, Ordered, Scope, InBatch, TypeOK
<1>2. /\ target' = [target EXCEPT ![t] = Merge(target[t], events, batch)]
      /\ merged' = [merged EXCEPT ![t] = merged[t] \cup {batch}]
  BY <1>1 DEF MergeTable
<1>3. events = Delivered(batch, t) /\ events \subseteq Record
  BY <1>1, DeliveredType DEF Delivered, Ordered
<1>4. \A u \in Tables : \A b : Delivered(b, u)' = Delivered(b, u)
  BY <1>1 DEF Delivered
<1>5. ASSUME NEW u \in Tables, u # t
      PROVE  target'[u] = target[u] /\ merged'[u] = merged[u]
  BY <1>1, <1>2, <1>5
<1>6. target'[t] = Merge(target[t], events, batch) /\ merged'[t] = merged[t] \cup {batch}
  BY <1>1, <1>2
<1>7. target[t] \in Rows
  BY <1>1
<1> SUFFICES ASSUME NEW u \in Tables, NEW k \in Keys
             PROVE  LET row == target'[u][k]
                    IN /\ \A b \in merged'[u] : \A r \in Delivered(b, u) :
                            r.key = k => row # NoRow /\ r.seq <= row.seq
                       /\ Snapshot[u][k] # NoRow => row # NoRow /\ Snapshot[u][k].seq <= row.seq
                       /\ row # NoRow =>
                            \/ row = Snapshot[u][k]
                            \/ \E b \in merged'[u] :
                                 /\ row.batch = b
                                 /\ \E r \in Delivered(b, u) : r.key = k /\ Reflects(row, r)
  BY <1>1, <1>4 DEF CurrentStateConverges
<1>8. CASE u # t
  BY <1>1, <1>5, <1>8 DEF CurrentStateConverges
<1>9. CASE u = t
  <2> DEFINE old == target[t][k]
             new == Merge(target[t], events, batch)[k]
  <2>1. target'[u][k] = new /\ merged'[u] = merged[t] \cup {batch}
    BY <1>6, <1>9
  <2>2. old \in Row \cup {NoRow} /\ new \in Row \cup {NoRow}
    <3>1. Merge(target[t], events, batch) \in Rows
      BY <1>1, <1>3, <1>7, MergeType
    <3>2. QED
      BY <3>1, <1>7 DEF Rows
  <2>3. old # NoRow => new # NoRow /\ (new = old \/ new.seq > old.seq)
    BY <1>1, <1>3, <1>7, MergeAdvances
  <2>4. \A r \in events : r.key = k => new # NoRow /\ r.seq <= new.seq
    BY <1>1, <1>3, <1>7, MergeCovers
  <2>5. \/ new = old
        \/ \E w \in events : /\ w.key = k
                             /\ new.batch = batch /\ Reflects(new, w)
    BY MergeAt, MergedRowReflects DEF Applied, Winners
  <2>6. Snapshot[t][k] \in Row \cup {NoRow}
    BY SnapshotAssumption DEF Rows
  <2>7. /\ \A r \in Row : r.seq \in Int
        /\ NoRow \notin Row
    BY NoRowAssumption DEF Row
  <2>8. ASSUME NEW b \in merged[t] \cup {batch}, NEW r \in Delivered(b, t), r.key = k
        PROVE  new # NoRow /\ r.seq <= new.seq
    <3>1. CASE b = batch
      BY <3>1, <2>4, <2>8, <1>3
    <3>2. CASE b \in merged[t]
      <4>1. old # NoRow /\ r.seq <= old.seq
        BY <3>2, <2>8, <1>1 DEF CurrentStateConverges
      <4>2. b \in 1..Len(cdc)
        BY <3>2 DEF Ordered, MergeOrder
      <4>3. r.seq \in Int
        BY <4>2, DeliveredType DEF Ordered, Record
      <4>4. QED
        BY <4>1, <4>3, <2>2, <2>3, <2>7
    <3>3. QED
      BY <3>1, <3>2
  <2>9. Snapshot[t][k] # NoRow => new # NoRow /\ Snapshot[t][k].seq <= new.seq
    <3>1. Snapshot[t][k] # NoRow => old # NoRow /\ Snapshot[t][k].seq <= old.seq
      BY <1>1 DEF CurrentStateConverges
    <3>2. QED
      BY <3>1, <2>2, <2>3, <2>6, <2>7
  <2>10. ASSUME new # NoRow
         PROVE  \/ new = Snapshot[t][k]
                \/ \E b \in merged[t] \cup {batch} :
                     /\ new.batch = b
                     /\ \E r \in Delivered(b, t) : r.key = k /\ Reflects(new, r)
    <3>1. CASE new = old
      BY <3>1, <2>10, <1>1 DEF CurrentStateConverges
    <3>2. CASE new # old
      BY <3>2, <2>5, <1>3
    <3>3. QED
      BY <3>1, <3>2
  <2> HIDE DEF new
  <2>11. QED
    BY <1>9, <2>1, <2>8, <2>9, <2>10
<1>10. QED
  BY <1>8, <1>9

\* No other step writes rows, except the initialisation of a table that has
\* merged nothing.
LEMMA StepConverges == Ordered /\ CurrentStateConverges /\ [Next]_vars => CurrentStateConverges'
<1> SUFFICES ASSUME Ordered, CurrentStateConverges, [Next]_vars PROVE CurrentStateConverges'
  OBVIOUS
<1>a. /\ \A t \in Tables : merged[t] \subseteq 1..Len(cdc)
      /\ ready \subseteq Tables
      /\ target \in [Tables -> Rows] /\ merged \in [Tables -> SUBSET Batches]
  BY DEF Ordered, TypeOK, MergeOrder
<1>1. CASE Land
  <2>1. /\ ready' = ready /\ target' = target /\ merged' = merged
    BY <1>1 DEF Land, durable
  <2>2. \A t \in ready : \A b \in merged[t] : Delivered(b, t)' = Delivered(b, t)
    BY <1>1, <1>a, LandDelivers DEF Ordered
  <2>3. QED
    BY <2>1, <2>2 DEF CurrentStateConverges
<1>2. CASE \E t \in Tables : InitializeTable(t)
  <2>1. PICK t \in Tables : InitializeTable(t)
    BY <1>2
  <2>2. /\ ready' = ready \cup {t} /\ t \notin ready
        /\ cdc' = cdc /\ merged' = merged
        /\ target'[t] = Snapshot[t]
        /\ \A u \in ready : target'[u] = target[u]
    BY <2>1, <1>a DEF InitializeTable, IsFirst
  <2>3. \A u \in ready' : \A b : Delivered(b, u)' = Delivered(b, u)
    BY <2>2 DEF Delivered
  <2>4. merged[t] = {}
    BY <2>2 DEF Ordered, MergeOrder
  <2>5. \A k \in Keys : Snapshot[t][k] # NoRow => Snapshot[t][k].seq <= Snapshot[t][k].seq
    BY SnapshotAssumption DEF Rows, Row
  <2>6. QED
    BY <2>2, <2>3, <2>4, <2>5 DEF CurrentStateConverges
<1>3. CASE \E t \in Tables : SkipTable(t)
  <2>1. PICK t \in Tables : SkipTable(t)
    BY <1>3
  <2>2. /\ ready' = ready /\ cdc' = cdc /\ target' = target
        /\ \A u \in Tables : merged'[u] = IF u = t THEN merged[t] \cup {batch} ELSE merged[u]
    BY <2>1, <1>a DEF SkipTable, durable
  <2>3. \A b, u : Delivered(b, u)' = Delivered(b, u)
    BY <2>2 DEF Delivered
  <2>4. Delivered(batch, t) = {}
    BY <2>1 DEF SkipTable, Delivered, Parsed, Deduplicated, Accepted
  <2>5. QED
    BY <1>a, <2>2, <2>3, <2>4 DEF CurrentStateConverges
<1>4. CASE \E t \in Tables : MergeTable(t)
  BY <1>4, MergeConverges
<1>5. CASE UNCHANGED <<cdc, ready, target, merged>>
  BY <1>5 DEF CurrentStateConverges, Delivered
<1>6. \/ \E t \in Tables : ReadTable(t) \/ RecordMetrics(t)
      \/ StartRun \/ Discover \/ (\E b \in Batches : BeginBatch(b)) \/ UpsertLedger
      \/ CommitBatch \/ Reconcile \/ FinishRun \/ Crash \/ UNCHANGED vars
      => UNCHANGED <<cdc, ready, target, merged>>
  BY DEF ReadTable, RecordMetrics, StartRun, Discover, BeginBatch, UpsertLedger, CommitBatch,
         Reconcile, FinishRun, Crash, vars, durable
<1>7. QED
  BY <1>1, <1>2, <1>3, <1>4, <1>5, <1>6 DEF Next, Process, ProcessTable

\* The current state converges: in every reachable state a row is the effect
\* of an event of the highest sequence its table has merged, however events
\* were spread over batches, repeated or retried (classify_events_and_apply_merge
\* under run_apply_pipeline's crashes and reruns).
THEOREM Converges == Spec => []CurrentStateConverges
<1>1. Init => CurrentStateConverges
  BY DEF Init, CurrentStateConverges
<1>2. Ordered /\ Ordered' /\ CurrentStateConverges /\ [Next]_vars => CurrentStateConverges'
  BY StepConverges
<1>3. QED
  BY InOrder, <1>1, <1>2, PTL DEF Spec

-----------------------------------------------------------------------------
(***************************************************************************)
(* Effects before the checkpoint.                                          *)
(***************************************************************************)

\* A missing or empty file owes nothing to any store.
LEMMA EmptyFileOwesNothing ==
  ASSUME NEW b, NEW t, cdc[b][t] = {}
  PROVE  Delivered(b, t) = {} /\ Rejected(cdc[b][t]) = {}
  BY DEF Delivered, Parsed, Deduplicated, Accepted, Rejected

\* Entries that are only added to go on covering what they covered.
LEMMA HasEntriesGrows ==
  ASSUME TypeOK, NEW b \in 1..Len(cdc), NEW t \in Tables, NEW old, NEW new,
         HasEntries(old, b, t), \A i \in EventIds : old[i] # NoEntry => new[i] # NoEntry
  PROVE  HasEntries(new, b, t)
  BY DeliveredType DEF HasEntries

\* The MERGE of a table stages an audit record for each of its events and
\* overwrites none of another table with nothing.
LEMMA MergeKeepsEffects ==
  ASSUME Ordered, EffectsOrder, NEW t \in Tables, MergeTable(t)
  PROVE  EffectsOrder'
<1> DEFINE events == Parsed(cdc[batch][t], t)
           audit == Audit(target[t], ledger, events)
<1>1. /\ cdc' = cdc /\ ledger' = ledger /\ metrics' = metrics /\ batch' = batch
      /\ quarantine' = quarantine /\ checkpoint' = checkpoint
      /\ pc = "merge" /\ pc' = "read" /\ pending' = pending \ {t} /\ IsFirst(t, pending)
      /\ staged' = Upsert(staged, audit)
  BY DEF MergeTable
<1>2. batch \in 1..Len(cdc) /\ staged \in Entries /\ TypeOK
  BY <1>1 DEF Ordered, Scope, InBatch, TypeOK
<1>3. events = Delivered(batch, t) /\ events \subseteq Record
  BY <1>2, DeliveredType DEF Delivered
<1>4. audit \in Entries
  BY <1>3, AuditType
<1>5. \A i \in EventIds : staged[i] # NoEntry \/ audit[i] # NoEntry => staged'[i] # NoEntry
  BY <1>1, <1>2, <1>4, UpsertKeeps
<1>6. \A r \in Delivered(batch, t) : audit[r.id] # NoEntry
  BY <1>2, <1>3, AuditAt, DeliveredType, NoEntryAssumption
<1>7. HasEntries(staged', batch, t) /\ Quarantined(batch, t)
  BY <1>1, <1>2, <1>5, <1>6, DeliveredType DEF HasEntries, EffectsOrder
<1>8. \A u \in Tables \ pending : HasEntries(staged', batch, u) /\ Quarantined(batch, u)
  BY <1>1, <1>2, <1>5, HasEntriesGrows DEF EffectsOrder
<1>9. \A u \in Tables \ pending' : HasEntries(staged', batch, u) /\ Quarantined(batch, u)
  BY <1>1, <1>7, <1>8
<1>10. QED
  BY <1>1, <1>9 DEF EffectsOrder, HasEntries, Delivered, Quarantined

\* Ledger, metrics and checkpoint are written in an order in which each finds
\* what the ones before it owe the batch.
LEMMA StepEffects == Ordered /\ EffectsOrder /\ [Next]_vars => EffectsOrder'
<1> SUFFICES ASSUME Ordered, EffectsOrder, [Next]_vars PROVE EffectsOrder'
  OBVIOUS
<1>a. /\ TypeOK /\ checkpoint.completed \subseteq 1..Len(cdc)
      /\ InBatch => batch \in (1..Len(cdc)) \ checkpoint.completed
      /\ ledger \in Entries /\ staged \in Entries
      /\ metrics \in [Batches -> [Tables -> Entries]]
      /\ quarantine \in [Batches -> [Tables -> Nat]]
      /\ 1..Len(cdc) \subseteq Batches
  BY LimitsAssumption DEF Ordered, TypeOK, Scope, Batches
<1>1. CASE Land
  <2>1. /\ UNCHANGED <<ledger, metrics, quarantine, checkpoint, pc, batch, pending, staged>>
    BY <1>1 DEF Land, durable, volatile
  <2>2. \A b \in 1..Len(cdc), t \in Tables :
          Delivered(b, t)' = Delivered(b, t) /\ cdc'[b] = cdc[b]
    BY <1>1, <1>a, LandDelivers, LandKeeps
  <2>3. \A b \in 1..Len(cdc), t \in Tables :
          /\ HasEntries(ledger, b, t) => HasEntries(ledger, b, t)'
          /\ HasEntries(staged, b, t) => HasEntries(staged, b, t)'
          /\ HasEntries(metrics[b][t], b, t) => HasEntries(metrics[b][t], b, t)'
          /\ Quarantined(b, t) => Quarantined(b, t)'
    BY <2>1, <2>2 DEF HasEntries, Quarantined
  <2>4. QED
    BY <1>a, <2>1, <2>3 DEF EffectsOrder, InBatch
<1>2. CASE \E b \in Batches : BeginBatch(b)
  BY <1>2 DEF BeginBatch, durable, EffectsOrder, HasEntries, Quarantined, Delivered
<1>3. CASE \E t \in Tables : SkipTable(t)
  <2>1. PICK t \in Tables : SkipTable(t)
    BY <1>3
  <2>2. HasEntries(staged, batch, t) /\ Quarantined(batch, t)
    BY <2>1, EmptyFileOwesNothing DEF SkipTable, HasEntries, Quarantined
  <2>3. QED
    BY <2>1, <2>2 DEF SkipTable, durable, EffectsOrder, HasEntries, Quarantined, Delivered
<1>4. CASE \E t \in Tables : ReadTable(t)
  <2>1. PICK t \in Tables : ReadTable(t)
    BY <1>4
  <2>2. /\ pc = "read" /\ pc' = "merge" /\ IsFirst(t, pending)
        /\ UNCHANGED <<cdc, ledger, metrics, checkpoint, batch, pending, staged>>
        /\ batch \in Batches
    BY <2>1, <1>a DEF ReadTable, InBatch
  <2>3. \A b \in Batches, u \in Tables :
          /\ quarantine'[b][u] \in Nat
          /\ quarantine'[b][u] >= quarantine[b][u]
          /\ b = batch /\ u = t /\ Rejected(cdc[b][u]) # {} => quarantine'[b][u] > 0
    BY <2>1, <2>2, <1>a DEF ReadTable
  <2>4. \A u \in Tables : IsFirst(u, pending) => u = t
    BY <2>2, TablesAssumption DEF IsFirst
  <2>5. \A b \in 1..Len(cdc), u \in Tables : Quarantined(b, u) => Quarantined(b, u)'
    BY <2>2, <2>3, <1>a DEF Quarantined
  <2>6. Quarantined(batch, t)'
    BY <2>2, <2>3 DEF Quarantined
  <2>7. QED
    BY <1>a, <2>2, <2>4, <2>5, <2>6 DEF EffectsOrder, HasEntries, Delivered, InBatch, Quarantined
<1>5. CASE \E t \in Tables : MergeTable(t)
  BY <1>5, MergeKeepsEffects
<1>6. CASE UpsertLedger
  <2>1. /\ pc = "read" /\ pc' = "metrics" /\ pending = {}
        /\ pending' = {t \in Tables : cdc[batch][t] # {}}
        /\ UNCHANGED <<cdc, metrics, quarantine, checkpoint, batch, staged>>
        /\ batch \in 1..Len(cdc)
    BY <1>6, <1>a DEF UpsertLedger, InBatch
  <2>2. \A i \in EventIds : ledger[i] # NoEntry \/ staged[i] # NoEntry => ledger'[i] # NoEntry
    BY <1>6, <1>a, UpsertKeeps DEF UpsertLedger
  <2>3. \A b \in checkpoint.completed, t \in Tables : HasEntries(ledger', b, t)
    BY <1>a, <2>2, HasEntriesGrows DEF EffectsOrder
  <2>4. \A t \in Tables : /\ HasEntries(staged, batch, t) /\ HasEntries(ledger', batch, t)
                          /\ Quarantined(batch, t)
    BY <1>a, <2>1, <2>2, HasEntriesGrows DEF EffectsOrder
  <2>5. \A t \in Tables : t \notin pending' => HasEntries(metrics[batch][t], batch, t)
    BY <2>1, EmptyFileOwesNothing DEF HasEntries
  <2>6. QED
    BY <2>1, <2>3, <2>4, <2>5 DEF EffectsOrder, HasEntries, Delivered, Quarantined
<1>7. CASE \E t \in Tables : RecordMetrics(t)
  <2>1. PICK t \in Tables : RecordMetrics(t)
    BY <1>7
  <2> DEFINE row == [i \in EventIds |-> IF \E r \in Parsed(cdc[batch][t], t) : r.id = i
                                        THEN staged[i] ELSE NoEntry]
  <2>2. /\ pc = "metrics" /\ pc' = "metrics" /\ pending' = pending \ {t}
        /\ UNCHANGED <<cdc, ledger, quarantine, checkpoint, batch, staged>>
        /\ batch \in (1..Len(cdc)) \ checkpoint.completed /\ batch \in Batches
    BY <2>1, <1>a DEF RecordMetrics, InBatch
  <2>3. metrics' = [metrics EXCEPT ![batch][t] = row]
    BY <2>1 DEF RecordMetrics
  <2>4. HasEntries(staged, batch, t) => HasEntries(row, batch, t)
    BY <1>a, <2>2, DeliveredType DEF HasEntries, Delivered
  <2>5. \A b \in Batches, u \in Tables :
          metrics'[b][u] = IF b = batch /\ u = t THEN row ELSE metrics[b][u]
    <3> HIDE DEF row
    <3>1. QED
      BY <1>a, <2>2, <2>3
  <2>6. \A b \in checkpoint.completed, u \in Tables : metrics'[b][u] = metrics[b][u]
    BY <1>a, <2>2, <2>5
  <2>7. \A u \in Tables \ pending' : HasEntries(metrics'[batch][u], batch, u)
    BY <2>2, <2>4, <2>5 DEF EffectsOrder
  <2>8. \A b, u : /\ HasEntries(ledger, b, u)' = HasEntries(ledger, b, u)
                  /\ HasEntries(staged, b, u)' = HasEntries(staged, b, u)
                  /\ Quarantined(b, u)' = Quarantined(b, u)
    BY <2>2 DEF HasEntries, Delivered, Quarantined
  <2>9. \A b \in checkpoint.completed, u \in Tables : HasEntries(metrics[b][u], b, u)'
    BY <2>2, <2>6 DEF EffectsOrder, HasEntries, Delivered
  <2>10. \A u \in Tables \ pending' : HasEntries(metrics[batch][u], batch, u)'
    BY <2>2, <2>7 DEF HasEntries, Delivered
  <2>11. QED
    BY <2>2, <2>8, <2>9, <2>10 DEF EffectsOrder
<1>8. CASE CommitBatch
  <2>1. /\ pc = "metrics" /\ pending = {} /\ pc' \in {"idle", "reconcile"}
        /\ UNCHANGED <<cdc, ledger, metrics, quarantine>>
        /\ checkpoint'.completed \subseteq checkpoint.completed \cup {batch}
    BY <1>8 DEF CommitBatch
  <2>2. QED
    BY <2>1 DEF EffectsOrder, HasEntries, Delivered, Quarantined
<1>9. CASE /\ UNCHANGED <<cdc, ledger, metrics, quarantine, checkpoint>>
           /\ pc' \in {"idle", "init", "next"}
  BY <1>9 DEF EffectsOrder, HasEntries, Delivered, Quarantined
<1>10. CASE UNCHANGED vars
  BY <1>10 DEF vars, durable, volatile, EffectsOrder, HasEntries, Delivered, Quarantined
<1>11. (\E t \in Tables : InitializeTable(t)) \/ StartRun \/ Discover \/ Reconcile \/ FinishRun
         \/ Crash
       => /\ UNCHANGED <<cdc, ledger, metrics, quarantine, checkpoint>>
          /\ pc' \in {"idle", "init", "next"}
  BY DEF InitializeTable, StartRun, Discover, Reconcile, FinishRun, Crash, durable, volatile
<1>12. QED
  BY <1>1, <1>2, <1>3, <1>4, <1>5, <1>6, <1>7, <1>8, <1>9, <1>10, <1>11
     DEF Next, Process, ProcessTable

\* The parts of the invariant hold together.
THEOREM Invariant == Spec => []InductiveInvariant
<1>1. Init => EffectsOrder
  BY DEF Init, EffectsOrder
<1>2. Ordered /\ EffectsOrder /\ [Next]_vars => EffectsOrder'
  BY StepEffects
<1>3. Spec => []EffectsOrder
  BY InOrder, <1>1, <1>2, PTL DEF Spec
<1>4. Ordered /\ EffectsOrder /\ CurrentStateConverges => InductiveInvariant
  BY DEF Ordered, InductiveInvariant
<1>5. QED
  BY <1>3, <1>4, InOrder, Converges, PTL

\* commit_batch runs last: whatever crashed on the way, every event of a batch
\* in the checkpoint is merged, audited and counted, its rejects quarantined.
THEOREM EffectsFirst == Spec => []CheckpointAfterEffects
<1> SUFFICES InductiveInvariant => CheckpointAfterEffects
  BY Invariant, PTL
<1> SUFFICES ASSUME InductiveInvariant, NEW b \in checkpoint.completed, NEW t \in Tables
             PROVE  /\ \A r \in Delivered(b, t) :
                         /\ target[t][r.key] # NoRow /\ target[t][r.key].seq >= r.seq
                         /\ ledger[r.id] # NoEntry
                         /\ metrics[b][t][r.id] # NoEntry
                    /\ Rejected(cdc[b][t]) # {} => quarantine[b][t] > 0
  BY DEF CheckpointAfterEffects
<1>1. b \in merged[t] /\ b \in 1..Len(cdc) /\ t \in ready
  BY DEF InductiveInvariant, MergeOrder, Scope
<1>2. \A r \in Delivered(b, t) : ledger[r.id] # NoEntry /\ metrics[b][t][r.id] # NoEntry
  BY DEF InductiveInvariant, EffectsOrder, HasEntries
<1>3. Quarantined(b, t)
  BY DEF InductiveInvariant, EffectsOrder
<1>4. ASSUME NEW r \in Delivered(b, t)
      PROVE  target[t][r.key] # NoRow /\ target[t][r.key].seq >= r.seq
  <2>1. r \in Record /\ r.key \in Keys
    BY <1>1, DeliveredType DEF InductiveInvariant
  <2>2. target[t][r.key] # NoRow /\ r.seq <= target[t][r.key].seq
    BY <1>1, <2>1 DEF InductiveInvariant, CurrentStateConverges
  <2>3. target[t][r.key] \in Row
    BY <2>1, <2>2 DEF InductiveInvariant, TypeOK, Rows
  <2>4. QED
    BY <2>1, <2>2, <2>3 DEF Record, Row
<1>5. QED
  BY <1>2, <1>3, <1>4 DEF Quarantined

\* A row is never lost and gives way only to an event of a higher sequence:
\* the guard candidate_source_sequence > target.source_sequence of the MERGE,
\* and a Delta table that exists is not initialised again.
THEOREM NeverRegresses == Spec => SequenceNeverRegresses
<1>1. ASSUME Ordered, [Next]_vars, NEW t \in ready, NEW k \in Keys, target[t][k] # NoRow
      PROVE  /\ target'[t][k] # NoRow
             /\ target'[t][k] = target[t][k] \/ target'[t][k].seq > target[t][k].seq
  <2>1. ready \subseteq Tables /\ t \in Tables /\ target \in [Tables -> Rows] /\ TypeOK
    BY <1>1 DEF Ordered, TypeOK
  <2>2. CASE \E u \in Tables : InitializeTable(u)
    BY <1>1, <2>1, <2>2 DEF InitializeTable, IsFirst
  <2>3. CASE \E u \in Tables : MergeTable(u)
    <3>1. PICK u \in Tables : MergeTable(u)
      BY <2>3
    <3> DEFINE events == Parsed(cdc[batch][u], u)
    <3>2. target' = [target EXCEPT ![u] = Merge(target[u], events, batch)]
      BY <3>1 DEF MergeTable
    <3>3. batch \in 1..Len(cdc) /\ batch \in Nat
      BY <1>1, <3>1 DEF Ordered, TypeOK, Scope, InBatch, MergeTable
    <3>4. events \subseteq Record
      BY <2>1, <3>3, DeliveredType DEF Delivered
    <3>5. target[u] \in Rows
      BY <2>1
    <3>6. target[u][k] # NoRow =>
            LET new == Merge(target[u], events, batch)[k]
            IN  new # NoRow /\ (new = target[u][k] \/ new.seq > target[u][k].seq)
      BY <3>3, <3>4, <3>5, MergeAdvances
    <3> HIDE DEF events
    <3>7. CASE u = t
      BY <1>1, <2>1, <3>2, <3>6, <3>7
    <3>8. CASE u # t
      BY <1>1, <2>1, <3>2, <3>8
    <3>9. QED
      BY <3>7, <3>8
  <2>4. CASE target' = target
    BY <1>1, <2>4
  <2>5. \/ Land \/ StartRun \/ Discover \/ (\E b \in Batches : BeginBatch(b))
        \/ (\E u \in Tables : SkipTable(u) \/ ReadTable(u) \/ RecordMetrics(u))
        \/ UpsertLedger \/ CommitBatch \/ Reconcile \/ FinishRun \/ Crash \/ UNCHANGED vars
        => target' = target
    BY DEF Land, StartRun, Discover, BeginBatch, SkipTable, ReadTable, RecordMetrics,
           UpsertLedger, CommitBatch, Reconcile, FinishRun, Crash, vars, durable
  <2>6. QED
    BY <1>1, <2>2, <2>3, <2>4, <2>5 DEF Next, Process, ProcessTable
<1>2. Ordered /\ [Next]_vars =>
        [\A t \in ready, k \in Keys : target[t][k] # NoRow =>
           /\ target'[t][k] # NoRow
           /\ target'[t][k] = target[t][k] \/ target'[t][k].seq > target[t][k].seq]_vars
  BY <1>1
<1>3. QED
  BY InOrder, <1>2, PTL DEF Spec, SequenceNeverRegresses

-----------------------------------------------------------------------------
(***************************************************************************)
(* The apply pipeline implements its abstract specification: crashes,      *)
(* retries, redeliveries and the order of the stores do not show in the    *)
(* current-state tables.                                                   *)
(***************************************************************************)
\* Among the events a file has for a table, a valid event that deduplication
\* drops leaves a copy of the same key and sequence.
LEMMA CopyIsParsed ==
  ASSUME NEW file, file \subseteq Records, NEW t,
         NEW r \in Accepted(file), r.table = t
  PROVE  \E s \in Parsed(file, t) : s.key = r.key /\ s.seq = r.seq
<1>1. PICK s \in Deduplicated(file) : s.id = r.id
  BY DeduplicationKeepsOne
<1>2. r \in Records /\ r.ok /\ s \in Records /\ s.ok
  BY DEF Deduplicated, Accepted
<1>3. <<r.table, r.key, r.seq, r.op>> = <<s.table, s.key, s.seq, s.op>>
  BY <1>1, <1>2, IdentityAssumption
<1>4. r.table = s.table /\ r.key = s.key /\ r.seq = s.seq
  BY <1>3
<1>5. QED
  BY <1>4 DEF Parsed

\* The valid events a file has for a key of a table.
ValidFor(file, t, k) == {r \in Accepted(file) : r.table = t /\ r.key = k}

\* MERGE gives every key one of the newest valid events the file has for it,
\* if that is newer than the row, and leaves the other rows.
LEMMA MergeIsLatestWins ==
  ASSUME NEW file, file \subseteq Records, NEW t, NEW rows \in Rows, NEW b \in Nat,
         NEW k \in Keys
  PROVE  Once!LatestWins(rows[k], Merge(rows, Parsed(file, t), b)[k],
                         ValidFor(file, t, k), b)
<1> DEFINE old == rows[k]
           events == Parsed(file, t)
           valid == ValidFor(file, t, k)
           newer == {r \in valid : old = NoRow \/ r.seq > old.seq}
<1>1. /\ old \in Row \cup {NoRow}
      /\ events \subseteq Record
      /\ \A r \in valid : r \in Record
  BY ParsedType, RecordsAssumption DEF Rows, Accepted, ValidFor
<1>2. ASSUME NEW r \in valid PROVE \E s \in events : s.key = k /\ s.seq = r.seq
  BY <1>2, CopyIsParsed DEF ValidFor
<1>3. events \subseteq Accepted(file) /\ \A r \in events : r.table = t
  BY DEF Parsed, Deduplicated
<1>4. CASE Applied(rows, events, k) = {}
  <2>1. Merge(rows, events, b)[k] = old
    BY <1>4, MergeAt
  <2>2. ASSUME NEW r \in newer PROVE FALSE
    <3>1. PICK s \in events : s.key = k /\ s.seq = r.seq
      BY <1>2
    <3>2. PICK w \in Winners(events) : w.key = k /\ w.seq >= s.seq
      BY <1>1, <3>1, WinnerExists
    <3>3. w \in Record /\ s \in Record
      BY <1>1 DEF Winners
    <3>4. Newer(w, old)
      BY <1>1, <3>1, <3>2, <3>3, BoundsAssumption DEF Newer, Record, Row
    <3>5. QED
      BY <1>4, <3>2, <3>4 DEF Applied
  <2>3. QED
    BY <2>1, <2>2 DEF Once!LatestWins
<1>5. CASE Applied(rows, events, k) # {}
  <2>1. PICK w \in Applied(rows, events, k) : Merge(rows, events, b)[k] = MergedRow(old, w, b)
    BY <1>5, MergeAt
  <2>2. w \in events /\ w \in Winners(events) /\ w.key = k /\ Newer(w, old)
    BY DEF Applied, Winners
  <2>3. w \in newer
    BY <1>3, <2>2 DEF Newer, ValidFor
  <2>4. ASSUME NEW s \in newer PROVE s.seq <= w.seq
    <3>1. PICK c \in events : c.key = k /\ c.seq = s.seq
      BY <1>2
    <3>2. Outranks(w, c)
      BY <2>2, <3>1 DEF Winners
    <3>3. QED
      BY <1>1, <2>2, <3>1, <3>2, BoundsAssumption DEF Outranks, Record
  <2>5. MergedRow(old, w, b) = Once!Written(old, w, b)
    BY DEF MergedRow, Once!Written
  <2>6. QED
    BY <2>1, <2>3, <2>4, <2>5 DEF Once!LatestWins
<1>6. QED
  BY <1>4, <1>5

\* The MERGE of a table is the abstract application of its batch, the first
\* time; after a crash it changes nothing.
LEMMA MergeApplies ==
  ASSUME Ordered, CurrentStateConverges, NEW t \in Tables, MergeTable(t)
  PROVE  [Once!Next]_(Once!onceVars)
<1> DEFINE events == Parsed(cdc[batch][t], t)
<1>1. /\ cdc' = cdc /\ ready' = ready /\ ready = Tables
      /\ batch \in 1..Len(cdc) /\ batch \in Nat
      /\ target \in [Tables -> Rows] /\ merged \in [Tables -> SUBSET Batches]
      /\ TypeOK
  BY DEF MergeTable, Ordered, Scope, InBatch, TypeOK
<1>2. /\ target' = [target EXCEPT ![t] = Merge(target[t], events, batch)]
      /\ merged' = [merged EXCEPT ![t] = @ \cup {batch}]
  BY DEF MergeTable
<1>3. cdc[batch][t] \subseteq Records /\ target[t] \in Rows
  BY <1>1, FilesAreRecords
<1>4. CASE batch \in merged[t]
  <2>1. events = Delivered(batch, t) /\ events \subseteq Record
    BY <1>1, DeliveredType DEF Delivered
  <2>2. \A r \in events : target[t][r.key] # NoRow /\ r.seq <= target[t][r.key].seq
    BY <1>1, <1>4, <2>1 DEF CurrentStateConverges, Record
  <2>3. Merge(target[t], events, batch) = target[t]
    BY <1>1, <1>3, <2>1, <2>2, MergeIdempotent
  <2>4. target' = target /\ merged' = merged
    BY <1>1, <1>2, <1>4, <2>3
  <2>5. QED
    BY <1>1, <2>4 DEF Once!onceVars
<1>5. CASE batch \notin merged[t]
  <2>1. \A c \in 1..(batch - 1) : c \in merged[t]
    BY DEF MergeTable, Ordered, BatchOrder, MergeOrder, InBatch
  <2>2. \A u \in Tables \ {t} : target'[u] = target[u]
    BY <1>1, <1>2
  <2>3. target'[t] = Merge(target[t], events, batch)
    BY <1>1, <1>2
  <2>4. \A k \in Keys : Once!LatestWins(target[t][k], Merge(target[t], events, batch)[k],
                                       ValidFor(cdc[batch][t], t, k), batch)
    BY <1>1, <1>3, MergeIsLatestWins
  <2>5. Once!Apply(t, batch)
    BY <1>1, <1>2, <1>5, <2>1, <2>2, <2>3, <2>4 DEF Once!Apply, Once!Accepted, ValidFor, Accepted
  <2>6. QED
    BY <1>1, <2>5 DEF Once!Next
<1>6. QED
  BY <1>4, <1>5

\* A table without a file has taken its batch, for the abstract specification
\* as for the code.
LEMMA SkipApplies ==
  ASSUME Ordered, NEW t \in Tables, SkipTable(t)
  PROVE  [Once!Next]_(Once!onceVars)
<1>1. /\ cdc' = cdc /\ ready' = ready /\ target' = target /\ ready = Tables
      /\ batch \in 1..Len(cdc) /\ merged \in [Tables -> SUBSET Batches]
      /\ merged' = [merged EXCEPT ![t] = @ \cup {batch}]
      /\ cdc[batch][t] = {}
  BY DEF SkipTable, durable, Ordered, Scope, InBatch, TypeOK
<1>2. CASE batch \in merged[t]
  <2>1. merged' = merged
    BY <1>1, <1>2
  <2>2. QED
    BY <1>1, <2>1 DEF Once!onceVars
<1>3. CASE batch \notin merged[t]
  <2>1. \A c \in 1..(batch - 1) : c \in merged[t]
    BY DEF SkipTable, Ordered, BatchOrder, MergeOrder, InBatch
  <2>2. \A k \in Keys : Once!LatestWins(target[t][k], target'[t][k],
                          {r \in Once!Accepted(cdc[batch][t]) : r.table = t /\ r.key = k}, batch)
    BY <1>1 DEF Once!LatestWins, Once!Accepted
  <2>3. Once!Apply(t, batch)
    BY <1>1, <1>3, <2>1, <2>2 DEF Once!Apply
  <2>4. QED
    BY <1>1, <2>3 DEF Once!Next
<1>4. QED
  BY <1>2, <1>3

\* Every step of the pipeline is a step of the abstract specification or one
\* it does not see.
LEMMA StepMaps ==
  Ordered /\ CurrentStateConverges /\ [Next]_vars => [Once!Next]_(Once!onceVars)
<1> SUFFICES ASSUME Ordered, CurrentStateConverges, [Next]_vars
             PROVE  [Once!Next]_(Once!onceVars)
  OBVIOUS
<1>1. CASE Land
  BY <1>1 DEF Land, durable, Once!Land, Once!Next
<1>2. CASE \E t \in Tables : InitializeTable(t)
  BY <1>2 DEF InitializeTable, IsFirst, Once!Create, Once!Next
<1>3. CASE \E t \in Tables : SkipTable(t)
  BY <1>3, SkipApplies
<1>4. CASE \E t \in Tables : MergeTable(t)
  BY <1>4, MergeApplies
<1>5. CASE UNCHANGED <<cdc, ready, target, merged>>
  BY <1>5 DEF Once!onceVars
<1>6. \/ \E t \in Tables : ReadTable(t) \/ RecordMetrics(t)
      \/ StartRun \/ Discover \/ (\E b \in Batches : BeginBatch(b)) \/ UpsertLedger
      \/ CommitBatch \/ Reconcile \/ FinishRun \/ Crash \/ UNCHANGED vars
      => UNCHANGED <<cdc, ready, target, merged>>
  BY DEF ReadTable, RecordMetrics, StartRun, Discover, BeginBatch, UpsertLedger, CommitBatch,
         Reconcile, FinishRun, Crash, vars, durable
<1>7. QED
  BY <1>1, <1>2, <1>3, <1>4, <1>5, <1>6 DEF Next, Process, ProcessTable

\* Every batch takes effect on every table exactly once and in order, however
\* run_apply_pipeline is interrupted and rerun: the pipeline implements
\* EffectivelyOnce.
THEOREM EffectOnce == Spec => EffectivelyOnceSpec
<1>1. Init => Once!Init
  BY DEF Init, Once!Init
<1>2. Ordered /\ CurrentStateConverges /\ [Next]_vars => [Once!Next]_(Once!onceVars)
  BY StepMaps
<1>3. QED
  BY InOrder, Converges, <1>1, <1>2, PTL DEF Spec, EffectivelyOnceSpec, Once!Spec

-----------------------------------------------------------------------------
(***************************************************************************)
(* What the pipeline writes beside the rows is true of them: the marks of  *)
(* the checkpoint, the quarantine, the ledger and the metrics.             *)
(***************************************************************************)

\* A step between two batches writes no store and leaves nothing new staged.
Between ==
  /\ ~ InBatch
  /\ pc' \in {"idle", "init", "next"}
  /\ staged' \in {staged, NoEntries}
  /\ UNCHANGED <<cdc, ready, target, ledger, metrics, quarantine, checkpoint, merged, crashes>>

\* The kinds of steps the proofs below distinguish.
LEMMA StepKinds ==
  ASSUME [Next]_vars
  PROVE  \/ Land \/ Crash \/ Between \/ UNCHANGED vars
         \/ UpsertLedger \/ CommitBatch
         \/ \E b \in Batches : BeginBatch(b)
         \/ \E t \in Tables : InitializeTable(t)
         \/ \E t \in Tables : SkipTable(t) \/ ReadTable(t) \/ MergeTable(t) \/ RecordMetrics(t)
<1>1. StartRun \/ Discover \/ Reconcile \/ FinishRun => Between
  BY DEF StartRun, Discover, Reconcile, FinishRun, Between, InBatch, durable
<1>2. QED
  BY <1>1 DEF Next, Process, ProcessTable

\* What the invariant proved so far says of the batch in work.
LEMMA AtWork ==
  ASSUME InductiveInvariant
  PROVE  /\ TypeOK /\ Ordered
         /\ Len(cdc) \in Nat /\ 1..Len(cdc) \subseteq Batches
         /\ checkpoint.completed \subseteq 1..Len(cdc)
         /\ InBatch => /\ batch \in 1..Len(cdc) /\ batch \in Batches
                       /\ batch \notin checkpoint.completed
                       /\ ready = Tables
                       /\ 1..(batch - 1) \subseteq checkpoint.completed
<1>1. TypeOK /\ Ordered
  BY DEF InductiveInvariant, Ordered
<1>2. Len(cdc) \in Nat /\ Len(cdc) <= MaxBatches
  BY <1>1 DEF TypeOK
<1>3. 1..Len(cdc) \subseteq Batches
  BY <1>2, LimitsAssumption DEF Batches
<1>4. InBatch => pc \notin {"idle", "init"}
  BY DEF InBatch
<1>5. Scope /\ BatchOrder
  BY <1>1 DEF Ordered
<1>6. QED
  BY <1>1, <1>2, <1>3, <1>4, <1>5 DEF Scope, BatchOrder

\* What has landed stays as it landed.
LEMMA DeliveredStays ==
  ASSUME TypeOK, [Next]_vars, NEW b \in 1..Len(cdc), NEW t \in Tables
  PROVE  Delivered(b, t)' = Delivered(b, t)
<1>1. CASE Land
  BY <1>1, LandDelivers
<1>2. CASE cdc' = cdc
  BY <1>2 DEF Delivered
<1>3. Land \/ cdc' = cdc
  BY StepKinds DEF Crash, Between, vars, UpsertLedger, CommitBatch, BeginBatch, InitializeTable,
                   SkipTable, ReadTable, MergeTable, RecordMetrics
<1>4. QED
  BY <1>1, <1>2, <1>3

\* An event id names one event: its table, its key and its sequence.
LEMMA SameEvent ==
  ASSUME TypeOK, NEW b \in 1..Len(cdc), NEW c \in 1..Len(cdc), NEW t \in Tables, NEW u \in Tables,
         NEW r \in Delivered(b, t), NEW s \in Delivered(c, u), r.id = s.id
  PROVE  t = u /\ r.key = s.key /\ r.seq = s.seq
<1>1. /\ r \in Records /\ r.ok /\ r.table = t
      /\ s \in Records /\ s.ok /\ s.table = u
  BY FilesAreRecords, ParsedType DEF Delivered
<1>2. <<r.table, r.key, r.seq, r.op>> = <<s.table, s.key, s.seq, s.op>>
  BY <1>1, IdentityAssumption
<1>3. QED
  BY <1>1, <1>2

\* A row comes from the snapshot or from an event of the batch it names.
LEMMA RowOrigin ==
  ASSUME InductiveInvariant, NEW t \in ready, NEW k \in Keys, target[t][k] # NoRow
  PROVE  \/ target[t][k].id = SnapshotId /\ target[t][k].batch = SnapshotBatch
         \/ \E b \in merged[t] : /\ target[t][k].batch = b
                                 /\ \E r \in Delivered(b, t) :
                                      /\ r.key = k /\ r.id = target[t][k].id
                                      /\ r.seq = target[t][k].seq
<1>1. t \in Tables
  BY AtWork DEF TypeOK
<1>2. \/ target[t][k] = Snapshot[t][k]
      \/ \E b \in merged[t] : /\ target[t][k].batch = b
                              /\ \E r \in Delivered(b, t) : r.key = k /\ Reflects(target[t][k], r)
  BY DEF InductiveInvariant, CurrentStateConverges
<1>3. CASE target[t][k] = Snapshot[t][k]
  BY <1>1, <1>3, SnapshotAssumption
<1>4. QED
  BY <1>2, <1>3 DEF Reflects

-----------------------------------------------------------------------------
(***************************************************************************)
(* High-water marks.                                                       *)
(***************************************************************************)

\* The highest sequences of the completed batches of a table.
Marks(t) == {0} \cup {HighestSequence(cdc[b][t]) : b \in checkpoint.completed}

\* The marks of landed files are bounded.
LEMMA MarksType ==
  ASSUME InductiveInvariant, NEW t \in Tables
  PROVE  /\ \A b \in 1..Len(cdc) : HighestSequence(cdc[b][t]) \in 0..MaxSeq
         /\ Marks(t) \subseteq 0..MaxSeq
         /\ Marks(t) # {}
<1>1. \A b \in 1..Len(cdc) : HighestSequence(cdc[b][t]) \in 0..MaxSeq
  BY AtWork, FilesAreRecords, HighestSequenceType
<1>2. QED
  BY <1>1, AtWork, BoundsAssumption DEF Marks

\* A batch that lands changes no mark of the batches before it.
LEMMA LandKeepsMarks ==
  ASSUME InductiveInvariant, Land, NEW t \in Tables
  PROVE  /\ \A b \in 1..Len(cdc) : HighestSequence(cdc'[b][t]) = HighestSequence(cdc[b][t])
         /\ Marks(t)' = Marks(t)
<1>1. \A b \in 1..Len(cdc) : cdc'[b] = cdc[b]
  BY AtWork, LandKeeps
<1>2. \A b \in checkpoint.completed : cdc'[b] = cdc[b]
  BY <1>1, AtWork
<1>3. checkpoint' = checkpoint
  BY DEF Land, durable
<1>4. QED
  BY <1>1, <1>2, <1>3 DEF Marks

\* commit_batch accepts the marks every batch stages.
LEMMA MarksAdvance ==
  ASSUME InductiveInvariant, MarkOrder, pc = "metrics"
  PROVE  Advances(stagedHwm)
<1>1. ASSUME NEW t \in Tables PROVE stagedHwm[t] >= checkpoint.hwm[t]
  <2>1. stagedHwm[t] = Max({checkpoint.hwm[t], HighestSequence(cdc[batch][t])})
    BY DEF MarkOrder, InBatch, Visited
  <2>2. checkpoint.hwm[t] \in Nat /\ HighestSequence(cdc[batch][t]) \in Nat
    BY AtWork, MarksType, BoundsAssumption DEF TypeOK, InBatch
  <2>3. QED
    BY <2>1, <2>2, MaxOfTwo
<1>2. QED
  BY <1>1 DEF Advances

\* Every step keeps the staged and the recorded marks exact.
LEMMA StepMarks ==
  InductiveInvariant /\ MarkOrder /\ HighWaterMarkExact /\ [Next]_vars
    => MarkOrder' /\ HighWaterMarkExact'
<1> SUFFICES ASSUME InductiveInvariant, MarkOrder, HighWaterMarkExact, [Next]_vars
             PROVE  MarkOrder' /\ HighWaterMarkExact'
  OBVIOUS
<1>a. HighWaterMarkExact <=> \A t \in Tables : checkpoint.hwm[t] = Max(Marks(t))
  BY DEF HighWaterMarkExact, Marks
<1>b. HighWaterMarkExact' <=> \A t \in Tables : checkpoint'.hwm[t] = Max(Marks(t)')
  BY DEF HighWaterMarkExact, Marks
<1>c. ASSUME cdc' = cdc, checkpoint' = checkpoint PROVE HighWaterMarkExact'
  BY <1>c DEF HighWaterMarkExact
<1>1. CASE Land
  <2>1. HighWaterMarkExact'
    BY <1>1, <1>a, <1>b, LandKeepsMarks DEF Land, durable
  <2>2. MarkOrder'
    BY <1>1, AtWork, LandKeepsMarks DEF Land, durable, volatile, MarkOrder, InBatch, Visited
  <2>3. QED
    BY <2>1, <2>2
<1>2. CASE Between \/ Crash \/ (\E t \in Tables : InitializeTable(t))
  <2>1. cdc' = cdc /\ checkpoint' = checkpoint /\ ~ InBatch'
    BY <1>2 DEF Between, Crash, InitializeTable, durable, volatile, InBatch
  <2>2. QED
    BY <1>c, <2>1 DEF MarkOrder
<1>3. CASE \E b \in Batches : BeginBatch(b)
  <2>1. cdc' = cdc /\ checkpoint' = checkpoint /\ pc' = "read" /\ pending' = Tables
    BY <1>3 DEF BeginBatch, durable
  <2>2. QED
    BY <1>c, <2>1 DEF MarkOrder, Visited
<1>4. CASE \E t \in Tables : SkipTable(t)
  <2>1. PICK t \in Tables : SkipTable(t)
    BY <1>4
  <2>2. /\ cdc' = cdc /\ checkpoint' = checkpoint /\ batch' = batch
        /\ pc = "read" /\ pc' = "read" /\ pending' = pending \ {t}
        /\ cdc[batch][t] = {}
        /\ stagedHwm' = [stagedHwm EXCEPT ![t] = checkpoint.hwm[t]]
        /\ stagedHwm \in [Tables -> Nat] /\ checkpoint.hwm \in [Tables -> Nat]
    BY <2>1, AtWork DEF SkipTable, durable, TypeOK
  <2>3. checkpoint.hwm[t] = Max({checkpoint.hwm[t], 0})
    BY <2>2, MaxWithZero
  <2>4. stagedHwm'[t] = Max({checkpoint.hwm[t], HighestSequence(cdc[batch][t])})
    BY <2>2, <2>3, NoRecordsNoMark
  <2>5. \A u \in Tables \ {t} : stagedHwm'[u] = stagedHwm[u]
    BY <2>2
  <2>6. MarkOrder'
    BY <2>2, <2>4, <2>5 DEF MarkOrder, InBatch, Visited
  <2>7. QED
    BY <1>c, <2>2, <2>6
<1>5. CASE \E t \in Tables : ReadTable(t)
  BY <1>5, <1>c DEF ReadTable, MarkOrder, InBatch, Visited
<1>6. CASE \E t \in Tables : MergeTable(t)
  <2>1. PICK t \in Tables : MergeTable(t)
    BY <1>6
  <2>2. /\ cdc' = cdc /\ checkpoint' = checkpoint /\ batch' = batch
        /\ pc = "merge" /\ pc' = "read" /\ pending' = pending \ {t}
        /\ stagedHwm' = [stagedHwm EXCEPT ![t] =
                           Max({checkpoint.hwm[t], HighestSequence(cdc[batch][t])})]
        /\ stagedHwm \in [Tables -> Nat]
    BY <2>1, AtWork DEF MergeTable, TypeOK
  <2>3. stagedHwm'[t] = Max({checkpoint.hwm[t], HighestSequence(cdc[batch][t])})
    BY <2>2
  <2>4. \A u \in Tables \ {t} : stagedHwm'[u] = stagedHwm[u]
    BY <2>2
  <2>5. MarkOrder'
    BY <2>2, <2>3, <2>4 DEF MarkOrder, InBatch, Visited
  <2>6. QED
    BY <1>c, <2>2, <2>5
<1>7. CASE UpsertLedger
  BY <1>7, <1>c DEF UpsertLedger, MarkOrder, InBatch, Visited
<1>8. CASE \E t \in Tables : RecordMetrics(t)
  BY <1>8, <1>c DEF RecordMetrics, MarkOrder, InBatch, Visited
<1>9. CASE CommitBatch
  <2>1. /\ pc = "metrics" /\ ~ InBatch' /\ cdc' = cdc
        /\ checkpoint' = [hwm |-> stagedHwm, completed |-> checkpoint.completed \cup {batch}]
    BY <1>9, MarksAdvance DEF CommitBatch, InBatch
  <2>2. ASSUME NEW t \in Tables PROVE checkpoint'.hwm[t] = Max(Marks(t)')
    <3>1. Marks(t)' = Marks(t) \cup {HighestSequence(cdc[batch][t])}
      BY <2>1 DEF Marks
    <3>2. checkpoint'.hwm[t] = Max({Max(Marks(t)), HighestSequence(cdc[batch][t])})
      BY <1>a, <2>1 DEF MarkOrder, InBatch, Visited
    <3>3. HighestSequence(cdc[batch][t]) \in 0..MaxSeq
      BY <2>1, AtWork, MarksType DEF InBatch
    <3> DEFINE S == Marks(t)
               n == HighestSequence(cdc[batch][t])
    <3>4. S \subseteq 0..MaxSeq /\ S # {} /\ n \in 0..MaxSeq /\ MaxSeq \in Nat
      BY <3>3, MarksType, BoundsAssumption
    <3> HIDE DEF S, n
    <3>5. Max(S \cup {n}) = Max({Max(S), n})
      BY <3>4, MaxOfOneMore
    <3>6. QED
      BY <3>1, <3>2, <3>5 DEF S, n
  <2>3. QED
    BY <1>b, <2>1, <2>2 DEF MarkOrder
<1>10. CASE UNCHANGED vars
  BY <1>10, <1>c DEF vars, durable, volatile, MarkOrder, InBatch, Visited
<1>11. QED
  BY StepKinds, <1>1, <1>2, <1>3, <1>4, <1>5, <1>6, <1>7, <1>8, <1>9, <1>10

-----------------------------------------------------------------------------
(***************************************************************************)
(* Attempts.                                                               *)
(***************************************************************************)

\* Every step keeps the count of a quarantined file within the attempts that
\* reached it.
LEMMA StepAttempts ==
  InductiveInvariant /\ MarkOrder /\ AttemptOrder /\ [Next]_vars => AttemptOrder'
<1> SUFFICES ASSUME InductiveInvariant, MarkOrder, AttemptOrder, [Next]_vars
             PROVE  AttemptOrder'
  OBVIOUS
<1>a. crashes \in Nat /\ quarantine \in [Batches -> [Tables -> Nat]]
  BY AtWork DEF TypeOK
<1>b. ASSUME UNCHANGED <<quarantine, crashes>>,
             \A b \in Batches, t \in Tables : b \in checkpoint.completed \/ Reached(b, t)
               => b \in checkpoint'.completed \/ Reached(b, t)'
      PROVE  AttemptOrder'
  BY <1>a, <1>b DEF AttemptOrder
<1>1. CASE Land
  BY <1>1, <1>b DEF Land, durable, volatile, Reached, InBatch, Visited
<1>2. CASE Between
  <2>1. \A b, t : ~ Reached(b, t)
    BY <1>2 DEF Between, Reached
  <2>2. QED
    BY <1>2, <1>b, <2>1 DEF Between
<1>3. CASE \E t \in Tables : InitializeTable(t)
  BY <1>3, <1>b DEF InitializeTable, volatile, Reached, InBatch
<1>4. CASE \E b \in Batches : BeginBatch(b)
  BY <1>4, <1>b DEF BeginBatch, durable, Reached, InBatch
<1>5. CASE \E t \in Tables : SkipTable(t)
  BY <1>5, <1>b DEF SkipTable, durable, Reached, InBatch, Visited
<1>6. CASE \E t \in Tables : ReadTable(t)
  <2>1. PICK t \in Tables : ReadTable(t)
    BY <1>6
  <2>2. /\ pc = "read" /\ pc' = "merge" /\ IsFirst(t, pending) /\ t \in pending
        /\ UNCHANGED <<checkpoint, batch, pending, crashes>>
        /\ batch \in Batches /\ batch \notin checkpoint.completed
    BY <2>1, AtWork DEF ReadTable, InBatch, IsFirst
  <2>3. \A b \in Batches, u \in Tables :
          /\ quarantine'[b][u] <= quarantine[b][u] + 1
          /\ ~ (b = batch /\ u = t) => quarantine'[b][u] = quarantine[b][u]
    <3> DEFINE n == IF Rejected(cdc[batch][t]) = {} THEN quarantine[batch][t]
                                                    ELSE quarantine[batch][t] + 1
    <3>1. quarantine' = [quarantine EXCEPT ![batch][t] = n]
      BY <2>1 DEF ReadTable
    <3>2. n <= quarantine[batch][t] + 1
      BY <1>a, <2>2
    <3> HIDE DEF n
    <3>3. \A b \in Batches, u \in Tables :
            quarantine'[b][u] = IF b = batch /\ u = t THEN n ELSE quarantine[b][u]
      BY <1>a, <2>2, <3>1
    <3>4. QED
      BY <1>a, <3>2, <3>3
  <2>4. /\ ~ Reached(batch, t)
        /\ \A b \in Batches, u \in Tables : b = batch /\ u = t => Reached(b, u)'
    BY <2>2 DEF Reached, Visited, InBatch
  <2>5. \A b \in Batches, u \in Tables : Reached(b, u) => Reached(b, u)'
    BY <2>2 DEF Reached, Visited, InBatch
  <2>6. quarantine'[batch][t] <= crashes' + 1
    <3>1. quarantine[batch][t] <= crashes + 0
      BY <2>2, <2>4 DEF AttemptOrder
    <3>2. quarantine'[batch][t] \in Nat /\ quarantine[batch][t] \in Nat
      BY <2>1, <2>2, <1>a DEF ReadTable
    <3>3. QED
      BY <1>a, <2>2, <2>3, <3>1, <3>2
  <2>7. ASSUME NEW b \in Batches, NEW u \in Tables
        PROVE  quarantine'[b][u] <=
                 crashes' + (IF b \in checkpoint'.completed \/ Reached(b, u)' THEN 1 ELSE 0)
    <3>1. CASE b = batch /\ u = t
      BY <3>1, <2>4, <2>6
    <3>2. CASE ~ (b = batch /\ u = t)
      BY <3>2, <1>a, <2>2, <2>3, <2>5 DEF AttemptOrder
    <3>3. QED
      BY <3>1, <3>2
  <2>8. QED
    BY <2>7 DEF AttemptOrder
<1>7. CASE \E t \in Tables : MergeTable(t)
  <2>1. PICK t \in Tables : MergeTable(t)
    BY <1>7
  <2>2. \A u \in Tables : IsFirst(u, pending) => u = t
    BY <2>1, TablesAssumption DEF MergeTable, IsFirst
  <2>3. QED
    BY <2>1, <2>2, <1>b DEF MergeTable, Reached, InBatch, Visited
<1>8. CASE UpsertLedger
  BY <1>8, <1>b DEF UpsertLedger, Reached, InBatch, Visited
<1>9. CASE \E t \in Tables : RecordMetrics(t)
  BY <1>9, <1>b DEF RecordMetrics, Reached, InBatch, Visited
<1>10. CASE CommitBatch
  BY <1>10, <1>b, MarksAdvance DEF CommitBatch, Reached
<1>11. CASE Crash
  <2>1. crashes' = crashes + 1 /\ quarantine' = quarantine
    BY <1>11 DEF Crash, durable
  <2>2. QED
    BY <1>a, <2>1 DEF AttemptOrder
<1>12. CASE UNCHANGED vars
  BY <1>12, <1>b DEF vars, durable, volatile, Reached, InBatch, Visited
<1>13. QED
  BY StepKinds, <1>1, <1>2, <1>3, <1>4, <1>5, <1>6, <1>7, <1>8, <1>9, <1>10, <1>11, <1>12

-----------------------------------------------------------------------------
(***************************************************************************)
(* Evidence of crashes.                                                    *)
(***************************************************************************)

\* Without a crash, the MERGE of a table recovers nothing: whatever its rows
\* carry is of a completed batch and in the ledger.
LEMMA MergeRecoversNothing ==
  ASSUME InductiveInvariant, LeftoverOrder, crashes = 0, NEW t \in Tables, MergeTable(t),
         NEW i \in EventIds
  PROVE  Audit(target[t], ledger, Delivered(batch, t))[i] # "RECOVERED_AFTER_PARTIAL_COMMIT"
<1> SUFFICES ASSUME Audit(target[t], ledger, Delivered(batch, t))[i]
                      = "RECOVERED_AFTER_PARTIAL_COMMIT"
             PROVE  FALSE
  OBVIOUS
<1>1. pc = "merge" /\ t \in pending /\ InBatch
  BY DEF MergeTable, IsFirst, InBatch
<1>2. /\ TypeOK /\ batch \in 1..Len(cdc) /\ t \in ready
      /\ Delivered(batch, t) \subseteq Record
  BY <1>1, AtWork, DeliveredType
<1>3. PICK r \in Delivered(batch, t) :
        r.id = i /\ Carries(target[t][r.key], r) /\ ledger[i] = NoEntry
  BY <1>2, RecoveryIsBehind
<1>4. r \in Record /\ r.key \in Keys /\ target[t][r.key] # NoRow /\ target[t][r.key].id = r.id
  BY <1>2, <1>3 DEF Carries, Record
<1>5. r.id # SnapshotId
  BY <1>4, BoundsAssumption DEF Record, SnapshotId
<1>6. PICK b \in merged[t] : \E s \in Delivered(b, t) : s.id = target[t][r.key].id
  BY <1>2, <1>4, <1>5, RowOrigin
<1>7. b \in checkpoint.completed
  BY <1>1 DEF LeftoverOrder, Visited
<1>8. HasEntries(ledger, b, t)
  BY <1>7 DEF InductiveInvariant, EffectsOrder
<1>9. QED
  BY <1>3, <1>4, <1>6, <1>8 DEF HasEntries

\* Every step that is not a crash leaves nothing half merged and recovers
\* nothing.
LEMMA StepLeftovers ==
  InductiveInvariant /\ MarkOrder /\ LeftoverOrder /\ RecoveryImpliesCrash /\ [Next]_vars
    => LeftoverOrder' /\ RecoveryImpliesCrash'
<1> SUFFICES ASSUME InductiveInvariant, MarkOrder, LeftoverOrder, RecoveryImpliesCrash, [Next]_vars
             PROVE  LeftoverOrder' /\ RecoveryImpliesCrash'
  OBVIOUS
<1>a. /\ crashes \in Nat /\ ledger \in Entries /\ staged \in Entries
      /\ merged \in [Tables -> SUBSET Batches]
  BY AtWork DEF TypeOK
<1>b. ASSUME ledger' = ledger, crashes' = crashes PROVE RecoveryImpliesCrash'
  BY <1>b DEF RecoveryImpliesCrash
<1>1. CASE Land
  BY <1>1, <1>b DEF Land, durable, volatile, LeftoverOrder, InBatch, Visited
<1>2. CASE Between
  BY <1>2, <1>b, NoEntryAssumption DEF Between, LeftoverOrder, NoEntries, Outcomes
<1>3. CASE \E t \in Tables : InitializeTable(t)
  BY <1>3, <1>b DEF InitializeTable, volatile, LeftoverOrder, InBatch, Visited
<1>4. CASE \E b \in Batches : BeginBatch(b)
  BY <1>4, <1>b, NoEntryAssumption
     DEF BeginBatch, durable, LeftoverOrder, InBatch, NoEntries, Outcomes
<1>5. CASE \E t \in Tables : SkipTable(t)
  <2>1. PICK t \in Tables : SkipTable(t)
    BY <1>5
  <2>2. \A u \in Tables : merged'[u] = IF u = t THEN merged[t] \cup {batch} ELSE merged[u]
    BY <2>1, <1>a DEF SkipTable
  <2>3. QED
    BY <2>1, <2>2, <1>b DEF SkipTable, durable, LeftoverOrder, InBatch, Visited
<1>6. CASE \E t \in Tables : ReadTable(t)
  BY <1>6, <1>b DEF ReadTable, LeftoverOrder, InBatch, Visited
<1>7. CASE \E t \in Tables : MergeTable(t)
  <2>1. PICK t \in Tables : MergeTable(t)
    BY <1>7
  <2>2. \A u \in Tables : merged'[u] = IF u = t THEN merged[t] \cup {batch} ELSE merged[u]
    BY <2>1, <1>a DEF MergeTable
  <2>3. staged' = Upsert(staged, Audit(target[t], ledger, Delivered(batch, t)))
    BY <2>1 DEF MergeTable, Delivered
  <2>4. ASSUME crashes = 0, NEW i \in EventIds
        PROVE  staged'[i] # "RECOVERED_AFTER_PARTIAL_COMMIT"
    BY <2>1, <2>3, <2>4, MergeRecoversNothing DEF Upsert, LeftoverOrder
  <2>5. QED
    BY <2>1, <2>2, <2>4, <1>b DEF MergeTable, LeftoverOrder, InBatch, Visited
<1>8. CASE UpsertLedger
  <2>1. RecoveryImpliesCrash'
    BY <1>8, <1>a DEF UpsertLedger, Upsert, LeftoverOrder, RecoveryImpliesCrash
  <2>2. QED
    BY <1>8, <2>1 DEF UpsertLedger, LeftoverOrder, InBatch, Visited
<1>9. CASE \E t \in Tables : RecordMetrics(t)
  BY <1>9, <1>b DEF RecordMetrics, LeftoverOrder, InBatch, Visited
<1>10. CASE CommitBatch
  BY <1>10, <1>b, MarksAdvance DEF CommitBatch, LeftoverOrder
<1>11. CASE Crash
  BY <1>11, <1>a DEF Crash, LeftoverOrder, RecoveryImpliesCrash
<1>12. CASE UNCHANGED vars
  BY <1>12, <1>b DEF vars, durable, volatile, LeftoverOrder, InBatch, Visited
<1>13. QED
  BY StepKinds, <1>1, <1>2, <1>3, <1>4, <1>5, <1>6, <1>7, <1>8, <1>9, <1>10, <1>11, <1>12

-----------------------------------------------------------------------------
(***************************************************************************)
(* Ledger and metrics.                                                     *)
(***************************************************************************)

\* What a later MERGE has seen again it has seen for good.
LEMMA RedeliveredStays ==
  ASSUME InductiveInvariant, [Next]_vars, NEW t \in Tables, NEW b, NEW i, Redelivered(b, t, i)
  PROVE  Redelivered(b, t, i)'
<1>1. merged \in [Tables -> SUBSET Batches] /\ merged[t] \subseteq 1..Len(cdc) /\ TypeOK
  BY AtWork DEF TypeOK, InductiveInvariant, MergeOrder
<1>2. merged[t] \subseteq merged'[t]
  BY <1>1, StepKinds DEF Land, Crash, Between, vars, UpsertLedger, CommitBatch, BeginBatch,
     InitializeTable, SkipTable, ReadTable, MergeTable, RecordMetrics, durable
<1>3. PICK c \in merged[t] : c > b /\ \E s \in Delivered(c, t) : s.id = i
  BY DEF Redelivered
<1>4. c \in merged'[t] /\ Delivered(c, t)' = Delivered(c, t)
  BY <1>1, <1>2, <1>3, DeliveredStays
<1>5. \E s \in Delivered(c, t)' : s.id = i
  BY <1>3, <1>4
<1>6. QED
  BY <1>3, <1>4, <1>5 DEF Redelivered

\* The upsert of the batch in work touches no event of a completed batch, unless
\* the batch delivers it again.
LEMMA UpsertSparesOthers ==
  ASSUME InductiveInvariant, StagedOrder, UpsertLedger,
         NEW b \in checkpoint.completed, NEW t \in Tables, NEW r \in Delivered(b, t),
         ~ Redelivered(b, t, r.id)
  PROVE  ledger'[r.id] = ledger[r.id]
<1>1. /\ TypeOK /\ InBatch /\ batch \in 1..Len(cdc) /\ b \in 1..Len(cdc)
      /\ batch \notin checkpoint.completed /\ pending = {}
  BY AtWork DEF UpsertLedger, InBatch
<1>2. r.id \in EventIds
  BY <1>1, DeliveredType
<1>3. ledger'[r.id] = IF staged[r.id] # NoEntry THEN staged[r.id] ELSE ledger[r.id]
  BY <1>2 DEF UpsertLedger, Upsert
<1>4. ASSUME staged[r.id] # NoEntry PROVE FALSE
  <2>1. PICK u \in Tables : \E s \in Delivered(batch, u) : s.id = r.id
    BY <1>1, <1>2, <1>4 DEF StagedOrder
  <2>2. u = t
    BY <1>1, <2>1, SameEvent
  <2>3. batch \in merged[t]
    BY <1>1 DEF InductiveInvariant, MergeOrder, UpsertLedger
  <2>4. batch > b
    <3>1. 1..b \subseteq checkpoint.completed
      BY DEF InductiveInvariant, BatchOrder
    <3>2. batch \notin 1..b
      BY <1>1, <3>1
    <3>3. Len(cdc) \in Nat
      BY AtWork
    <3>4. QED
      BY <1>1, <3>2, <3>3
  <2>5. QED
    BY <2>1, <2>2, <2>3, <2>4 DEF Redelivered
<1>5. QED
  BY <1>3, <1>4

\* Every step stages, records and counts the outcomes of the batch in work alike.
LEMMA StepStaged == InductiveInvariant /\ StagedOrder /\ [Next]_vars => StagedOrder'
<1> SUFFICES ASSUME InductiveInvariant, StagedOrder, [Next]_vars PROVE StagedOrder'
  OBVIOUS
<1>a. /\ TypeOK /\ staged \in Entries /\ ledger \in Entries
      /\ metrics \in [Batches -> [Tables -> Entries]]
      /\ InBatch => batch \in 1..Len(cdc) /\ batch \in Batches
  BY AtWork DEF TypeOK
<1>1. CASE Land
  <2>1. InBatch => \A t \in Tables : Delivered(batch, t)' = Delivered(batch, t)
    <3>1. ASSUME InBatch, NEW t \in Tables PROVE Delivered(batch, t)' = Delivered(batch, t)
      <4>1. cdc'[batch] = cdc[batch] /\ batch' = batch
        BY <1>1, <1>a, <3>1, LandKeeps DEF Land, volatile
      <4>2. QED
        BY <4>1 DEF Delivered
    <3>2. QED
      BY <3>1
  <2>2. QED
    BY <1>1, <2>1 DEF Land, durable, volatile, StagedOrder, InBatch, Visited
<1>2. CASE Between \/ Crash \/ CommitBatch \/ \E t \in Tables : InitializeTable(t)
  <2>1. ~ InBatch' /\ pc' # "metrics"
    BY <1>2 DEF Between, Crash, CommitBatch, InitializeTable, volatile, InBatch
  <2>2. QED
    BY <2>1 DEF StagedOrder
<1>3. CASE \E b \in Batches : BeginBatch(b)
  BY <1>3 DEF BeginBatch, StagedOrder, NoEntries
<1>4. CASE \E t \in Tables : SkipTable(t)
  BY <1>4 DEF SkipTable, durable, StagedOrder, InBatch, Visited, Delivered
<1>5. CASE \E t \in Tables : ReadTable(t)
  BY <1>5 DEF ReadTable, StagedOrder, InBatch, Visited, Delivered
<1>6. CASE \E t \in Tables : MergeTable(t)
  <2>1. PICK t \in Tables : MergeTable(t)
    BY <1>6
  <2>2. /\ pc = "merge" /\ pc' = "read" /\ pending' = pending \ {t}
        /\ cdc' = cdc /\ batch' = batch /\ InBatch
        /\ staged' = Upsert(staged, Audit(target[t], ledger, Delivered(batch, t)))
    BY <2>1 DEF MergeTable, Delivered, InBatch
  <2>3. Delivered(batch, t) \subseteq Record
    BY <1>a, <2>2, DeliveredType
  <2>4. \A u \in Tables : Delivered(batch, u)' = Delivered(batch, u)
    BY <2>2 DEF Delivered
  <2>5. ASSUME NEW i \in EventIds, staged'[i] # NoEntry
        PROVE  \E u \in Tables : Visited(u)' /\ \E r \in Delivered(batch, u) : r.id = i
    <3>1. CASE Audit(target[t], ledger, Delivered(batch, t))[i] # NoEntry
      BY <2>2, <2>3, <3>1, AuditAt DEF Visited
    <3>2. CASE Audit(target[t], ledger, Delivered(batch, t))[i] = NoEntry
      <4>1. staged[i] # NoEntry
        BY <2>2, <2>5, <3>2 DEF Upsert
      <4>2. QED
        BY <2>2, <4>1 DEF StagedOrder, Visited
    <3>3. QED
      BY <3>1, <3>2
  <2>6. QED
    BY <2>2, <2>4, <2>5 DEF StagedOrder
<1>7. CASE UpsertLedger
  <2>1. \A t \in Tables : t \notin pending' => Delivered(batch, t)' = {}
    BY <1>7 DEF UpsertLedger, Delivered, Parsed, Deduplicated, Accepted
  <2>2. \A i \in EventIds : staged[i] # NoEntry => ledger'[i] = staged[i]
    BY <1>7 DEF UpsertLedger, Upsert
  <2>3. QED
    BY <1>7, <2>1, <2>2 DEF UpsertLedger, StagedOrder, InBatch, Visited, Delivered
<1>8. CASE \E t \in Tables : RecordMetrics(t)
  <2>1. PICK t \in Tables : RecordMetrics(t)
    BY <1>8
  <2> DEFINE row == [i \in EventIds |-> IF \E r \in Parsed(cdc[batch][t], t) : r.id = i
                                        THEN staged[i] ELSE NoEntry]
  <2>2. /\ pc = "metrics" /\ pc' = "metrics" /\ pending' = pending \ {t} /\ InBatch
        /\ UNCHANGED <<cdc, ledger, batch, staged>>
        /\ metrics' = [metrics EXCEPT ![batch][t] = row]
    BY <2>1 DEF RecordMetrics, InBatch
  <2>3. \A r \in Delivered(batch, t) : row[r.id] = staged[r.id]
    BY <1>a, <2>2, DeliveredType DEF Delivered
  <2> HIDE DEF row
  <2>4. \A u \in Tables : metrics'[batch][u] = IF u = t THEN row ELSE metrics[batch][u]
    BY <1>a, <2>2
  <2>5. \A u \in Tables \ pending' : \A r \in Delivered(batch, u) :
          metrics'[batch][u][r.id] = staged[r.id]
    BY <2>2, <2>3, <2>4 DEF StagedOrder
  <2>6. QED
    BY <2>2, <2>5 DEF StagedOrder, InBatch, Visited, Delivered
<1>9. CASE UNCHANGED vars
  BY <1>9 DEF vars, durable, volatile, StagedOrder, InBatch, Visited, Delivered
<1>10. QED
  BY StepKinds, <1>1, <1>2, <1>3, <1>4, <1>5, <1>6, <1>7, <1>8, <1>9

\* Every step keeps the metrics of completed batches in step with the ledger.
LEMMA StepMetrics ==
  InductiveInvariant /\ StagedOrder /\ MetricsMatchLedger /\ [Next]_vars => MetricsMatchLedger'
<1> SUFFICES ASSUME InductiveInvariant, StagedOrder, MetricsMatchLedger, [Next]_vars,
                    NEW b \in checkpoint'.completed, NEW t \in Tables, NEW r \in Delivered(b, t)',
                    ~ Redelivered(b, t, r.id)'
             PROVE  metrics'[b][t][r.id] = ledger'[r.id]
  BY DEF MetricsMatchLedger
<1>1. CASE b \in checkpoint.completed
  <2>1. b \in 1..Len(cdc) /\ TypeOK
    BY <1>1, AtWork
  <2>2. r \in Delivered(b, t)
    BY <2>1, DeliveredStays
  <2>3. ~ Redelivered(b, t, r.id)
    BY RedeliveredStays
  <2>4. metrics[b][t][r.id] = ledger[r.id]
    BY <1>1, <2>2, <2>3 DEF MetricsMatchLedger
  <2>5. CASE UpsertLedger
    BY <1>1, <2>2, <2>3, <2>4, <2>5, UpsertSparesOthers DEF UpsertLedger
  <2>6. CASE \E u \in Tables : RecordMetrics(u)
    <3>1. PICK u \in Tables : RecordMetrics(u)
      BY <2>6
    <3>2. b # batch /\ b \in Batches /\ metrics \in [Batches -> [Tables -> Entries]]
      BY <1>1, <3>1, AtWork DEF RecordMetrics, InBatch, TypeOK
    <3>3. metrics'[b] = metrics[b] /\ ledger' = ledger
      BY <3>1, <3>2 DEF RecordMetrics
    <3>4. QED
      BY <2>4, <3>3
  <2>7. CASE UNCHANGED <<ledger, metrics>>
    BY <2>4, <2>7
  <2>8. QED
    BY <2>5, <2>6, <2>7, StepKinds DEF Land, Crash, Between, vars, CommitBatch, BeginBatch,
       InitializeTable, SkipTable, ReadTable, MergeTable, durable
<1>2. CASE b \notin checkpoint.completed
  <2>1. CommitBatch
    BY <1>2, StepKinds DEF Land, Crash, Between, vars, UpsertLedger, BeginBatch,
       InitializeTable, SkipTable, ReadTable, MergeTable, RecordMetrics, durable
  <2>2. /\ b = batch /\ pc = "metrics" /\ pending = {}
        /\ UNCHANGED <<cdc, ledger, metrics>>
    BY <1>2, <2>1 DEF CommitBatch
  <2>3. r \in Delivered(batch, t) /\ r.id \in EventIds
    BY <2>2, AtWork, DeliveredType DEF Delivered, InBatch
  <2>4. staged[r.id] # NoEntry
    BY <2>2, <2>3 DEF InductiveInvariant, EffectsOrder, HasEntries
  <2>5. metrics[batch][t][r.id] = staged[r.id] /\ ledger[r.id] = staged[r.id]
    BY <2>2, <2>3, <2>4 DEF StagedOrder
  <2>6. QED
    BY <2>2, <2>5
<1>3. QED
  BY <1>1, <1>2

-----------------------------------------------------------------------------
(***************************************************************************)
(* Outcomes and rows.                                                      *)
(***************************************************************************)

\* More events can tie a row, none can untie it.
LEMMA UntiedBefore ==
  ASSUME TypeOK, [Next]_vars, NEW t \in Tables, NEW k \in Keys,
         target'[t][k] = target[t][k], Untied(t, k)'
  PROVE  Untied(t, k)
<1>1. Len(cdc) \in Nat
  BY DEF TypeOK
<1>2. 1..Len(cdc) \subseteq 1..Len(cdc')
  <2>1. CASE Land
    BY <1>1, <2>1, LandKeeps
  <2>2. CASE cdc' = cdc
    BY <2>2
  <2>3. QED
    BY <2>1, <2>2, StepKinds DEF Crash, Between, vars, UpsertLedger, CommitBatch, BeginBatch,
       InitializeTable, SkipTable, ReadTable, MergeTable, RecordMetrics
<1>3. ASSUME NEW b \in 1..Len(cdc), NEW r \in Delivered(b, t),
             r.key = k, r.seq = target[t][k].seq
      PROVE  r.id = target[t][k].id
  <2>1. r \in Delivered(b, t)'
    BY DeliveredStays
  <2>2. b \in 1..Len(cdc')
    BY <1>2
  <2>3. QED
    BY <1>3, <2>1, <2>2 DEF Untied
<1>4. QED
  BY <1>3 DEF Untied

\* While the batch in work has not come to a table, nothing is staged for the
\* event a row of the table carries.
LEMMA NotYetStaged ==
  ASSUME InductiveInvariant, StagedOrder, InBatch, NEW t \in Tables, ~ Visited(t),
         NEW k \in Keys, target[t][k] # NoRow, target[t][k].batch \in Batches
  PROVE  target[t][k].id \in EventIds /\ staged[target[t][k].id] = NoEntry
<1> DEFINE row == target[t][k]
<1>1. t \in ready /\ TypeOK /\ batch \in 1..Len(cdc) /\ merged[t] \subseteq 1..Len(cdc)
  BY AtWork DEF InductiveInvariant, MergeOrder
<1>2. row.batch # SnapshotBatch
  BY LimitsAssumption DEF Batches, SnapshotBatch
<1>3. PICK b \in merged[t] : \E r \in Delivered(b, t) : r.id = row.id
  BY <1>1, <1>2, RowOrigin
<1>4. PICK r \in Delivered(b, t) : r.id = row.id
  BY <1>3
<1>5. r.id \in EventIds
  BY <1>1, DeliveredType
<1>6. ASSUME staged[row.id] # NoEntry PROVE FALSE
  <2>1. PICK u \in Tables : Visited(u) /\ \E s \in Delivered(batch, u) : s.id = row.id
    BY <1>4, <1>5, <1>6 DEF StagedOrder
  <2>2. PICK s \in Delivered(batch, u) : s.id = row.id
    BY <2>1
  <2>3. u = t
    BY <1>1, <1>4, <2>2, SameEvent
  <2>4. QED
    BY <2>1, <2>3
<1>7. QED
  BY <1>4, <1>5, <1>6

\* What a MERGE stages for the event that a row of its table carries afterwards
\* explains the row: a candidate that was newer, or one the row carried before.
LEMMA MergeExplains ==
  ASSUME InductiveInvariant, NEW t \in Tables, MergeTable(t), NEW k \in Keys,
         target'[t][k] # NoRow, target'[t][k].batch \in Batches,
         target'[t][k] = target[t][k] => Untied(t, k)
  PROVE  /\ target'[t][k].id \in EventIds
         /\ Audit(target[t], ledger, Delivered(batch, t))[target'[t][k].id] \in
              IF target'[t][k] = target[t][k] THEN ExplainingOutcomes \cup {NoEntry}
                                              ELSE ExplainingOutcomes
<1> DEFINE events == Delivered(batch, t)
           old == target[t][k]
           new == target'[t][k]
           audit == Audit(target[t], ledger, events)
<1>1. /\ TypeOK /\ batch \in 1..Len(cdc) /\ batch \in Batches /\ batch \in Nat
      /\ t \in ready /\ target \in [Tables -> Rows] /\ merged[t] \subseteq 1..Len(cdc)
  BY AtWork DEF MergeTable, InBatch, TypeOK, InductiveInvariant, MergeOrder
<1>2. /\ cdc[batch][t] \subseteq Records /\ events = Parsed(cdc[batch][t], t)
      /\ events \subseteq Record /\ \A r \in events : r.id \in EventIds
  BY <1>1, FilesAreRecords, DeliveredType DEF Delivered
<1>3. target[t] \in Rows /\ target'[t] = Merge(target[t], events, batch)
  BY <1>1, <1>2 DEF MergeTable
<1>4. old \in Row \cup {NoRow}
  BY <1>3 DEF Rows
<1>5. ASSUME NEW e \in events, e \in Winners(events), e.key = k, Carries(old, e) \/ Newer(e, old)
      PROVE  audit[e.id] \in ExplainingOutcomes
  <2>1. e \in Record /\ e.id \in EventIds
    BY <1>2
  <2>2. audit[e.id] # NoEntry
    BY <1>2, <2>1, AuditAt, NoEntryAssumption
  <2>3. PICK r \in events :
          /\ r.id = e.id
          /\ \/ r \notin Winners(events)
             \/ audit[e.id] = Classify(r, target[t][r.key], ledger)
    BY <1>2, <2>1, <2>2, AuditSays
  <2>4. r = e
    BY <1>2, <2>3, DeduplicatedIdsDiffer DEF Parsed
  <2>5. audit[e.id] = Classify(e, old, ledger)
    BY <1>5, <2>3, <2>4
  <2>6. QED
    BY <1>4, <1>5, <2>1, <2>5, ClassifyExplains DEF ExplainingOutcomes
<1>6. CASE Applied(target[t], events, k) # {}
  <2>1. PICK w \in Applied(target[t], events, k) : new = MergedRow(old, w, batch)
    BY <1>3, <1>6, MergeAt
  <2>2. w \in events /\ w \in Winners(events) /\ w.key = k /\ Newer(w, old)
    BY <2>1 DEF Applied, Winners
  <2>3. new.id = w.id
    BY <2>1 DEF MergedRow
  <2>4. audit[new.id] \in ExplainingOutcomes
    BY <1>5, <2>2, <2>3
  <2>5. QED
    BY <1>2, <2>2, <2>3, <2>4
<1>7. CASE Applied(target[t], events, k) = {}
  <2>1. new = old
    BY <1>3, <1>7, MergeAt
  <2>2. Untied(t, k) /\ old # NoRow /\ old.batch # SnapshotBatch /\ old \in Row
    BY <1>4, <2>1, LimitsAssumption DEF Batches, SnapshotBatch
  <2>3. PICK b \in merged[t] : \E r \in Delivered(b, t) : r.key = k /\ r.id = old.id /\ r.seq = old.seq
    BY <1>1, <2>2, RowOrigin
  <2>4. PICK r \in Delivered(b, t) : r.key = k /\ r.id = old.id /\ r.seq = old.seq
    BY <2>3
  <2>a. r.id \in EventIds
    BY <1>1, DeliveredType
  <2>5. CASE \A e \in events : e.id # old.id
    <3>1. audit[old.id] = NoEntry
      BY <1>2, <2>4, <2>5, <2>a, AuditAt
    <3>2. QED
      BY <2>1, <2>4, <2>a, <3>1
  <2>6. CASE \E e \in events : e.id = old.id
    <3>1. PICK e \in events : e.id = old.id
      BY <2>6
    <3>2. e.key = k /\ e.seq = old.seq
      BY <1>1, <2>4, <3>1, SameEvent
    <3>3. PICK w \in Winners(events) : w.key = k /\ w.seq >= e.seq
      BY <1>2, <3>1, <3>2, WinnerExists
    <3>4. w \in events /\ w \in Record /\ e \in Record
      BY <1>2, <3>1, <3>3 DEF Winners
    <3>5. ~ Newer(w, old)
      BY <1>7, <3>3 DEF Applied
    <3>6. w.seq = old.seq
      BY <2>2, <3>2, <3>3, <3>4, <3>5, BoundsAssumption DEF Newer, Record, Row
    <3>7. w.id = e.id
      BY <1>1, <2>2, <3>1, <3>3, <3>4, <3>6 DEF Untied
    <3>8. w = e
      BY <1>2, <3>1, <3>4, <3>7, DeduplicatedIdsDiffer DEF Parsed
    <3>9. Carries(old, e)
      BY <2>2, <3>1, <3>2 DEF Carries
    <3>10. audit[old.id] \in ExplainingOutcomes
      BY <1>5, <3>1, <3>2, <3>3, <3>8, <3>9
    <3>11. QED
      BY <2>1, <2>4, <2>a, <3>10
  <2>7. QED
    BY <2>5, <2>6
<1>8. QED
  BY <1>6, <1>7

\* The MERGE of a table leaves what is staged for the rows of the others.
LEMMA MergeSparesOthers ==
  ASSUME InductiveInvariant, NEW t \in Tables, MergeTable(t), NEW u \in Tables, u # t,
         NEW k \in Keys, target[u][k] # NoRow, target[u][k].batch \in Batches
  PROVE  staged'[target[u][k].id] = staged[target[u][k].id]
<1> DEFINE events == Delivered(batch, t)
<1>1. /\ TypeOK /\ batch \in 1..Len(cdc) /\ u \in ready /\ merged[u] \subseteq 1..Len(cdc)
      /\ events \subseteq Record
      /\ staged' = Upsert(staged, Audit(target[t], ledger, events))
  BY AtWork, DeliveredType DEF MergeTable, Delivered, InBatch, InductiveInvariant, MergeOrder
<1>2. target[u][k].batch # SnapshotBatch
  BY LimitsAssumption DEF Batches, SnapshotBatch
<1>3. PICK b \in merged[u] : \E r \in Delivered(b, u) : r.id = target[u][k].id
  BY <1>1, <1>2, RowOrigin
<1>4. PICK r \in Delivered(b, u) : r.id = target[u][k].id
  BY <1>3
<1>5. r.id \in EventIds
  BY <1>1, DeliveredType
<1>6. \A e \in events : e.id # r.id
  BY <1>1, SameEvent
<1>7. Audit(target[t], ledger, events)[r.id] = NoEntry
  BY <1>1, <1>5, <1>6, AuditAt
<1>8. QED
  BY <1>1, <1>4, <1>5, <1>7 DEF Upsert

\* Every step stages what explains the rows of the tables it has been to.
LEMMA StepOutcomes ==
  InductiveInvariant /\ StagedOrder /\ OutcomeOrder /\ [Next]_vars => OutcomeOrder'
<1> SUFFICES ASSUME InductiveInvariant, StagedOrder, OutcomeOrder, [Next]_vars, InBatch',
                    NEW u \in Tables, NEW k \in Keys, Visited(u)', target'[u][k] # NoRow,
                    target'[u][k].batch \in (checkpoint.completed \cup {batch})', Untied(u, k)'
             PROVE  staged'[target'[u][k].id] \in ExplainingOutcomes \cup {NoEntry}
  BY DEF OutcomeOrder
<1>a. TypeOK /\ target \in [Tables -> Rows] /\ staged \in Entries
  BY AtWork DEF TypeOK
<1>b. ASSUME UNCHANGED <<target, staged>>, InBatch, Visited(u),
             (checkpoint.completed \cup {batch})' = checkpoint.completed \cup {batch}
      PROVE  staged'[target'[u][k].id] \in ExplainingOutcomes \cup {NoEntry}
  <2>1. Untied(u, k)
    BY <1>a, <1>b, UntiedBefore
  <2>2. QED
    BY <1>b, <2>1 DEF OutcomeOrder
<1>1. CASE Land
  BY <1>1, <1>b DEF Land, durable, volatile, InBatch, Visited
<1>2. CASE Between \/ Crash \/ CommitBatch \/ \E t \in Tables : InitializeTable(t)
  BY <1>2 DEF Between, Crash, CommitBatch, InitializeTable, volatile, InBatch
<1>3. CASE \E b \in Batches : BeginBatch(b)
  BY <1>3 DEF BeginBatch, Visited
<1>4. CASE \E t \in Tables : SkipTable(t)
  <2>1. PICK t \in Tables : SkipTable(t)
    BY <1>4
  <2>2. /\ pc = "read" /\ InBatch /\ pending' = pending \ {t}
        /\ UNCHANGED <<target, staged, checkpoint, batch, pc>>
    BY <2>1 DEF SkipTable, durable, InBatch
  <2>3. CASE Visited(u)
    BY <1>b, <2>2, <2>3
  <2>4. CASE ~ Visited(u)
    <3>1. target[u][k].batch \in Batches
      BY <2>2, AtWork
    <3>2. QED
      BY <2>2, <2>4, <3>1, NotYetStaged
  <2>5. QED
    BY <2>3, <2>4
<1>5. CASE \E t \in Tables : ReadTable(t)
  BY <1>5, <1>b DEF ReadTable, InBatch, Visited
<1>6. CASE \E t \in Tables : MergeTable(t)
  <2>1. PICK t \in Tables : MergeTable(t)
    BY <1>6
  <2>2. /\ pc = "merge" /\ pc' = "read" /\ InBatch /\ pending' = pending \ {t} /\ t \in pending
        /\ UNCHANGED <<cdc, checkpoint, batch>>
        /\ staged' = Upsert(staged, Audit(target[t], ledger, Delivered(batch, t)))
    BY <2>1 DEF MergeTable, Delivered, InBatch, IsFirst
  <2>3. target'[u][k].batch \in Batches
    BY <2>2, AtWork
  <2>4. CASE u # t
    <3>1. target'[u] = target[u]
      BY <1>a, <2>1, <2>4 DEF MergeTable
    <3>2. Untied(u, k)
      BY <1>a, <3>1, UntiedBefore
    <3>3. staged[target[u][k].id] \in ExplainingOutcomes \cup {NoEntry}
      BY <2>2, <2>4, <3>1, <3>2 DEF OutcomeOrder, Visited
    <3>4. staged'[target[u][k].id] = staged[target[u][k].id]
      BY <2>1, <2>3, <2>4, <3>1, MergeSparesOthers
    <3>5. QED
      BY <3>1, <3>3, <3>4
  <2>5. CASE u = t
    <3> DEFINE i == target'[u][k].id
               audit == Audit(target[t], ledger, Delivered(batch, t))
    <3>1. target'[t][k] = target[t][k] => Untied(t, k)
      BY <1>a, <2>5, UntiedBefore
    <3>2. /\ i \in EventIds
          /\ audit[i] \in IF target'[t][k] = target[t][k] THEN ExplainingOutcomes \cup {NoEntry}
                                                         ELSE ExplainingOutcomes
      BY <2>1, <2>3, <2>5, <3>1, MergeExplains
    <3>3. target'[t][k] = target[t][k] => staged[i] = NoEntry
      BY <2>2, <2>3, <2>5, NotYetStaged DEF Visited
    <3>4. NoEntry \notin ExplainingOutcomes
      BY NoEntryAssumption DEF ExplainingOutcomes, Outcomes
    <3>5. staged'[i] = IF audit[i] # NoEntry THEN audit[i] ELSE staged[i]
      BY <2>2, <3>2 DEF Upsert
    <3> HIDE DEF audit
    <3>6. QED
      BY <3>2, <3>3, <3>4, <3>5
  <2>6. QED
    BY <2>4, <2>5
<1>7. CASE UpsertLedger
  BY <1>7, <1>b DEF UpsertLedger, InBatch, Visited
<1>8. CASE \E t \in Tables : RecordMetrics(t)
  BY <1>8, <1>b DEF RecordMetrics, InBatch, Visited
<1>9. CASE UNCHANGED vars
  BY <1>9, <1>b DEF vars, durable, volatile, InBatch, Visited
<1>10. QED
  BY StepKinds, <1>1, <1>2, <1>3, <1>4, <1>5, <1>6, <1>7, <1>8, <1>9

\* Every step keeps the rows of completed batches explained.
LEMMA StepExplained ==
  InductiveInvariant /\ StagedOrder /\ OutcomeOrder /\ LedgerExplainsRows /\ [Next]_vars
    => LedgerExplainsRows'
<1> SUFFICES ASSUME InductiveInvariant, StagedOrder, OutcomeOrder, LedgerExplainsRows, [Next]_vars,
                    NEW t \in ready', NEW k \in Keys, target'[t][k] # NoRow,
                    target'[t][k].batch \in checkpoint'.completed, Untied(t, k)'
             PROVE  ledger'[target'[t][k].id] \in ExplainingOutcomes
  BY DEF LedgerExplainsRows
<1> DEFINE row == target[t][k]
<1>1. /\ TypeOK /\ TypeOK' /\ t \in Tables /\ checkpoint.completed \subseteq Batches
      /\ SnapshotBatch \notin Batches
  <2>1. TypeOK /\ Scope
    BY AtWork DEF Ordered
  <2>2. TypeOK'
    BY <2>1, StepTyped
  <2>3. t \in Tables
    BY <2>2 DEF TypeOK
  <2>4. checkpoint.completed \subseteq Batches
    BY AtWork
  <2>5. SnapshotBatch \notin Batches
    BY LimitsAssumption DEF Batches, SnapshotBatch
  <2>6. QED
    BY <2>1, <2>2, <2>3, <2>4, <2>5
<1>2. CASE \E u \in Tables : InitializeTable(u)
  <2>1. PICK u \in Tables : InitializeTable(u)
    BY <1>2
  <2>2. /\ ready' = ready \cup {u} /\ UNCHANGED <<ledger, checkpoint>>
        /\ target' = [target EXCEPT ![u] = Snapshot[u]] /\ target \in [Tables -> Rows]
    BY <1>1, <2>1 DEF InitializeTable, TypeOK
  <2>3. t # u
    BY <1>1, <2>2, SnapshotAssumption
  <2>4. target'[t] = target[t] /\ t \in ready
    BY <1>1, <2>2, <2>3
  <2>5. Untied(t, k)
    BY <1>1, <2>4, UntiedBefore
  <2>6. QED
    BY <2>2, <2>4, <2>5 DEF LedgerExplainsRows
<1>3. CASE \E u \in Tables : MergeTable(u)
  <2>1. PICK u \in Tables : MergeTable(u)
    BY <1>3
  <2>2. /\ UNCHANGED <<ready, ledger, checkpoint>> /\ batch \notin checkpoint.completed
        /\ target' = [target EXCEPT ![u] = Merge(target[u], Delivered(batch, u), batch)]
        /\ target \in [Tables -> Rows]
    BY <1>1, <2>1, AtWork DEF MergeTable, Delivered, InBatch, TypeOK
  <2>3. target'[t][k] = row
    <3>1. CASE t # u
      BY <2>2, <3>1
    <3>2. CASE t = u
      <4>1. target'[t][k] = Merge(target[t], Delivered(batch, t), batch)[k]
        BY <1>1, <2>2, <3>2
      <4>2. CASE \E w \in Applied(target[t], Delivered(batch, t), k) :
                   target'[t][k] = MergedRow(row, w, batch)
        BY <2>2, <4>2, MergedRowReflects
      <4>3. QED
        BY <4>1, <4>2, MergeAt
    <3>3. QED
      BY <3>1, <3>2
  <2>4. Untied(t, k)
    BY <1>1, <2>3, UntiedBefore
  <2>5. QED
    BY <2>2, <2>3, <2>4 DEF LedgerExplainsRows
<1>4. CASE UpsertLedger
  <2>1. /\ pc = "read" /\ pending = {} /\ UNCHANGED <<ready, target, checkpoint>> /\ InBatch
        /\ ledger' = Upsert(ledger, staged)
    BY <1>4 DEF UpsertLedger, InBatch
  <2>2. Untied(t, k)
    BY <1>1, <2>1, UntiedBefore
  <2>3. ledger[row.id] \in ExplainingOutcomes
    BY <2>1, <2>2 DEF LedgerExplainsRows
  <2>4. staged[row.id] \in ExplainingOutcomes \cup {NoEntry}
    BY <1>1, <2>1, <2>2 DEF OutcomeOrder, Visited
  <2>5. row.id \in EventIds
    <3>1. row.batch # SnapshotBatch /\ merged[t] \subseteq 1..Len(cdc)
      BY <1>1, <2>1 DEF InductiveInvariant, MergeOrder
    <3>2. PICK b \in merged[t] : \E r \in Delivered(b, t) : r.id = row.id
      BY <2>1, <3>1, RowOrigin
    <3>3. QED
      BY <1>1, <3>1, <3>2, DeliveredType
  <2>6. ledger'[row.id] = IF staged[row.id] # NoEntry THEN staged[row.id] ELSE ledger[row.id]
    BY <2>1, <2>5 DEF Upsert
  <2>7. QED
    BY <2>1, <2>3, <2>4, <2>6
<1>5. CASE CommitBatch
  <2>1. /\ pc = "metrics" /\ UNCHANGED <<cdc, ready, target, ledger>> /\ InBatch
        /\ checkpoint'.completed \subseteq checkpoint.completed \cup {batch}
    BY <1>5 DEF CommitBatch, InBatch
  <2>2. Untied(t, k)
    BY <1>1, <2>1, UntiedBefore
  <2>3. CASE row.batch \in checkpoint.completed
    BY <2>1, <2>2, <2>3 DEF LedgerExplainsRows
  <2>4. CASE row.batch = batch
    <3>1. batch # SnapshotBatch /\ batch \in 1..Len(cdc)
      BY <1>1, <2>1, AtWork
    <3>2. PICK r \in Delivered(batch, t) : r.id = row.id
      BY <2>1, <2>4, <3>1, RowOrigin
    <3>3. r.id \in EventIds /\ staged[r.id] # NoEntry
      BY <1>1, <2>1, <3>1, DeliveredType DEF InductiveInvariant, EffectsOrder, HasEntries
    <3>4. ledger[row.id] = staged[row.id] /\ staged[row.id] # NoEntry
      BY <2>1, <3>2, <3>3 DEF StagedOrder
    <3>5. staged[row.id] \in ExplainingOutcomes \cup {NoEntry}
      BY <1>1, <2>1, <2>2, <2>4 DEF OutcomeOrder, Visited
    <3>6. QED
      BY <2>1, <3>4, <3>5
  <2>5. QED
    BY <2>1, <2>3, <2>4
<1>6. CASE UNCHANGED <<ready, target, ledger, checkpoint>>
  <2>1. Untied(t, k)
    BY <1>1, <1>6, UntiedBefore
  <2>2. QED
    BY <1>6, <2>1 DEF LedgerExplainsRows
<1>7. \/ Land \/ Crash \/ Between \/ UNCHANGED vars
      \/ (\E b \in Batches : BeginBatch(b))
      \/ (\E u \in Tables : SkipTable(u) \/ ReadTable(u) \/ RecordMetrics(u))
      => UNCHANGED <<ready, target, ledger, checkpoint>>
  BY DEF Land, Crash, Between, vars, durable, BeginBatch, SkipTable, ReadTable, RecordMetrics
<1>8. QED
  BY StepKinds, <1>2, <1>3, <1>4, <1>5, <1>6, <1>7

-----------------------------------------------------------------------------
(***************************************************************************)
(* The theorems.                                                           *)
(***************************************************************************)

\* Before anything lands there is nothing to account for.
LEMMA InitAccounts == Init => AccountingInvariant
<1> SUFFICES ASSUME Init PROVE AccountingInvariant
  OBVIOUS
<1>1. ~ InBatch /\ pc # "metrics"
  BY DEF Init, InBatch
<1>2. MarkOrder /\ StagedOrder /\ OutcomeOrder
  BY <1>1 DEF MarkOrder, StagedOrder, OutcomeOrder
<1>3. HighWaterMarkExact
  <2>1. \A t \in Tables : {0} \cup {HighestSequence(cdc[b][t]) : b \in checkpoint.completed} = {0}
    BY DEF Init
  <2>2. Max({0, 0}) = 0 /\ {0, 0} = {0}
    BY MaxWithZero
  <2>3. QED
    BY <2>1, <2>2 DEF Init, NoMarks, HighWaterMarkExact
<1>4. AttemptOrder
  BY DEF Init, AttemptOrder
<1>5. LeftoverOrder /\ RecoveryImpliesCrash
  BY NoEntryAssumption DEF Init, LeftoverOrder, RecoveryImpliesCrash, NoEntries, Outcomes
<1>6. MetricsMatchLedger /\ LedgerExplainsRows
  BY DEF Init, MetricsMatchLedger, LedgerExplainsRows
<1>7. QED
  BY <1>2, <1>3, <1>4, <1>5, <1>6 DEF AccountingInvariant

\* The accounts hold together, whatever is redelivered and wherever the process
\* dies.
THEOREM Accounts == Spec => []AccountingInvariant
<1>1. InductiveInvariant /\ AccountingInvariant /\ [Next]_vars => AccountingInvariant'
  BY StepMarks, StepAttempts, StepLeftovers, StepStaged, StepMetrics, StepOutcomes, StepExplained
     DEF AccountingInvariant
<1>2. QED
  BY InitAccounts, Invariant, <1>1, PTL DEF Spec

\* The mark commit_batch records for a table is the highest sequence of the
\* completed batches, however late a batch with low sequences comes.
THEOREM MarksExact == Spec => []HighWaterMarkExact
<1>1. AccountingInvariant => HighWaterMarkExact
  BY DEF AccountingInvariant
<1>2. QED
  BY Accounts, <1>1, PTL

\* commit_batch never refuses the marks apply_batch gives it: its check that a
\* mark does not go backwards cannot end a run.
THEOREM CommitAccepts == Spec => [](pc = "metrics" => Advances(stagedHwm))
<1>1. InductiveInvariant /\ AccountingInvariant => (pc = "metrics" => Advances(stagedHwm))
  BY MarksAdvance DEF AccountingInvariant
<1>2. QED
  BY Accounts, Invariant, <1>1, PTL

\* The rejected rows of a file are in the quarantine at most once for each
\* attempt at its batch: every attempt but the last ended in a crash.
THEOREM QuarantineBounded == Spec => []QuarantineOncePerAttempt
<1>1. InductiveInvariant /\ AccountingInvariant => QuarantineOncePerAttempt
  <2> SUFFICES ASSUME TypeOK, AttemptOrder PROVE QuarantineOncePerAttempt
    BY AtWork DEF AccountingInvariant
  <2>1. crashes \in Nat /\ quarantine \in [Batches -> [Tables -> Nat]]
    BY DEF TypeOK
  <2>2. QED
    BY <2>1 DEF AttemptOrder, QuarantineOncePerAttempt
<1>2. QED
  BY Accounts, Invariant, <1>1, PTL

\* The classification RECOVERED_AFTER_PARTIAL_COMMIT is evidence of a crash
\* between a MERGE and the ledger.
THEOREM RecoveryIsEvidence == Spec => []RecoveryImpliesCrash
<1>1. AccountingInvariant => RecoveryImpliesCrash
  BY DEF AccountingInvariant
<1>2. QED
  BY Accounts, <1>1, PTL

\* The metrics and the ledger of a completed batch agree on every event that was
\* not seen again.
THEOREM MetricsAgree == Spec => []MetricsMatchLedger
<1>1. AccountingInvariant => MetricsMatchLedger
  BY DEF AccountingInvariant
<1>2. QED
  BY Accounts, <1>1, PTL

\* The event an untied row carries is in the ledger as applied once its batch is
\* complete, whatever is redelivered or retried afterwards.
THEOREM RowsExplained == Spec => []LedgerExplainsRows
<1>1. AccountingInvariant => LedgerExplainsRows
  BY DEF AccountingInvariant
<1>2. QED
  BY Accounts, <1>1, PTL
=============================================================================
