---------------------------- MODULE Replay_proofs ----------------------------
(***************************************************************************)
(* The correction lane keeps the history, the queue and the audit of the   *)
(* subscriptions true to the stored events, whatever the forward lane, the *)
(* backfill and faults do between its steps.                               *)
(***************************************************************************)
EXTENDS Replay, History_proofs

-----------------------------------------------------------------------------
(***************************************************************************)
(* The data the steps work on.                                             *)
(***************************************************************************)
\* A landed file holds lines of the feed.
LEMMA FileType ==
  ASSUME TypeOK, NEW b \in 1..Len(cdc), NEW t \in Tables
  PROVE  cdc[b] \in BatchContents /\ cdc[b][t] \subseteq Records
<1>1. cdc[b] \in BatchContents
  BY ElementOfSeq DEF TypeOK
<1>2. QED
  BY <1>1, ContentsAssumption DEF BatchFiles

\* What the store takes from a file are valid lines of the feed.
LEMMA DeliveredType ==
  ASSUME NEW file, file \subseteq Records
  PROVE  /\ Deduplicated(file) \subseteq Records /\ Deduplicated(file) \subseteq Record
         /\ OnePerId(Deduplicated(file))
<1>1. Deduplicated(file) \subseteq file
  BY DEF Deduplicated, Accepted
<1>2. OnePerId(Deduplicated(file))
  BY DeduplicatedIdsDiffer DEF OnePerId
<1>3. QED
  BY <1>1, <1>2, RecordsAssumption

\* The forward lane merges typed events.
LEMMA ForwardType ==
  ASSUME TypeOK, NEW b \in 1..Len(cdc)
  PROVE  ForwardParsed(b) \subseteq Record
<1>1. cdc[b][Subscriptions] \subseteq Records
  BY FileType, SubscriptionsAssumption
<1>2. ASSUME NEW r \in Parsed(cdc[b][Subscriptions], Subscriptions)
      PROVE  [r EXCEPT !.val = V1Only(r.val)] \in Record
  <2>1. r \in Record
    BY <1>1, ParsedType, SubscriptionsAssumption
  <2>2. r.val \in Payload /\ Vals = Payload
    BY <2>1, PayloadAssumption DEF Record
  <2>3. V1Only(r.val) \in Vals
    BY <2>2 DEF V1Only, Payload, Attributes
  <2>4. QED
    BY <2>1, <2>3 DEF Record
<1>3. QED
  BY <1>2 DEF ForwardParsed

\* What is queued is a stored event of the table.
LEMMA EventStored ==
  ASSUME TypeOK, StoreInOrder, QueueStored, NEW i \in EventIds, queue[i] # NoEntry
  PROVE  /\ Event(i) \in store /\ Event(i).id = i /\ Event(i).table = Subscriptions
         /\ Event(i) \in Record /\ Event(i).key \in Keys
         /\ Event(i) \in Stored(Event(i).key)
<1>1. PICK r \in store : r.id = i /\ r.table = Subscriptions
  BY DEF QueueStored
<1>2. Event(i) \in store /\ Event(i).id = i
  BY <1>1 DEF Event
<1>3. Event(i) = r
  BY <1>1, <1>2 DEF StoreInOrder, OnePerId
<1>4. Event(i) \in Record
  BY <1>2, RecordsAssumption DEF TypeOK
<1>5. QED
  BY <1>1, <1>2, <1>3, <1>4 DEF Record, Stored

\* The stored events of a key.
LEMMA StoredType ==
  ASSUME TypeOK, StoreInOrder, NEW k
  PROVE  Stored(k) \subseteq Record /\ OnePerId(Stored(k))
  BY RecordsAssumption DEF TypeOK, Stored, StoreInOrder, OnePerId

\* The item a replay works on, as long as it does.
LEMMA ItemQueued ==
  ASSUME TypeOK, StoreInOrder, QueueStored, WorkPending, pc \notin {"idle", "next"}
  PROVE  /\ item \in EventIds /\ queue[item] \in Item /\ queue[item] # NoEntry
         /\ queue[item].status = "PENDING" /\ queue[item].attempts \in Nat
         /\ Event(item) \in store /\ Event(item).id = item /\ Key \in Keys
         /\ Event(item) \in Stored(Key)
<1>1. /\ item \in EventIds /\ queue[item] # NoEntry /\ queue[item].status = "PENDING"
  BY DEF WorkPending
<1>2. queue[item] \in Item
  BY <1>1 DEF TypeOK
<1>3. queue[item].attempts \in Nat
  BY <1>2 DEF Item
<1>4. QED
  BY <1>1, <1>2, <1>3, EventStored DEF Key

-----------------------------------------------------------------------------
(***************************************************************************)
(* Type correctness, step by step.                                         *)
(***************************************************************************)
\* The forward lane and the backfill.
LEMMA TypeForward ==
  ASSUME TypeOK, Land \/ ApplyBatch \/ Migrate
  PROVE  TypeOK'
<1>1. CASE Land
  <2>1. PICK files \in BatchContents : cdc' = Append(cdc, files)
    BY <1>1 DEF Land
  <2>2. cdc' \in Seq(BatchContents) /\ Len(cdc') = Len(cdc) + 1 /\ Len(cdc) \in Nat
    BY <2>1 DEF TypeOK
  <2>3. applied' \in 0..Len(cdc') /\ Len(cdc') <= MaxBatches
    BY <1>1, <2>2, ReplayLimitsAssumption DEF TypeOK, Land
  <2>4. QED
    BY <1>1, <2>2, <2>3 DEF TypeOK, Land, tables, process
<1>2. CASE ApplyBatch
  <2>1. applied \in Nat /\ Len(cdc) \in Nat /\ applied + 1 \in 1..Len(cdc)
    BY <1>2 DEF TypeOK, ApplyBatch
  <2>2. ForwardParsed(applied + 1) \subseteq Record
    BY <2>1, ForwardType
  <2>3. current' \in Rows
    BY <1>2, <2>1, <2>2, MergeType DEF TypeOK, ApplyBatch
  <2>4. applied' \in 0..Len(cdc')
    BY <1>2, <2>1 DEF ApplyBatch
  <2>5. QED
    BY <1>2, <2>3, <2>4 DEF TypeOK, ApplyBatch, tables, process
<1>3. CASE Migrate
  BY <1>3 DEF TypeOK, Migrate, tables, process
<1>4. QED
  BY <1>1, <1>2, <1>3

\* The bounds of the batches are the model's.
LEMMA LandedIsBatch ==
  ASSUME TypeOK
  PROVE  1..Len(cdc) \subseteq Batches
  BY ReplayLimitsAssumption DEF TypeOK, Batches

\* The backfill.
LEMMA TypeBackfill ==
  ASSUME TypeOK, BackfillInOrder, Backfill
  PROVE  TypeOK'
<1>1. CASE StartBackfill
  <2>1. backlog' \subseteq Batches \X Tables
    BY <1>1, LandedIsBatch DEF StartBackfill
  <2>2. QED
    BY <1>1, <2>1 DEF TypeOK, StartBackfill, lane, tables, process
<1>2. CASE CrashBackfill
  BY <1>2, ReplayLimitsAssumption DEF TypeOK, CrashBackfill, lane, tables, process
<1>3. ASSUME NEW b \in Batches, NEW t \in Tables, BackfillFile(b, t) PROVE TypeOK'
  <2>1. b \in 1..Len(cdc)
    BY <1>3 DEF BackfillFile, BackfillInOrder
  <2>2. Deduplicated(cdc[b][t]) \subseteq Records
    BY <2>1, FileType, DeliveredType
  <2>3. Upserted(Deduplicated(cdc[b][t])) \subseteq Records
    BY <2>2 DEF Upserted, TypeOK
  <2>4. store' \subseteq Records /\ backlog' \subseteq backlog
    BY <1>3, <2>3 DEF BackfillFile
  <2>5. QED
    BY <1>3, <2>4 DEF TypeOK, BackfillFile, lane, process
<1>4. QED
  BY <1>1, <1>2, <1>3 DEF Backfill

\* Seeding and detection.
LEMMA TypeSeedDetect ==
  ASSUME TypeOK, InitHistory \/ DetectLate
  PROVE  TypeOK'
<1>1. CASE InitHistory
  <2>1. ASSUME NEW k \in Keys, Baseline[k] # NoRow PROVE BaseVersion(Baseline[k]) \in Version
    BY <2>1, BaselineAssumption, BaseVersionType
  <2>2. history' \in [Keys -> SUBSET Version]
    BY <1>1, <2>1 DEF InitHistory
  <2>3. QED
    BY <1>1, <2>2 DEF TypeOK, InitHistory, lane, process
<1>2. CASE DetectLate
  <2>1. NewItem \in Item
    BY DEF NewItem, Item, Settled
  <2>2. queue' \in [EventIds -> Item \cup {NoEntry}]
    BY <1>2, <2>1 DEF DetectLate, Enqueued, TypeOK
  <2>3. QED
    BY <1>2, <2>2 DEF TypeOK, DetectLate, lane, process
<1>3. QED
  BY <1>1, <1>2

\* The timeline a replay reads.
LEMMA ReadTimeline ==
  ASSUME TypeOK, StoreInOrder, NEW k \in Keys, Baseline[k] # NoRow
  PROVE  LET t == Timeline(Baseline[k], Stored(k))
         IN  /\ t \in Seq(Version) /\ Len(t) \in Nat /\ Len(t) >= 1
             /\ t[1].from = Baseline[k].seq
             /\ \A r \in Stored(k) : \E n \in 2..Len(t) : t[n].from = r.seq /\ t[n].id = r.id
             /\ \A n \in 2..Len(t) : \E r \in Stored(k) : t[n].from = r.seq
<1>1. Baseline[k] \in SnapshotRow
  BY BaselineAssumption
<1>2. Stored(k) \subseteq Record /\ OnePerId(Stored(k))
  BY StoredType
<1> DEFINE S == Stored(k)
           row == Baseline[k]
<1> HIDE DEF S, row
<1>3. row \in SnapshotRow /\ S \subseteq Record /\ OnePerId(S)
  BY <1>1, <1>2 DEF S, row
<1>4. LET t == Timeline(row, S)
      IN  /\ t \in Seq(Version) /\ Len(t) \in Nat /\ Len(t) >= 1
          /\ t[1].from = row.seq
          /\ \A r \in S : \E n \in 2..Len(t) : t[n].from = r.seq /\ t[n].id = r.id
          /\ \A n \in 2..Len(t) : \E r \in S : t[n].from = r.seq /\ t[n].id = r.id
  BY <1>3, TimelineHolds
<1>5. QED
  BY <1>4 DEF S, row

\* The replay takes an item and reads its key.
LEMMA TypeRead ==
  ASSUME TypeOK, StoreInOrder, QueueStored, WorkPending, NEW i \in EventIds, ReadKey(i)
  PROVE  TypeOK'
<1> DEFINE k == Event(i).key
           t == Timeline(Baseline[k], Stored(k))
<1>1. queue[i] # NoEntry
  BY DEF ReadKey, Take, WorkPending
<1>2. k \in Keys
  BY <1>1, EventStored
<1>3. Baseline[k] # NoRow => t \in Seq(Version)
  BY <1>2, ReadTimeline
<1> HIDE DEF k, t
<1>4. timeline' \in Seq(Version) /\ outcome' \in Settled \cup {NoEntry} /\ pc' \in {"validate", "audit"}
  BY <1>3 DEF ReadKey, Take, TypeOK, Settled, k, t
<1>5. work' \subseteq EventIds /\ item' \in EventIds
  BY DEF ReadKey, Take, TypeOK
<1>6. /\ cdc' = cdc /\ applied' = applied /\ current' = current /\ migrated' = migrated
      /\ columns' = columns /\ store' = store /\ seeded' = seeded /\ history' = history
      /\ queue' = queue /\ audit' = audit /\ backlog' = backlog /\ repair' = repair
      /\ faults' = faults
  BY DEF ReadKey, Take, lane, tables
<1>7. QED
  BY <1>4, <1>5, <1>6 DEF TypeOK

\* What replay relies on, besides the types, of the steps before.
Ready ==
  /\ TypeOK /\ StoreInOrder /\ QueueStored /\ WorkPending /\ TimelineRead /\ RowsFromBaseline

\* The timeline in hand, its newest version and the row it is checked against.
LEMMA InHand ==
  ASSUME Ready, Replacing
  PROVE  /\ timeline \in Seq(Version) /\ Len(timeline) \in Nat /\ Len(timeline) >= 1
         /\ \A n \in 1..Len(timeline) : timeline[n] \in Version /\ timeline[n].from \in Nat
         /\ Last(timeline) = timeline[Len(timeline)] /\ Last(timeline) \in Version
         /\ ToSet(timeline) = {timeline[n] : n \in 1..Len(timeline)}
         /\ Key \in Keys /\ Baseline[Key] # NoRow
         /\ current[Key] \in Row /\ current[Key] # NoRow /\ current[Key].seq \in Nat
<1>1. timeline \in Seq(Version) /\ Len(timeline) \in Nat /\ Len(timeline) >= 1
  BY DEF Ready, TypeOK, TimelineRead
<1>2. \A n \in 1..Len(timeline) : timeline[n] \in Version
  BY <1>1, ElementOfSeq
<1>3. \A n \in 1..Len(timeline) : timeline[n].from \in Nat
  BY <1>2, BoundsAssumption DEF Version
<1>4. Last(timeline) = timeline[Len(timeline)] /\ Last(timeline) \in Version
  BY <1>1, <1>2 DEF Last
<1>5. ToSet(timeline) = {timeline[n] : n \in 1..Len(timeline)}
  BY <1>1 DEF ToSet
<1>6. pc \notin {"idle", "next"}
  BY DEF Replacing
<1>7. Key \in Keys
  BY <1>6, ItemQueued DEF Ready
<1>8. Baseline[Key] # NoRow
  BY DEF Ready, TimelineRead
<1>9. current[Key] \in Row /\ current[Key] # NoRow
  BY <1>7, <1>8 DEF Ready, RowsFromBaseline, TypeOK, Rows
<1>10. current[Key].seq \in Nat
  BY <1>9, BoundsAssumption DEF Row
<1>11. QED
  BY <1>1, <1>2, <1>3, <1>4, <1>5, <1>7, <1>8, <1>9, <1>10

\* The repair writes the newest version into the row of the key, and no other.
LEMMA RepairWrites ==
  ASSUME Ready, Repair, Valid(timeline)
  PROVE  /\ current' \in Rows /\ current'[Key] # NoRow
         /\ current'[Key].seq = Last(timeline).from
         /\ \A k \in Keys : k # Key => current'[k] = current[k]
         /\ columns' \in [Keys -> Cycles \cup {Null}]
<1> DEFINE newest == Last(timeline)
           row == current[Key]
           val == V1Only(newest.val)
           new == [row EXCEPT !.seq = newest.from, !.id = newest.id, !.deleted = newest.deleted,
                              !.val = val]
<1>1. /\ newest \in Version /\ Key \in Keys /\ row \in Row
  BY InHand DEF Replacing, Repair
<1>2. val \in Vals
  BY <1>1, PayloadAssumption DEF V1Only, Version, Attributes, Payload
<1>3. new \in Row /\ new.seq = newest.from
  BY <1>1, <1>2 DEF Row, Version
<1>4. current \in Rows /\ columns \in [Keys -> Cycles \cup {Null}]
  BY DEF Ready, TypeOK
<1>5. current' = [current EXCEPT ![Key] = new]
  BY <1>1, <1>4 DEF Repair, Rows
<1> HIDE DEF new
<1>6. current' \in Rows /\ current'[Key] = new
  BY <1>1, <1>3, <1>4, <1>5 DEF Rows
<1>7. \A k \in Keys : k # Key => current'[k] = current[k]
  BY <1>4, <1>5 DEF Rows
<1>8. newest.val.cycle \in Cycles \cup {Null}
  BY <1>1 DEF Version, Attributes
<1>9. columns' \in [Keys -> Cycles \cup {Null}]
  BY <1>4, <1>8 DEF Repair
<1>10. QED
  BY <1>3, <1>6, <1>7, <1>9, NoRowAssumption

\* The replay starts, checks the timeline and repairs the row.
LEMMA TypeCheck ==
  ASSUME Ready, Validate \/ Repair \/ (\E r \in Repairs : StartReplay(r)) \/ FinishReplay
  PROVE  TypeOK'
<1>1. TypeOK
  BY DEF Ready
<1>2. CASE Validate
  BY <1>1, <1>2 DEF TypeOK, Validate, Fail, Settled, lane, tables
<1>3. CASE Repair
  <2>1. current' \in Rows /\ columns' \in [Keys -> Cycles \cup {Null}]
    <3>1. CASE Valid(timeline)
      BY <1>3, <3>1, RepairWrites
    <3>2. CASE ~ Valid(timeline)
      BY <1>1, <1>3, <3>2 DEF Repair, TypeOK
    <3>3. QED
      BY <3>1, <3>2
  <2>2. outcome' \in Settled \cup {NoEntry} /\ pc' \in {"delete", "audit"}
    BY <1>1, <1>3 DEF Repair, Fail, TypeOK, Settled
  <2>3. QED
    BY <1>1, <1>3, <2>1, <2>2 DEF TypeOK, Repair, tables
<1>4. ASSUME NEW r \in Repairs, StartReplay(r) PROVE TypeOK'
  <2>1. r \in BOOLEAN /\ Pending \subseteq EventIds
    BY RepairsAssumption DEF Pending
  <2>2. QED
    BY <1>1, <1>4, <2>1 DEF TypeOK, StartReplay, lane, tables
<1>5. CASE FinishReplay
  BY <1>1, <1>5 DEF TypeOK, FinishReplay, lane, tables
<1>6. QED
  BY <1>2, <1>3, <1>4, <1>5

\* The replay replaces the history.
LEMMA TypeReplace ==
  ASSUME Ready, DeleteHistory \/ AppendHistory
  PROVE  TypeOK'
<1>1. TypeOK
  BY DEF Ready
<1>2. history' \in [Keys -> SUBSET Version]
  <2>1. CASE DeleteHistory
    BY <1>1, <2>1 DEF DeleteHistory, TypeOK
  <2>2. CASE AppendHistory
    <3>1. ToSet(timeline) \subseteq Version /\ Key \in Keys
      BY <2>2, InHand DEF AppendHistory, Replacing
    <3>2. QED
      BY <1>1, <2>2, <3>1 DEF AppendHistory, TypeOK
  <2>3. QED
    BY <2>1, <2>2
<1>3. outcome' \in Settled \cup {NoEntry} /\ pc' \in {"append", "audit"}
  BY <1>1 DEF DeleteHistory, AppendHistory, Fail, TypeOK, Settled
<1>4. /\ cdc' = cdc /\ applied' = applied /\ current' = current /\ migrated' = migrated
      /\ columns' = columns /\ store' = store /\ seeded' = seeded
      /\ queue' = queue /\ audit' = audit /\ backlog' = backlog /\ repair' = repair
      /\ work' = work /\ item' = item /\ timeline' = timeline /\ faults' = faults
  BY DEF DeleteHistory, AppendHistory, lane
<1>5. QED
  BY <1>1, <1>2, <1>3, <1>4 DEF TypeOK

\* The replay records the outcome.
LEMMA TypeRecord ==
  ASSUME Ready, RecordAudit \/ UpdateQueue
  PROVE  TypeOK'
<1>1. TypeOK
  BY DEF Ready
<1>2. /\ item \in EventIds /\ queue[item] \in Item /\ queue[item].attempts \in Nat
      /\ outcome \in Settled
  <2>1. pc \in {"audit", "queue"}
    BY DEF RecordAudit, UpdateQueue
  <2>2. pc \notin {"idle", "next"}
    BY <2>1
  <2>3. QED
    BY <2>1, <2>2, ItemQueued DEF Ready, WorkPending
<1>3. CASE RecordAudit
  <2>1. [status |-> outcome, attempt |-> queue[item].attempts + 1] \in [status : Settled, attempt : Nat]
    BY <1>2
  <2>2. audit' \in [EventIds -> [status : Settled, attempt : Nat] \cup {NoEntry}]
    BY <1>1, <1>3, <2>1 DEF RecordAudit, TypeOK
  <2>3. QED
    BY <1>1, <1>3, <2>2 DEF TypeOK, RecordAudit, lane
<1>4. CASE UpdateQueue
  <2>1. [status |-> outcome, attempts |-> queue[item].attempts + 1] \in Item
    BY <1>2 DEF Item
  <2>2. queue' \in [EventIds -> Item \cup {NoEntry}]
    BY <1>1, <1>2, <1>4, <2>1 DEF UpdateQueue, TypeOK
  <2>3. timeline' \in Seq(Version)
    BY <1>4 DEF UpdateQueue
  <2>4. QED
    BY <1>1, <1>4, <2>2, <2>3 DEF TypeOK, UpdateQueue, lane
<1>5. QED
  BY <1>3, <1>4

\* A step fails, or the process dies.
LEMMA TypeFault ==
  ASSUME TypeOK, StepFails \/ CrashReplay
  PROVE  TypeOK'
<1>1. faults + 1 \in 0..MaxFaults
  BY ReplayLimitsAssumption DEF TypeOK, StepFails, CrashReplay
<1>2. CASE StepFails
  BY <1>1, <1>2 DEF TypeOK, StepFails, Trying, Take, Fail, Settled, lane, tables
<1>3. CASE CrashReplay
  <2>1. timeline' \in Seq(Version)
    BY <1>3 DEF CrashReplay
  <2>2. QED
    BY <1>1, <1>3, <2>1 DEF TypeOK, CrashReplay, lane, tables
<1>4. QED
  BY <1>2, <1>3

-----------------------------------------------------------------------------
(***************************************************************************)
(* The event store.                                                        *)
(***************************************************************************)
\* Files have one order.
LEMMA FilesOrdered ==
  ASSUME NEW b \in Nat, NEW t \in Tables, NEW c \in Nat, NEW u \in Tables
  PROVE  /\ FileBefore(<<b, t>>, <<b, t>>)
         /\ FileBefore(<<b, t>>, <<c, u>>) \/ FileBefore(<<c, u>>, <<b, t>>)
         /\ FileBefore(<<b, t>>, <<c, u>>) /\ FileBefore(<<c, u>>, <<b, t>>) => b = c /\ t = u
         /\ FileBefore(<<b, t>>, <<c, u>>) => b <= c
<1>1. TableRank[t] \in Nat /\ TableRank[u] \in Nat
  BY TablesAssumption
<1>2. TableRank[t] = TableRank[u] => t = u
  BY TablesAssumption
<1>3. QED
  BY <1>1, <1>2 DEF FileBefore

\* Who writes the store.
LEMMA StoreFrame ==
  ASSUME [Next]_vars
  PROVE  Land \/ Backfill \/ (cdc' = cdc /\ store' = store /\ backlog' = backlog)
<1>1. CASE ApplyBatch \/ Migrate \/ InitHistory \/ DetectLate
  BY <1>1 DEF ApplyBatch, Migrate, InitHistory, DetectLate, tables, lane
<1>2. CASE (\E r \in Repairs : StartReplay(r)) \/ StepFails \/ CrashReplay
  BY <1>2 DEF StartReplay, StepFails, CrashReplay, tables, lane
<1>3. CASE ReplayStep
  BY <1>3 DEF ReplayStep, ReadKey, Take, Validate, Repair, DeleteHistory, AppendHistory, RecordAudit,
              UpdateQueue, FinishReplay, tables, lane
<1>4. CASE UNCHANGED vars
  BY <1>4 DEF vars, lane, tables
<1>5. QED
  BY <1>1, <1>2, <1>3, <1>4 DEF Next

\* Where each stored event is from does not depend on the backfill.
LEMMA OrderStays ==
  ASSUME StoreInOrder, cdc' = cdc, store' = store
  PROVE  StoreInOrder'
<1>1. \A r, b, t : FirstDeliveredBy(r, b, t) => FirstDeliveredBy(r, b, t)'
  BY DEF FirstDeliveredBy
<1>2. OnePerId(store) /\ \A r \in store : \E b \in 1..Len(cdc), t \in Tables : FirstDeliveredBy(r, b, t)
  BY DEF StoreInOrder
<1>3. \A r \in store : \E b \in 1..Len(cdc), t \in Tables : FirstDeliveredBy(r, b, t)'
  BY <1>1, <1>2
<1>4. QED
  BY <1>2, <1>3 DEF StoreInOrder

\* A batch that lands comes after all files there are.
LEMMA LandKeepsStore ==
  ASSUME TypeOK, StoreInvariant, Land
  PROVE  StoreInvariant'
<1>1. PICK files \in BatchContents : cdc' = Append(cdc, files)
  BY DEF Land
<1>2. /\ Len(cdc) \in Nat /\ Len(cdc') = Len(cdc) + 1
      /\ \A c \in 1..Len(cdc) : cdc'[c] = cdc[c]
  BY <1>1 DEF TypeOK
<1>3. store' = store /\ backlog' = backlog
  BY DEF Land, tables
<1>4. BackfillInOrder'
  <2>1. backlog \subseteq (1..Len(cdc')) \X Tables
    BY <1>2 DEF StoreInvariant, BackfillInOrder
  <2>2. ASSUME NEW g \in backlog, NEW c \in 1..Len(cdc'), NEW u \in Tables,
               FileBefore(<<c, u>>, g), <<c, u>> \notin backlog
        PROVE  \A s \in Deduplicated(cdc'[c][u]) : \E r \in store : r.id = s.id
    <3>1. PICK b \in 1..Len(cdc), t \in Tables : g = <<b, t>>
      BY DEF StoreInvariant, BackfillInOrder
    <3>2. c <= b
      <4>1. c \in Nat /\ b \in Nat
        BY <1>2
      <4>2. QED
        BY <4>1, <2>2, <3>1, FilesOrdered
    <3>3. c \in 1..Len(cdc)
      BY <1>2, <3>2
    <3>4. QED
      BY <1>2, <2>2, <3>3 DEF StoreInvariant, BackfillInOrder
  <2>3. QED
    BY <1>3, <2>1, <2>2 DEF BackfillInOrder
<1>5. StoreInOrder'
  <2>1. ASSUME NEW r \in store
        PROVE  \E b \in 1..Len(cdc'), t \in Tables : FirstDeliveredBy(r, b, t)'
    <3>1. PICK b \in 1..Len(cdc), t \in Tables : FirstDeliveredBy(r, b, t)
      BY DEF StoreInvariant, StoreInOrder
    <3>2. ASSUME NEW c \in 1..Len(cdc'), NEW u \in Tables,
                 FileBefore(<<c, u>>, <<b, t>>), <<c, u>> # <<b, t>>
          PROVE  \A s \in Deduplicated(cdc'[c][u]) : s.id # r.id
      <4>1. c \in Nat /\ b \in Nat
        BY <1>2
      <4>2. c <= b
        BY <4>1, <3>2, FilesOrdered
      <4>3. c \in 1..Len(cdc)
        BY <1>2, <4>2
      <4>4. QED
        BY <1>2, <3>1, <3>2, <4>3 DEF FirstDeliveredBy
    <3>3. r \in Deduplicated(cdc'[b][t])
      BY <1>2, <3>1 DEF FirstDeliveredBy
    <3>4. FirstDeliveredBy(r, b, t)'
      BY <3>2, <3>3 DEF FirstDeliveredBy
    <3>5. QED
      BY <1>2, <3>4
  <2>2. QED
    BY <1>3, <2>1 DEF StoreInvariant, StoreInOrder
<1>6. QED
  BY <1>4, <1>5 DEF StoreInvariant

\* A file goes into the store whole, or not at all.
LEMMA FileKeepsStore ==
  ASSUME TypeOK, StoreInvariant, NEW b \in Batches, NEW t \in Tables, BackfillFile(b, t)
  PROVE  StoreInvariant' /\ store \subseteq store'
<1> DEFINE D == Deduplicated(cdc[b][t])
           new == {r \in D : \A s \in store : s.id # r.id}
<1>1. /\ <<b, t>> \in backlog /\ \A g \in backlog : FileBefore(<<b, t>>, g)
      /\ b \in 1..Len(cdc) /\ cdc' = cdc /\ Len(cdc) \in Nat
  <2>1. /\ <<b, t>> \in backlog /\ \A g \in backlog : FileBefore(<<b, t>>, g) /\ cdc' = cdc
    BY DEF BackfillFile, lane
  <2>2. b \in 1..Len(cdc)
    BY <2>1 DEF StoreInvariant, BackfillInOrder
  <2>3. Len(cdc) \in Nat
    BY DEF TypeOK
  <2>4. QED
    BY <2>1, <2>2, <2>3
<1>2. CASE Conflicts(D)
  <2>1. store' = store /\ backlog' = {} /\ cdc' = cdc
    BY <1>1, <1>2 DEF BackfillFile, Upserted
  <2>2. BackfillInOrder'
    BY <2>1 DEF BackfillInOrder
  <2>3. StoreInOrder'
    BY <2>1, OrderStays DEF StoreInvariant
  <2>4. QED
    BY <2>1, <2>2, <2>3 DEF StoreInvariant
<1>3. CASE ~ Conflicts(D)
  <2>1. store' = store \cup new /\ backlog' = backlog \ {<<b, t>>}
    BY <1>3 DEF BackfillFile, Upserted
  <2>2. OnePerId(D) /\ OnePerId(store)
    BY <1>1, FileType, DeliveredType DEF StoreInvariant, StoreInOrder
  <2>3. OnePerId(store')
    BY <2>1, <2>2 DEF OnePerId
  <2>4. \A s \in D : \E r \in store' : r.id = s.id
    BY <2>1
  <2>5. ASSUME NEW c \in 1..Len(cdc), NEW u \in Tables, NEW g \in backlog,
               FileBefore(<<c, u>>, g), <<c, u>> \notin backlog
        PROVE  \A s \in Deduplicated(cdc[c][u]) : \E r \in store : r.id = s.id
    BY <2>5 DEF StoreInvariant, BackfillInOrder
  <2> HIDE DEF D, new
  <2>6. BackfillInOrder'
    <3>1. backlog' \subseteq (1..Len(cdc')) \X Tables
      BY <1>1, <2>1 DEF StoreInvariant, BackfillInOrder
    <3>2. ASSUME NEW g \in backlog', NEW c \in 1..Len(cdc'), NEW u \in Tables,
                 FileBefore(<<c, u>>, g), <<c, u>> \notin backlog'
          PROVE  \A s \in Deduplicated(cdc'[c][u]) : \E r \in store' : r.id = s.id
      <4>1. g \in backlog /\ c \in 1..Len(cdc)
        BY <1>1, <2>1
      <4>2. CASE <<c, u>> = <<b, t>>
        BY <1>1, <2>4, <4>2 DEF D
      <4>3. CASE <<c, u>> # <<b, t>>
        <5>1. <<c, u>> \notin backlog
          BY <2>1, <3>2, <4>3
        <5>2. \A s \in Deduplicated(cdc[c][u]) : \E r \in store : r.id = s.id
          BY <2>5, <3>2, <4>1, <5>1
        <5>3. QED
          BY <1>1, <2>1, <5>2
      <4>4. QED
        BY <4>2, <4>3
    <3>3. QED
      BY <3>1, <3>2 DEF BackfillInOrder
  <2>7. ASSUME NEW r \in new PROVE FirstDeliveredBy(r, b, t)
    <3>1. r \in D /\ \A s \in store : s.id # r.id
      BY DEF new
    <3>2. ASSUME NEW c \in 1..Len(cdc), NEW u \in Tables,
                 FileBefore(<<c, u>>, <<b, t>>), <<c, u>> # <<b, t>>
          PROVE  \A s \in Deduplicated(cdc[c][u]) : s.id # r.id
      <4>1. b \in Nat /\ c \in Nat
        BY <1>1
      <4>2. ~ FileBefore(<<b, t>>, <<c, u>>)
        BY <4>1, <3>2, FilesOrdered
      <4>3. <<c, u>> \notin backlog
        BY <1>1, <4>2
      <4>4. \A s \in Deduplicated(cdc[c][u]) : \E q \in store : q.id = s.id
        BY <1>1, <2>5, <3>2, <4>3
      <4>5. QED
        BY <3>1, <4>4
    <3>3. QED
      BY <3>1, <3>2 DEF FirstDeliveredBy, D
  <2>8. StoreInOrder'
    <3>1. \A r \in store : \E c \in 1..Len(cdc), u \in Tables : FirstDeliveredBy(r, c, u)
      BY DEF StoreInvariant, StoreInOrder
    <3>2. \A r \in store' : \E c \in 1..Len(cdc), u \in Tables : FirstDeliveredBy(r, c, u)
      BY <1>1, <2>1, <2>7, <3>1
    <3>3. \A r, c, u : FirstDeliveredBy(r, c, u) => FirstDeliveredBy(r, c, u)'
      BY <1>1 DEF FirstDeliveredBy
    <3>4. QED
      BY <1>1, <2>3, <3>2, <3>3 DEF StoreInOrder
  <2>9. QED
    BY <2>1, <2>6, <2>8 DEF StoreInvariant
<1>4. QED
  BY <1>2, <1>3

\* The store keeps its events, and each is from the first file that had it.
LEMMA StepStore ==
  ASSUME TypeOK, StoreInvariant, [Next]_vars
  PROVE  StoreInvariant' /\ store \subseteq store'
<1>1. CASE Land
  BY <1>1, LandKeepsStore DEF Land, tables
<1>2. CASE StartBackfill
  <2>1. /\ cdc' = cdc /\ store' = store
        /\ backlog' = {f \in (1..Len(cdc)) \X Tables : cdc[f[1]][f[2]] # {}}
    BY <1>2 DEF StartBackfill, lane, tables
  <2>2. ASSUME NEW c \in 1..Len(cdc), NEW u \in Tables, <<c, u>> \notin backlog'
        PROVE  Deduplicated(cdc[c][u]) = {}
    <3>1. cdc[c][u] = {}
      BY <2>1, <2>2
    <3>2. QED
      BY <3>1 DEF Deduplicated, Accepted
  <2>3. BackfillInOrder'
    BY <2>1, <2>2 DEF BackfillInOrder
  <2>4. StoreInOrder'
    BY <2>1, OrderStays DEF StoreInvariant
  <2>5. QED
    BY <2>1, <2>3, <2>4 DEF StoreInvariant
<1>3. CASE CrashBackfill
  <2>1. cdc' = cdc /\ store' = store /\ backlog' = {}
    BY <1>3 DEF CrashBackfill, lane, tables
  <2>2. BackfillInOrder' /\ StoreInOrder'
    BY <2>1, OrderStays DEF StoreInvariant, BackfillInOrder
  <2>3. QED
    BY <2>1, <2>2 DEF StoreInvariant
<1>4. CASE \E b \in Batches, t \in Tables : BackfillFile(b, t)
  BY <1>4, FileKeepsStore
<1>5. CASE cdc' = cdc /\ store' = store /\ backlog' = backlog
  BY <1>5, OrderStays DEF StoreInvariant, BackfillInOrder
<1>6. QED
  BY <1>1, <1>2, <1>3, <1>4, <1>5, StoreFrame DEF Backfill

\* What the store has of an event is what its first file delivered.
LEMMA InOrderHoldsFirst ==
  ASSUME TypeOK, StoreInOrder
  PROVE  StoreHoldsFirst
<1>1. ASSUME NEW r \in store
      PROVE  \E b \in 1..Len(cdc), t \in Tables :
               /\ r \in Deduplicated(cdc[b][t])
               /\ \A c \in 1..Len(cdc), u \in Tables :
                    \A s \in Deduplicated(cdc[c][u]) :
                      s.id = r.id /\ s.val # r.val => FileBefore(<<b, t>>, <<c, u>>)
  <2>1. PICK b \in 1..Len(cdc), t \in Tables : FirstDeliveredBy(r, b, t)
    BY DEF StoreInOrder
  <2>2. ASSUME NEW c \in 1..Len(cdc), NEW u \in Tables, NEW s \in Deduplicated(cdc[c][u]),
               s.id = r.id
        PROVE  FileBefore(<<b, t>>, <<c, u>>)
    <3>1. b \in Nat /\ c \in Nat
      BY DEF TypeOK
    <3>2. ~ FileBefore(<<c, u>>, <<b, t>>) \/ <<c, u>> = <<b, t>>
      BY <2>1, <2>2 DEF FirstDeliveredBy
    <3>3. QED
      BY <3>1, <3>2, FilesOrdered
  <2>3. QED
    BY <2>1, <2>2 DEF FirstDeliveredBy
<1>2. QED
  BY <1>1 DEF StoreHoldsFirst

-----------------------------------------------------------------------------
(***************************************************************************)
(* What a step leaves alone.                                               *)
(***************************************************************************)
\* A step of the replay process.
ReplayMoves ==
  (\E r \in Repairs : StartReplay(r)) \/ ReplayStep \/ StepFails \/ CrashReplay

\* Every step is of the process, or leaves it where it is.
LEMMA ProcessFrame ==
  ASSUME [Next]_vars
  PROVE  \/ ReplayMoves
         \/ /\ pc' = pc /\ repair' = repair /\ work' = work /\ item' = item
            /\ timeline' = timeline /\ outcome' = outcome /\ audit' = audit
            /\ DetectLate \/ queue' = queue
            /\ InitHistory \/ (history' = history /\ seeded' = seeded)
            /\ ApplyBatch \/ current' = current
<1>1. CASE Land \/ ApplyBatch \/ Migrate \/ InitHistory \/ DetectLate
  BY <1>1 DEF Land, ApplyBatch, Migrate, InitHistory, DetectLate, tables, lane, process
<1>2. CASE Backfill
  BY <1>2 DEF Backfill, StartBackfill, BackfillFile, CrashBackfill, tables, lane, process
<1>3. CASE UNCHANGED vars
  BY <1>3 DEF vars, lane, tables, process
<1>4. QED
  BY <1>1, <1>2, <1>3 DEF Next, ReplayMoves

\* The steps of the process, and what each writes of the tables.
LEMMA MoveFrame ==
  ASSUME ReplayMoves
  PROVE  /\ UpdateQueue \/ queue' = queue
         /\ RecordAudit \/ audit' = audit
         /\ Repair \/ current' = current
         /\ DeleteHistory \/ AppendHistory \/ history' = history
         /\ seeded' = seeded
<1>1. CASE (\E r \in Repairs : StartReplay(r)) \/ StepFails \/ CrashReplay
  BY <1>1 DEF StartReplay, StepFails, CrashReplay, tables, lane
<1>2. CASE (\E i \in EventIds : ReadKey(i)) \/ Validate \/ Repair \/ FinishReplay
  BY <1>2 DEF ReadKey, Take, Validate, Repair, FinishReplay, tables, lane
<1>3. CASE DeleteHistory \/ AppendHistory \/ RecordAudit \/ UpdateQueue
  BY <1>3 DEF DeleteHistory, AppendHistory, RecordAudit, UpdateQueue, lane
<1>4. QED
  BY <1>1, <1>2, <1>3 DEF ReplayMoves, ReplayStep

\* What is queued names the same event after any step, and no key loses one.
LEMMA EventsKept ==
  ASSUME ReplayInvariant, [Next]_vars
  PROVE  /\ \A i \in EventIds : queue[i] # NoEntry => Event(i)' = Event(i)
         /\ \A k \in Keys : Stored(k) \subseteq Stored(k)'
<1>1. store \subseteq store' /\ OnePerId(store')
  BY StepStore DEF ReplayInvariant, StoreInvariant, StoreInOrder
<1>2. ASSUME NEW i \in EventIds, queue[i] # NoEntry PROVE Event(i)' = Event(i)
  <2>1. \E r \in store : r.id = i
    BY <1>2 DEF ReplayInvariant, QueueStored
  <2>2. Event(i) \in store /\ Event(i).id = i
    BY <2>1 DEF Event
  <2>3. Event(i)' \in store' /\ Event(i)'.id = i
    BY <1>1, <2>1 DEF Event
  <2>4. QED
    BY <1>1, <2>2, <2>3 DEF OnePerId
<1>3. QED
  BY <1>1, <1>2 DEF Stored

\* The item in work keeps its key.
LEMMA KeyKept ==
  ASSUME ReplayInvariant, [Next]_vars, pc \notin {"idle", "next"}, item' = item
  PROVE  Key' = Key /\ Key \in Keys /\ item \in EventIds /\ queue[item] # NoEntry
<1>1. item \in EventIds /\ queue[item] # NoEntry /\ Key \in Keys
  BY ItemQueued DEF ReplayInvariant, StoreInvariant
<1>2. \A i \in EventIds : queue[i] # NoEntry => (CHOOSE r \in store' : r.id = i) = Event(i)
  BY EventsKept DEF Event
<1>3. QED
  BY <1>1, <1>2 DEF Key, Event

-----------------------------------------------------------------------------
(***************************************************************************)
(* Queue and audit.                                                        *)
(***************************************************************************)
\* Detection leaves known items as they are, and queues stored events.
LEMMA DetectedItems ==
  ASSUME TypeOK, DetectLate, NEW i \in EventIds
  PROVE  /\ queue[i] # NoEntry => queue'[i] = queue[i]
         /\ queue[i] = NoEntry /\ queue'[i] # NoEntry =>
              /\ queue'[i] = NewItem /\ queue'[i].status = "PENDING"
              /\ \E r \in store : r.id = i /\ r.table = Subscriptions
<1>1. queue'[i] = IF i \in {r.id : r \in Behind} /\ queue[i] = NoEntry THEN NewItem ELSE queue[i]
  BY DEF DetectLate, Enqueued
<1>2. NewItem.status = "PENDING"
  BY DEF NewItem
<1>3. i \in {r.id : r \in Behind} => \E r \in store : r.id = i /\ r.table = Subscriptions
  BY DEF Behind
<1>4. QED
  BY <1>1, <1>2, <1>3

\* An item changes when it is new or when the process settles it.
LEMMA ItemFrame ==
  ASSUME ReplayInvariant, [Next]_vars, NEW i \in EventIds
  PROVE  \/ queue'[i] = queue[i]
         \/ /\ queue[i] = NoEntry /\ queue'[i] # NoEntry /\ queue'[i].status = "PENDING"
            /\ DetectLate /\ \E r \in store : r.id = i /\ r.table = Subscriptions
         \/ /\ UpdateQueue /\ i = item /\ queue[i] # NoEntry /\ queue[i].status = "PENDING"
            /\ queue'[i] = [status |-> outcome, attempts |-> queue[i].attempts + 1]
<1>1. CASE DetectLate
  BY <1>1, DetectedItems DEF ReplayInvariant
<1>2. CASE UpdateQueue
  <2>1. pc \notin {"idle", "next"}
    BY <1>2 DEF UpdateQueue
  <2>2. item \in EventIds /\ queue[item] # NoEntry /\ queue[item].status = "PENDING"
    BY <2>1 DEF ReplayInvariant, WorkPending
  <2>3. queue' = [queue EXCEPT ![item] = [status |-> outcome, attempts |-> @.attempts + 1]]
    BY <1>2 DEF UpdateQueue
  <2>4. queue'[i] = IF i = item THEN [status |-> outcome, attempts |-> queue[i].attempts + 1]
                    ELSE queue[i]
    BY <2>2, <2>3 DEF ReplayInvariant, TypeOK
  <2>5. QED
    BY <1>2, <2>2, <2>4
<1>3. CASE queue' = queue
  BY <1>3
<1>4. QED
  BY <1>1, <1>2, <1>3, ProcessFrame, MoveFrame

\* What is queued is stored.
LEMMA StepQueueStored ==
  ASSUME ReplayInvariant, [Next]_vars
  PROVE  QueueStored'
<1>1. store \subseteq store'
  BY StepStore DEF ReplayInvariant
<1>2. ASSUME NEW i \in EventIds, queue'[i] # NoEntry
      PROVE  \E r \in store' : r.id = i /\ r.table = Subscriptions
  <2>1. \E r \in store : r.id = i /\ r.table = Subscriptions
    BY <1>2, ItemFrame DEF ReplayInvariant, QueueStored
  <2>2. QED
    BY <1>1, <2>1
<1>3. QED
  BY <1>2 DEF QueueStored

\* Only pending items are worked on, and the audit knows the outcome first.
LEMMA StepWorkPending ==
  ASSUME ReplayInvariant, [Next]_vars
  PROVE  WorkPending'
<1>1. WorkPending /\ TypeOK
  BY DEF ReplayInvariant
<1>2. CASE /\ pc' = pc /\ work' = work /\ item' = item /\ outcome' = outcome /\ audit' = audit
           /\ DetectLate \/ queue' = queue
  <2>1. \A i \in EventIds : queue[i] # NoEntry => queue'[i] = queue[i]
    BY <1>1, <1>2, DetectedItems
  <2>2. work \subseteq EventIds
    BY <1>1 DEF TypeOK
  <2>3. QED
    BY <1>1, <1>2, <2>1, <2>2 DEF WorkPending
<1>3. ASSUME NEW r \in Repairs, StartReplay(r) PROVE WorkPending'
  BY <1>3 DEF StartReplay, WorkPending, Pending, tables
<1>4. ASSUME NEW i \in EventIds, ReadKey(i) PROVE WorkPending'
  <2>1. i \in work /\ work' = work \ {i} /\ item' = i /\ queue' = queue
    BY <1>4 DEF ReadKey, Take, tables
  <2>2. pc' = "validate" \/ (pc' = "audit" /\ outcome' \in Settled)
    BY <1>4 DEF ReadKey, Take, Settled
  <2>3. QED
    BY <1>1, <2>1, <2>2 DEF WorkPending
<1>5. CASE Validate \/ Repair \/ DeleteHistory \/ AppendHistory \/ (StepFails /\ pc # "next")
  <2>1. /\ pc \notin {"idle", "next"} /\ work' = work /\ item' = item /\ queue' = queue
        /\ pc' \in {"delete", "append"} \/ (pc' = "audit" /\ outcome' \in Settled)
    BY <1>5 DEF Validate, Repair, DeleteHistory, AppendHistory, StepFails, Trying, Take, Fail, Settled,
                tables
  <2>2. QED
    BY <1>1, <2>1 DEF WorkPending
<1>6. CASE StepFails /\ pc = "next"
  <2>1. PICK i \in work : Take(i)
    BY <1>6 DEF StepFails, Trying
  <2>2. /\ i \in work /\ work' = work \ {i} /\ item' = i /\ queue' = queue
        /\ pc' = "audit" /\ outcome' \in Settled
    BY <1>6, <2>1 DEF StepFails, Take, Fail, Settled, tables
  <2>3. i \in EventIds
    BY <1>1, <2>1 DEF TypeOK
  <2>4. QED
    BY <1>1, <2>2, <2>3 DEF WorkPending
<1>7. CASE RecordAudit
  <2>1. item \in EventIds
    BY <1>1, <1>7 DEF RecordAudit, WorkPending
  <2>2. /\ audit'[item] = [status |-> outcome, attempt |-> queue[item].attempts + 1]
        /\ pc = "audit" /\ pc' = "queue" /\ work' = work /\ item' = item /\ queue' = queue
        /\ outcome' = outcome
    BY <1>1, <1>7, <2>1 DEF RecordAudit, TypeOK
  <2>3. QED
    BY <1>1, <2>2 DEF WorkPending
<1>8. CASE UpdateQueue
  <2>1. pc = "queue" /\ pc' = "next" /\ work' = work /\ item \notin work
    BY <1>1, <1>8 DEF UpdateQueue, WorkPending
  <2>2. \A i \in work : queue'[i] = queue[i]
    BY <1>8 DEF UpdateQueue, TypeOK, ReplayInvariant, WorkPending
  <2>3. QED
    BY <1>1, <2>1, <2>2 DEF WorkPending
<1>9. CASE FinishReplay \/ CrashReplay
  BY <1>9 DEF FinishReplay, CrashReplay, WorkPending
<1>10. QED
  BY <1>2, <1>3, <1>4, <1>5, <1>6, <1>7, <1>8, <1>9, ProcessFrame DEF ReplayMoves, ReplayStep

\* A settled item has its audit record.
LEMMA StepBacked ==
  ASSUME ReplayInvariant, [Next]_vars
  PROVE  QueueBackedByAudit'
<1>1. ASSUME NEW i \in EventIds, queue'[i] # NoEntry, queue'[i].status \in Settled
      PROVE  audit'[i] = [status |-> queue'[i].status, attempt |-> queue'[i].attempts]
  <2>1. "PENDING" \notin Settled
    BY DEF Settled
  <2>2. CASE queue'[i] = queue[i]
    <3>1. audit[i] = [status |-> queue[i].status, attempt |-> queue[i].attempts]
      BY <1>1, <2>2 DEF ReplayInvariant, QueueBackedByAudit
    <3>2. audit'[i] = audit[i]
      <4>1. CASE RecordAudit
        <5>1. i # item
          BY <1>1, <2>1, <2>2, <4>1 DEF RecordAudit, ReplayInvariant, WorkPending
        <5>2. QED
          BY <4>1, <5>1 DEF RecordAudit, ReplayInvariant, TypeOK
      <4>2. QED
        BY <4>1, ProcessFrame, MoveFrame
    <3>3. QED
      BY <2>2, <3>1, <3>2
  <2>3. CASE /\ UpdateQueue /\ i = item
             /\ queue'[i] = [status |-> outcome, attempts |-> queue[i].attempts + 1]
    <3>1. audit' = audit /\ pc = "queue"
      BY <2>3 DEF UpdateQueue
    <3>2. audit[i] = [status |-> outcome, attempt |-> queue[i].attempts + 1]
      BY <2>3, <3>1 DEF ReplayInvariant, WorkPending
    <3>3. QED
      BY <2>3, <3>1, <3>2
  <2>4. QED
    BY <1>1, <2>1, <2>2, <2>3, ItemFrame
<1>2. QED
  BY <1>1 DEF QueueBackedByAudit

\* What is settled stays settled.
LEMMA StepSettled ==
  ASSUME ReplayInvariant, [Next]_vars, NEW i \in EventIds, queue[i] # NoEntry,
         queue[i].status \in Settled
  PROVE  queue'[i] = queue[i]
<1>1. "PENDING" \notin Settled
  BY DEF Settled
<1>2. QED
  BY <1>1, ItemFrame

-----------------------------------------------------------------------------
(***************************************************************************)
(* The rows and the history.                                               *)
(***************************************************************************)
\* The invariant without the parts about queue and audit.
LEMMA InvariantReady ==
  ASSUME ReplayInvariant
  PROVE  Ready /\ TypeOK /\ StoreInOrder
  BY DEF ReplayInvariant, Ready, StoreInvariant

\* The forward lane moves rows forward.
LEMMA BatchAdvances ==
  ASSUME TypeOK, ApplyBatch, NEW k \in Keys, current[k] # NoRow
  PROVE  current'[k] # NoRow /\ current'[k].seq >= current[k].seq
<1>1. /\ applied \in Nat /\ applied + 1 \in 1..Len(cdc) /\ applied + 1 \in Nat
      /\ current' = Merge(current, ForwardParsed(applied + 1), applied + 1)
  BY DEF TypeOK, ApplyBatch
<1>2. ForwardParsed(applied + 1) \subseteq Record /\ current \in Rows
  BY <1>1, ForwardType DEF TypeOK
<1>3. current'[k] # NoRow /\ (current'[k] = current[k] \/ current'[k].seq > current[k].seq)
  BY <1>1, <1>2, MergeAdvances
<1>4. Merge(current, ForwardParsed(applied + 1), applied + 1) \in Rows
  BY <1>1, <1>2, MergeType
<1>5. current'[k] \in Row /\ current[k] \in Row
  BY <1>1, <1>2, <1>3, <1>4 DEF Rows
<1>6. current'[k].seq \in Nat /\ current[k].seq \in Nat
  BY <1>5, BoundsAssumption DEF Row
<1>7. QED
  BY <1>3, <1>6

\* A valid timeline ends at or after the snapshot and every sequence in it.
LEMMA RepairFrom ==
  ASSUME ReplayInvariant, Repair, Valid(timeline)
  PROVE  /\ \A n \in 1..Len(timeline) : timeline[n].from <= current'[Key].seq
         /\ Baseline[Key].seq <= current'[Key].seq /\ current'[Key] # NoRow
         /\ \A k \in Keys : k # Key => current'[k] = current[k]
<1>1. Ready /\ Replacing
  BY InvariantReady DEF Repair, Replacing
<1>2. /\ current'[Key] # NoRow /\ current'[Key].seq = Last(timeline).from
      /\ \A k \in Keys : k # Key => current'[k] = current[k]
  BY <1>1, RepairWrites
<1>3. timeline \in Seq(Version) /\ Len(timeline) \in Nat /\ Len(timeline) >= 1
  BY <1>1, InHand
<1>4. \A n \in 1..Len(timeline) : timeline[n].from <= Last(timeline).from
  BY <1>3, ValidEndsLast
<1>5. timeline[1].from = Baseline[Key].seq /\ 1 \in 1..Len(timeline)
  BY <1>1, <1>3 DEF Ready, TimelineRead
<1>6. QED
  BY <1>2, <1>4, <1>5

\* Rows stay at or after the snapshot.
LEMMA StepRows ==
  ASSUME ReplayInvariant, [Next]_vars
  PROVE  RowsFromBaseline'
<1>1. \A k \in Keys : Baseline[k] # NoRow => current[k] # NoRow /\ Baseline[k].seq <= current[k].seq
  BY DEF ReplayInvariant, RowsFromBaseline
<1>2. \A k \in Keys : Baseline[k] # NoRow => Baseline[k].seq \in Nat
  BY BaselineAssumption, BoundsAssumption DEF SnapshotRow, Row
<1>3. \A k \in Keys : current[k] # NoRow => current[k].seq \in Nat
  BY BoundsAssumption DEF ReplayInvariant, TypeOK, Rows, Row
<1>4. CASE current' = current
  BY <1>1, <1>4 DEF RowsFromBaseline
<1>5. CASE ApplyBatch
  <2>1. TypeOK'
    BY <1>5, TypeForward DEF ReplayInvariant
  <2>2. \A k \in Keys : current'[k] # NoRow => current'[k].seq \in Nat
    BY <2>1, BoundsAssumption DEF TypeOK, Rows, Row
  <2>3. \A k \in Keys : current[k] # NoRow => current'[k] # NoRow /\ current'[k].seq >= current[k].seq
    BY <1>5, BatchAdvances DEF ReplayInvariant
  <2>4. QED
    BY <1>1, <1>2, <1>3, <2>2, <2>3 DEF RowsFromBaseline
<1>6. CASE Repair
  <2>1. CASE Valid(timeline)
    BY <1>1, <1>6, <2>1, RepairFrom DEF RowsFromBaseline
  <2>2. CASE ~ Valid(timeline)
    BY <1>4, <1>6, <2>2 DEF Repair
  <2>3. QED
    BY <2>1, <2>2
<1>7. QED
  BY <1>4, <1>5, <1>6, ProcessFrame, MoveFrame

\* The versions that replace the history of the key in work.
LEMMA HistoryAppended ==
  ASSUME ReplayInvariant, AppendHistory
  PROVE  /\ history'[Key] = {timeline[n] : n \in 1..Len(timeline)}
         /\ \A k \in Keys : k # Key => history'[k] = history[k]
<1>1. Ready /\ Replacing /\ pc = "append"
  BY InvariantReady DEF AppendHistory, Replacing
<1>2. Key \in Keys /\ ToSet(timeline) = {timeline[n] : n \in 1..Len(timeline)}
  BY <1>1, InHand
<1>3. history[Key] = {} /\ history \in [Keys -> SUBSET Version]
  BY <1>1 DEF ReplayInvariant, ReplacedWhole, TypeOK
<1>4. history' = [history EXCEPT ![Key] = @ \cup ToSet(timeline)]
  BY DEF AppendHistory
<1>5. history'[Key] = ToSet(timeline) /\ \A k \in Keys : k # Key => history'[k] = history[k]
  BY <1>2, <1>3, <1>4
<1>6. QED
  BY <1>2, <1>5

\* What a step may do to the history of a key.
LEMMA HistoryFrame ==
  ASSUME ReplayInvariant, [Next]_vars, NEW k \in Keys
  PROVE  \/ history'[k] = history[k] \/ history'[k] = {}
         \/ /\ InitHistory /\ ~ seeded /\ Baseline[k] # NoRow
            /\ history'[k] = {BaseVersion(Baseline[k])}
         \/ /\ AppendHistory /\ k = Key
            /\ history'[k] = {timeline[n] : n \in 1..Len(timeline)}
<1>1. CASE history' = history
  BY <1>1
<1>2. CASE InitHistory
  BY <1>2 DEF InitHistory
<1>3. CASE DeleteHistory
  BY <1>3 DEF DeleteHistory, ReplayInvariant, TypeOK
<1>4. CASE AppendHistory
  BY <1>4, HistoryAppended
<1>5. QED
  BY <1>1, <1>2, <1>3, <1>4, ProcessFrame, MoveFrame

\* The history knows what the store knows.
LEMMA StepHistoryStored ==
  ASSUME ReplayInvariant, [Next]_vars
  PROVE  HistoryStored'
<1>1. \A k \in Keys : Stored(k) \subseteq Stored(k)'
  BY EventsKept
<1>2. ASSUME NEW k \in Keys, NEW v \in history'[k]
      PROVE  Baseline[k] # NoRow /\ (v.from = Baseline[k].seq \/ \E r \in Stored(k) : r.seq = v.from)
  <2>1. CASE history'[k] = history[k]
    BY <1>2, <2>1 DEF ReplayInvariant, HistoryStored
  <2>2. CASE Baseline[k] # NoRow /\ history'[k] = {BaseVersion(Baseline[k])}
    BY <1>2, <2>2 DEF BaseVersion
  <2>3. CASE AppendHistory /\ k = Key /\ history'[k] = {timeline[n] : n \in 1..Len(timeline)}
    <3>1. Replacing
      BY <2>3 DEF AppendHistory, Replacing
    <3>2. PICK n \in 1..Len(timeline) : v = timeline[n]
      BY <1>2, <2>3
    <3>3. Len(timeline) \in Nat /\ (n = 1 \/ n \in 2..Len(timeline))
      BY DEF ReplayInvariant, TypeOK
    <3>4. /\ Baseline[Key] # NoRow /\ timeline[1].from = Baseline[Key].seq
          /\ \A m \in 2..Len(timeline) : \E r \in Stored(Key) : timeline[m].from = r.seq
      BY <3>1 DEF ReplayInvariant, TimelineRead
    <3>5. QED
      BY <2>3, <3>2, <3>3, <3>4
  <2>4. QED
    BY <1>2, <2>1, <2>2, <2>3, HistoryFrame
<1>3. QED
  BY <1>1, <1>2 DEF HistoryStored

\* Before the seed there is no history, and nothing is applied.
LEMMA StepNothingBefore ==
  ASSUME ReplayInvariant, [Next]_vars
  PROVE  NothingBeforeSeed'
<1>1. SUFFICES ASSUME ~ seeded'
               PROVE  /\ \A k \in Keys : history'[k] = {}
                      /\ \A i \in EventIds : queue'[i] # NoEntry => queue'[i].status # "APPLIED"
  BY DEF NothingBeforeSeed
<1>2. ~ InitHistory
  BY <1>1 DEF InitHistory
<1>3. ~ seeded
  BY <1>1, <1>2, ProcessFrame, MoveFrame
<1>4. /\ \A k \in Keys : history[k] = {}
      /\ \A i \in EventIds : queue[i] # NoEntry => queue[i].status # "APPLIED"
  BY <1>3 DEF ReplayInvariant, NothingBeforeSeed
<1>5. ~ AppendHistory
  BY <1>3 DEF AppendHistory, ReplayInvariant, ReplacedWhole
<1>6. ASSUME NEW k \in Keys PROVE history'[k] = {}
  BY <1>2, <1>4, <1>5, <1>6, HistoryFrame
<1>7. ASSUME NEW i \in EventIds, queue'[i] # NoEntry PROVE queue'[i].status # "APPLIED"
  <2>1. CASE UpdateQueue /\ i = item
             /\ queue'[i] = [status |-> outcome, attempts |-> queue[i].attempts + 1]
    <3>1. pc = "queue" /\ pc \notin {"idle", "next"}
      BY <2>1 DEF UpdateQueue
    <3>2. Key \in Keys
      BY <3>1, ItemQueued, InvariantReady DEF Ready
    <3>3. outcome # "APPLIED"
      BY <1>4, <3>1, <3>2 DEF ReplayInvariant, ReplacedWhole
    <3>4. QED
      BY <2>1, <3>3
  <2>2. QED
    BY <1>4, <1>7, <2>1, ItemFrame
<1>8. QED
  BY <1>6, <1>7

\* How the process comes to be between reading a key and its second commit.
LEMMA ReplacingFrom ==
  ASSUME ReplayInvariant, [Next]_vars, Replacing'
  PROVE  \/ \E i \in EventIds : ReadKey(i) /\ pc' = "validate"
         \/ /\ Replacing /\ timeline' = timeline /\ item' = item
            /\ ~ AppendHistory /\ ~ UpdateQueue
<1>1. CASE ReplayMoves
  <2>1. ~ ((\E r \in Repairs : StartReplay(r)) \/ StepFails \/ CrashReplay \/ FinishReplay
           \/ RecordAudit \/ UpdateQueue \/ AppendHistory)
    BY DEF Replacing, StartReplay, StepFails, Fail, CrashReplay, FinishReplay, RecordAudit,
           UpdateQueue, AppendHistory
  <2>2. CASE Validate \/ Repair \/ DeleteHistory
    <3>1. Replacing /\ timeline' = timeline /\ item' = item
      BY <2>2 DEF Validate, Repair, DeleteHistory, Replacing
    <3>2. QED
      BY <2>1, <3>1
  <2>3. ASSUME NEW i \in EventIds, ReadKey(i) PROVE pc' = "validate"
    BY <2>3 DEF ReadKey, Take, Replacing
  <2>4. QED
    BY <1>1, <2>1, <2>2, <2>3 DEF ReplayMoves, ReplayStep
<1>2. CASE pc' = pc /\ item' = item /\ timeline' = timeline
  <2>1. Replacing
    BY <1>2 DEF Replacing
  <2>2. ~ AppendHistory /\ ~ UpdateQueue
    BY <1>2 DEF AppendHistory, UpdateQueue
  <2>3. QED
    BY <1>2, <2>1, <2>2
<1>3. QED
  BY <1>1, <1>2, ProcessFrame

\* The timeline of a key that was just read has all it must have.
LEMMA ReadHolds ==
  ASSUME ReplayInvariant, NEW i \in EventIds, ReadKey(i), pc' = "validate"
  PROVE  TimelineRead'
<1> DEFINE k == Event(i).key
           t == Timeline(Baseline[k], Stored(k))
<1>1. i \in work /\ queue[i] # NoEntry /\ TypeOK /\ StoreInOrder /\ QueueStored
  BY DEF ReadKey, Take, ReplayInvariant, WorkPending, StoreInvariant
<1>2. /\ item' = i /\ store' = store /\ queue' = queue /\ history' = history
      /\ timeline' = t /\ Baseline[k] # NoRow
  BY DEF ReadKey, Take, tables
<1>3. k \in Keys /\ Event(i) \in Stored(k) /\ Event(i).id = i
  BY <1>1, EventStored
<1>4. Key' = k /\ \A j \in EventIds : Event(j)' = Event(j)
  BY <1>2 DEF Key, Event
<1>5. Stored(Key)' = Stored(k)
  BY <1>2, <1>4 DEF Stored
<1>6. /\ Len(t) \in Nat /\ Len(t) >= 1
      /\ t[1].from = Baseline[k].seq
      /\ \A r \in Stored(k) : \E n \in 2..Len(t) : t[n].from = r.seq /\ t[n].id = r.id
      /\ \A n \in 2..Len(t) : \E r \in Stored(k) : t[n].from = r.seq
  BY <1>1, <1>2, <1>3, ReadTimeline
<1> HIDE DEF t, k
<1>7. \A n \in 2..Len(t) : n \in 1..Len(t)
  BY <1>6
<1>8. \E n \in 1..Len(t) : t[n].id = i
  BY <1>3, <1>6, <1>7
<1>9. ASSUME NEW j \in EventIds, queue[j] # NoEntry, Event(j).key = k
      PROVE  \E n \in 1..Len(t) : t[n].id = j
  <2>1. Event(j) \in Stored(k) /\ Event(j).id = j
    BY <1>1, <1>9, EventStored
  <2>2. QED
    BY <1>6, <1>7, <2>1
<1>10. ASSUME NEW v \in history[k] PROVE \E n \in 1..Len(t) : t[n].from = v.from
  <2>1. v.from = Baseline[k].seq \/ \E r \in Stored(k) : r.seq = v.from
    BY <1>3 DEF ReplayInvariant, HistoryStored
  <2>2. CASE v.from = Baseline[k].seq
    BY <1>6, <2>2
  <2>3. CASE \E r \in Stored(k) : r.seq = v.from
    BY <1>6, <1>7, <2>3
  <2>4. QED
    BY <2>1, <2>2, <2>3
<1>11. QED
  BY <1>2, <1>4, <1>5, <1>6, <1>8, <1>9, <1>10 DEF TimelineRead

\* The timeline keeps all it must have until it is written.
LEMMA StepTimelineRead ==
  ASSUME ReplayInvariant, [Next]_vars
  PROVE  TimelineRead'
<1>1. SUFFICES ASSUME Replacing' PROVE TimelineRead'
  BY DEF TimelineRead
<1>2. CASE \E i \in EventIds : ReadKey(i) /\ pc' = "validate"
  BY <1>2, ReadHolds
<1>3. CASE /\ Replacing /\ timeline' = timeline /\ item' = item
           /\ ~ AppendHistory /\ ~ UpdateQueue
  <2>1. pc \notin {"idle", "next"}
    BY <1>3 DEF Replacing
  <2>2. Key' = Key /\ Key \in Keys
    BY <1>3, <2>1, KeyKept
  <2>3. /\ Baseline[Key] # NoRow
        /\ Len(timeline) >= 1 /\ timeline[1].from = Baseline[Key].seq
        /\ \A n \in 2..Len(timeline) : \E r \in Stored(Key) : timeline[n].from = r.seq
        /\ \E n \in 1..Len(timeline) : timeline[n].id = item
        /\ \A i \in EventIds :
             queue[i] # NoEntry /\ queue[i].status = "APPLIED" /\ Event(i).key = Key =>
               \E n \in 1..Len(timeline) : timeline[n].id = i
        /\ \A v \in history[Key] : \E n \in 1..Len(timeline) : timeline[n].from = v.from
    BY <1>3 DEF ReplayInvariant, TimelineRead
  <2>4. \A k \in Keys : \A r \in Stored(k) : r \in Stored(k)'
    BY EventsKept
  <2>5. \A n \in 2..Len(timeline) : \E r \in Stored(Key)' : timeline[n].from = r.seq
    <3>1. \A s \in Stored(Key) : s \in {r \in store' : r.table = Subscriptions /\ r.key = Key}
      BY <2>2, <2>4 DEF Stored
    <3>2. Stored(Key)' = {r \in store' : r.table = Subscriptions /\ r.key = Key}
      BY <2>2 DEF Stored
    <3>3. QED
      BY <2>3, <3>1, <3>2
  <2>6. ASSUME NEW i \in EventIds, queue'[i] # NoEntry, queue'[i].status = "APPLIED",
               Event(i)'.key = Key
        PROVE  \E n \in 1..Len(timeline) : timeline[n].id = i
    <3>1. queue'[i] = queue[i]
      BY <1>3, <2>6, ItemFrame
    <3>2. Event(i)' = Event(i)
      BY <2>6, <3>1, EventsKept
    <3>3. QED
      BY <2>3, <2>6, <3>1, <3>2
  <2>7. ASSUME NEW v \in history'[Key] PROVE \E n \in 1..Len(timeline) : timeline[n].from = v.from
    <3>1. history'[Key] = history[Key] \/ history'[Key] = {BaseVersion(Baseline[Key])}
      BY <1>3, <2>2, <2>7, HistoryFrame
    <3>2. CASE v \in history[Key]
      BY <2>3, <3>2
    <3>3. CASE v = BaseVersion(Baseline[Key])
      <4>1. v.from = timeline[1].from
        BY <2>3, <3>3 DEF BaseVersion
      <4>2. 1 \in 1..Len(timeline)
        BY <2>3 DEF ReplayInvariant, TypeOK
      <4>3. QED
        BY <4>1, <4>2
    <3>4. QED
      BY <2>7, <3>1, <3>2, <3>3
  <2>8. QED
    BY <1>3, <2>2, <2>3, <2>5, <2>6, <2>7 DEF TimelineRead
<1>4. QED
  BY <1>1, <1>2, <1>3, ReplacingFrom

\* A row the timeline was checked against does not fall behind it.
LEMMA StepTimelineChecked ==
  ASSUME ReplayInvariant, [Next]_vars
  PROVE  TimelineChecked'
<1>1. SUFFICES ASSUME pc' \in {"delete", "append"}
               PROVE  /\ Valid(timeline)'
                      /\ \A n \in 1..Len(timeline') : timeline'[n].from <= current'[Key'].seq
  BY DEF TimelineChecked
<1>2. /\ Replacing /\ timeline' = timeline /\ item' = item
      /\ ~ AppendHistory /\ ~ UpdateQueue
  <2>1. Replacing' /\ pc' # "validate"
    BY <1>1 DEF Replacing
  <2>2. QED
    BY <2>1, ReplacingFrom
<1>3. Key' = Key /\ Key \in Keys
  BY <1>2, KeyKept DEF Replacing
<1>4. Ready
  BY InvariantReady
<1>5. /\ timeline \in Seq(Version) /\ Len(timeline) \in Nat /\ Len(timeline) >= 1
      /\ \A n \in 1..Len(timeline) : timeline[n].from \in Nat
      /\ current[Key] # NoRow /\ current[Key].seq \in Nat
  BY <1>2, <1>4, InHand
<1>6. (Valid(timeline)' <=> Valid(timeline)) /\ (Valid(timeline) => Valid(timeline'))
  BY <1>2 DEF Valid
<1>7. CASE Validate
  <2>1. Valid(timeline) /\ Last(timeline).from = current[Key].seq /\ current' = current
    BY <1>1, <1>7 DEF Validate, Fail, Checked, Aligned, lane
  <2>2. \A n \in 1..Len(timeline) : timeline[n].from <= Last(timeline).from
    BY <1>5, <2>1, ValidEndsLast
  <2>3. QED
    BY <1>2, <1>3, <1>6, <2>1, <2>2
<1>8. CASE Repair
  <2>1. Valid(timeline)
    BY <1>1, <1>8 DEF Repair, Fail
  <2>2. \A n \in 1..Len(timeline) : timeline[n].from <= current'[Key].seq
    BY <1>8, <2>1, RepairFrom
  <2>3. QED
    BY <1>2, <1>3, <1>6, <2>1, <2>2
<1>9. CASE pc \in {"delete", "append"} /\ ~ Repair
  <2>1. Valid(timeline) /\ \A n \in 1..Len(timeline) : timeline[n].from <= current[Key].seq
    BY <1>9 DEF ReplayInvariant, TimelineChecked
  <2>2. CASE current' = current
    BY <1>2, <1>3, <1>6, <2>1, <2>2
  <2>3. CASE ApplyBatch
    <3>1. current'[Key] # NoRow /\ current'[Key].seq >= current[Key].seq
      BY <1>3, <1>5, <2>3, BatchAdvances DEF ReplayInvariant
    <3>2. current'[Key] \in Row
      BY <1>3, <2>3, <3>1, TypeForward DEF ReplayInvariant, TypeOK, Rows
    <3>3. current'[Key].seq \in Nat
      BY <3>2, BoundsAssumption DEF Row
    <3>4. QED
      BY <1>2, <1>3, <1>5, <1>6, <2>1, <3>1, <3>3
  <2>4. QED
    BY <1>9, <2>2, <2>3, ProcessFrame, MoveFrame
<1>10. pc = "validate" => Validate \/ Repair
  <2>1. ASSUME pc = "validate" PROVE Validate \/ Repair
    <3>1. ~ (pc' = pc)
      BY <1>1, <2>1
    <3>2. ~ ((\E r \in Repairs : StartReplay(r)) \/ StepFails \/ CrashReplay \/ FinishReplay
             \/ RecordAudit \/ UpdateQueue \/ AppendHistory \/ DeleteHistory)
      BY <1>1, <2>1 DEF StartReplay, StepFails, Fail, CrashReplay, FinishReplay, RecordAudit,
         UpdateQueue, AppendHistory, DeleteHistory
    <3>3. \A i \in EventIds : ~ ReadKey(i)
      BY <2>1 DEF ReadKey, Take
    <3>4. QED
      BY <3>1, <3>2, <3>3, ProcessFrame DEF ReplayMoves, ReplayStep
  <2>2. QED
    BY <2>1
<1>11. Repair => pc = "validate"
  BY DEF Repair
<1>12. QED
  BY <1>2, <1>7, <1>8, <1>9, <1>10, <1>11 DEF Replacing

\* Delete and append are two commits, and an item is applied after the second.
LEMMA StepReplacedWhole ==
  ASSUME ReplayInvariant, [Next]_vars
  PROVE  ReplacedWhole'
<1>1. ASSUME pc' = "append" PROVE seeded' /\ history'[Key'] = {}
  <2>1. /\ Replacing /\ item' = item /\ ~ AppendHistory
    BY <1>1, ReplacingFrom DEF Replacing, ReadKey, Take
  <2>2. Key' = Key /\ Key \in Keys
    BY <2>1, KeyKept DEF Replacing
  <2>3. CASE DeleteHistory
    <3>1. seeded /\ seeded' = seeded /\ history' = [history EXCEPT ![Key] = {}]
      BY <1>1, <2>3 DEF DeleteHistory, Fail
    <3>2. QED
      BY <2>2, <3>1 DEF ReplayInvariant, TypeOK
  <2>4. CASE pc = "append"
    <3>1. seeded /\ history[Key] = {}
      BY <2>4 DEF ReplayInvariant, ReplacedWhole
    <3>2. history'[Key] = {}
      BY <2>1, <2>2, <3>1, HistoryFrame
    <3>3. seeded'
      BY <3>1, ProcessFrame, MoveFrame DEF InitHistory
    <3>4. QED
      BY <2>2, <3>2, <3>3
  <2>5. DeleteHistory \/ pc' = pc
    <3>1. ~ ((\E r \in Repairs : StartReplay(r)) \/ StepFails \/ CrashReplay \/ FinishReplay
             \/ RecordAudit \/ UpdateQueue \/ AppendHistory \/ Validate \/ Repair)
      BY <1>1 DEF StartReplay, StepFails, Fail, CrashReplay, FinishReplay, RecordAudit,
         UpdateQueue, AppendHistory, Validate, Repair
    <3>2. \A i \in EventIds : ~ ReadKey(i)
      BY <1>1 DEF ReadKey, Take
    <3>3. QED
      BY <3>1, <3>2, ProcessFrame DEF ReplayMoves, ReplayStep
  <2>6. QED
    BY <1>1, <2>3, <2>4, <2>5
<1>2. ASSUME pc' \in {"audit", "queue"}, outcome' = "APPLIED"
      PROVE  \E v \in history'[Key'] : v.id = item'
  <2>1. \/ AppendHistory
        \/ /\ pc \in {"audit", "queue"} /\ outcome = "APPLIED" /\ item' = item
           /\ InitHistory \/ history' = history
    <3>1. ~ ((\E r \in Repairs : StartReplay(r)) \/ StepFails \/ CrashReplay \/ FinishReplay
             \/ UpdateQueue \/ Validate \/ Repair \/ DeleteHistory)
      BY <1>2 DEF StartReplay, StepFails, Fail, CrashReplay, FinishReplay,
         UpdateQueue, Validate, Repair, DeleteHistory
    <3>2. \A i \in EventIds : ~ ReadKey(i)
      BY <1>2 DEF ReadKey, Take
    <3>3. RecordAudit => /\ pc = "audit" /\ outcome' = outcome /\ item' = item
                         /\ history' = history
      BY DEF RecordAudit
    <3>4. QED
      BY <1>2, <3>1, <3>2, <3>3, ProcessFrame DEF ReplayMoves, ReplayStep
  <2>2. CASE AppendHistory
    <3>1. Replacing /\ item' = item /\ pc \notin {"idle", "next"}
      BY <2>2 DEF AppendHistory, Replacing
    <3>2. Key' = Key
      BY <3>1, KeyKept
    <3>3. PICK n \in 1..Len(timeline) : timeline[n].id = item
      BY <3>1 DEF ReplayInvariant, TimelineRead
    <3>4. timeline[n] \in history'[Key]
      BY <2>2, HistoryAppended
    <3>5. QED
      BY <3>1, <3>2, <3>3, <3>4
  <2>3. CASE /\ pc \in {"audit", "queue"} /\ outcome = "APPLIED" /\ item' = item
             /\ InitHistory \/ history' = history
    <3>1. pc \notin {"idle", "next"}
      BY <2>3
    <3>2. Key' = Key /\ Key \in Keys
      BY <2>3, <3>1, KeyKept
    <3>3. PICK v \in history[Key] : v.id = item
      BY <2>3 DEF ReplayInvariant, ReplacedWhole
    <3>4. ~ InitHistory
      BY <3>2, <3>3 DEF InitHistory, ReplayInvariant, NothingBeforeSeed
    <3>5. QED
      BY <2>3, <3>2, <3>3, <3>4
  <2>4. QED
    BY <2>1, <2>2, <2>3
<1>3. QED
  BY <1>1, <1>2 DEF ReplacedWhole

\* The history of a key tiles the sequences from the snapshot on.
LEMMA StepTiles ==
  ASSUME ReplayInvariant, [Next]_vars
  PROVE  HistoryTiles'
<1>1. ASSUME NEW k \in Keys, history'[k] # {}
      PROVE  /\ Tiles(history'[k], Baseline[k].seq)
             /\ \A v \in history'[k] : v.current <=> v.to = Open
  <2>1. CASE history'[k] = history[k]
    BY <1>1, <2>1 DEF ReplayInvariant, HistoryTiles
  <2>2. CASE Baseline[k] # NoRow /\ history'[k] = {BaseVersion(Baseline[k])}
    <3>1. Baseline[k].seq \in Nat
      BY <2>2, BaselineAssumption, BoundsAssumption DEF SnapshotRow, Row
    <3>2. BaseVersion(Baseline[k]).from = Baseline[k].seq /\ BaseVersion(Baseline[k]).to = Open
          /\ BaseVersion(Baseline[k]).current
      BY DEF BaseVersion
    <3>3. Tiles({BaseVersion(Baseline[k])}, Baseline[k].seq)
      BY <3>1, <3>2, BoundsAssumption DEF Tiles
    <3>4. QED
      BY <2>2, <3>2, <3>3
  <2>3. CASE AppendHistory /\ k = Key /\ history'[k] = {timeline[n] : n \in 1..Len(timeline)}
    <3>1. Replacing /\ pc = "append" /\ Ready
      BY <2>3, InvariantReady DEF AppendHistory, Replacing
    <3>2. Valid(timeline)
      BY <3>1 DEF ReplayInvariant, TimelineChecked
    <3>3. /\ timeline \in Seq(Version) /\ Len(timeline) \in Nat /\ Len(timeline) >= 1
          /\ ToSet(timeline) = {timeline[n] : n \in 1..Len(timeline)}
      BY <3>1, InHand
    <3>4. Tiles(ToSet(timeline), timeline[1].from)
      BY <3>2, <3>3, ValidTiles
    <3>5. timeline[1].from = Baseline[Key].seq
      BY <3>1 DEF ReplayInvariant, TimelineRead
    <3>6. ASSUME NEW n \in 1..Len(timeline)
          PROVE  timeline[n].current <=> timeline[n].to = Open
      <4>1. n = Len(timeline) \/ n < Len(timeline)
        BY <3>3
      <4>2. QED
        BY <3>2, <3>3, <4>1 DEF Valid
    <3>7. QED
      BY <2>3, <3>3, <3>4, <3>5, <3>6
  <2>4. QED
    BY <1>1, <2>1, <2>2, <2>3, HistoryFrame
<1>2. QED
  BY <1>1 DEF HistoryTiles

\* An applied item is in the history of its key.
LEMMA StepApplied ==
  ASSUME ReplayInvariant, [Next]_vars
  PROVE  AppliedIsInHistory'
<1>1. ASSUME NEW i \in EventIds, queue'[i] # NoEntry, queue'[i].status = "APPLIED"
      PROVE  history'[Event(i)'.key] = {} \/ \E v \in history'[Event(i)'.key] : v.id = i
  <2>1. CASE queue'[i] = queue[i]
    <3>1. Event(i)' = Event(i) /\ queue[i] # NoEntry
      BY <1>1, <2>1, EventsKept
    <3>2. Event(i).key \in Keys
      BY <3>1, InvariantReady, EventStored DEF Ready
    <3> DEFINE k == Event(i).key
    <3>3. history[k] = {} \/ \E v \in history[k] : v.id = i
      BY <1>1, <2>1 DEF ReplayInvariant, AppliedIsInHistory
    <3>4. CASE InitHistory /\ ~ seeded
      BY <1>1, <2>1, <3>4 DEF ReplayInvariant, NothingBeforeSeed
    <3>5. CASE AppendHistory /\ k = Key /\ history'[k] = {timeline[n] : n \in 1..Len(timeline)}
      <4>1. Replacing
        BY <3>5 DEF AppendHistory, Replacing
      <4>2. \E n \in 1..Len(timeline) : timeline[n].id = i
        BY <1>1, <2>1, <3>5, <4>1 DEF ReplayInvariant, TimelineRead
      <4>3. \E v \in history'[k] : v.id = i
        BY <3>5, <4>2
      <4>4. QED
        BY <3>1, <4>3
    <3>6. CASE history'[k] = history[k] \/ history'[k] = {}
      BY <3>1, <3>3, <3>6
    <3>7. QED
      BY <3>2, <3>4, <3>5, <3>6, HistoryFrame
  <2>2. CASE /\ UpdateQueue /\ i = item /\ queue[i] # NoEntry
             /\ queue'[i] = [status |-> outcome, attempts |-> queue[i].attempts + 1]
    <3>1. pc = "queue" /\ outcome = "APPLIED" /\ history' = history
      BY <1>1, <2>2 DEF UpdateQueue
    <3>2. \E v \in history[Key] : v.id = i
      BY <2>2, <3>1 DEF ReplayInvariant, ReplacedWhole
    <3>3. Event(i)' = Event(i)
      BY <2>2, EventsKept
    <3>4. Key = Event(i).key
      BY <2>2 DEF Key
    <3>5. QED
      BY <3>1, <3>2, <3>3, <3>4
  <2>3. QED
    BY <1>1, <2>1, <2>2, ItemFrame
<1>2. QED
  BY <1>1 DEF AppliedIsInHistory

\* The history is not ahead of the rows.
LEMMA StepNotAhead ==
  ASSUME ReplayInvariant, [Next]_vars
  PROVE  HistoryNotAhead'
<1>1. ASSUME NEW k \in Keys, NEW v \in history'[k] PROVE v.from <= current'[k].seq
  <2>1. CASE history'[k] = history[k]
    <3>1. v.from <= current[k].seq /\ Baseline[k] # NoRow
      BY <1>1, <2>1 DEF ReplayInvariant, HistoryNotAhead, HistoryStored
    <3>2. current[k] # NoRow /\ v \in Version
      BY <1>1, <2>1, <3>1 DEF ReplayInvariant, RowsFromBaseline, TypeOK
    <3>3. v.from \in Nat /\ current[k].seq \in Nat
      BY <3>2, BoundsAssumption DEF ReplayInvariant, TypeOK, Rows, Row, Version
    <3>4. CASE current' = current
      BY <3>1, <3>4
    <3>5. CASE ApplyBatch
      <4>1. current'[k] # NoRow /\ current'[k].seq >= current[k].seq
        BY <3>2, <3>5, BatchAdvances DEF ReplayInvariant
      <4>2. current'[k] \in Row
        BY <3>5, <4>1, TypeForward DEF ReplayInvariant, TypeOK, Rows
      <4>3. current'[k].seq \in Nat
        BY <4>2, BoundsAssumption DEF Row
      <4>4. QED
        BY <3>1, <3>3, <4>1, <4>3
    <3>6. CASE Repair /\ Valid(timeline)
      <4>1. CASE k # Key
        BY <3>1, <3>6, <4>1, RepairFrom
      <4>2. CASE k = Key
        <5>1. Replacing
          BY <3>6 DEF Repair, Replacing
        <5>2. PICK n \in 1..Len(timeline) : timeline[n].from = v.from
          BY <1>1, <2>1, <4>2, <5>1 DEF ReplayInvariant, TimelineRead
        <5>3. timeline[n].from <= current'[Key].seq
          BY <3>6, RepairFrom
        <5>4. QED
          BY <4>2, <5>2, <5>3
      <4>3. QED
        BY <4>1, <4>2
    <3>7. Repair /\ ~ Valid(timeline) => current' = current
      BY DEF Repair
    <3>8. QED
      BY <3>4, <3>5, <3>6, <3>7, ProcessFrame, MoveFrame
  <2>2. CASE InitHistory /\ Baseline[k] # NoRow /\ history'[k] = {BaseVersion(Baseline[k])}
    <3>1. v.from = Baseline[k].seq /\ current' = current
      BY <1>1, <2>2 DEF BaseVersion, InitHistory, lane
    <3>2. QED
      BY <2>2, <3>1 DEF ReplayInvariant, RowsFromBaseline
  <2>3. CASE AppendHistory /\ k = Key /\ history'[k] = {timeline[n] : n \in 1..Len(timeline)}
    <3>1. pc = "append" /\ current' = current
      BY <2>3 DEF AppendHistory, lane
    <3>2. \A n \in 1..Len(timeline) : timeline[n].from <= current[Key].seq
      BY <3>1 DEF ReplayInvariant, TimelineChecked
    <3>3. QED
      BY <1>1, <2>3, <3>1, <3>2
  <2>4. QED
    BY <1>1, <2>1, <2>2, <2>3, HistoryFrame
<1>2. QED
  BY <1>1 DEF HistoryNotAhead

-----------------------------------------------------------------------------
(***************************************************************************)
(* The invariant, and what follows.                                        *)
(***************************************************************************)
\* The state before the first command.
LEMMA InitHolds ==
  Init => ReplayInvariant
<1> SUFFICES ASSUME Init PROVE ReplayInvariant
  OBVIOUS
<1>1. TypeOK
  <2>1. Baseline \in Rows
    BY BaselineAssumption DEF Rows, SnapshotRow
  <2>2. /\ cdc \in Seq(BatchContents) /\ applied \in 0..Len(cdc) /\ Len(cdc) <= MaxBatches
        /\ timeline \in Seq(Version) /\ faults \in 0..MaxFaults
    BY ReplayLimitsAssumption DEF Init
  <2>3. /\ columns \in [Keys -> Cycles \cup {Null}] /\ history \in [Keys -> SUBSET Version]
        /\ queue \in [EventIds -> Item \cup {NoEntry}]
        /\ audit \in [EventIds -> [status : Settled, attempt : Nat] \cup {NoEntry}]
    BY DEF Init
  <2>4. /\ current \in Rows /\ store \subseteq Records /\ backlog \subseteq Batches \X Tables
        /\ migrated \in BOOLEAN /\ seeded \in BOOLEAN /\ repair \in BOOLEAN
        /\ pc \in {"idle", "next", "validate", "delete", "append", "audit", "queue"}
        /\ work \subseteq EventIds /\ item \in EventIds \cup {NoEntry}
        /\ outcome \in Settled \cup {NoEntry}
    BY <2>1 DEF Init
  <2>5. QED
    BY <2>2, <2>3, <2>4 DEF TypeOK
<1>2. StoreInvariant
  BY DEF Init, StoreInvariant, BackfillInOrder, StoreInOrder, OnePerId
<1>3. QueueStored /\ WorkPending /\ TimelineRead /\ TimelineChecked /\ ReplacedWhole
  BY DEF Init, QueueStored, WorkPending, TimelineRead, TimelineChecked, ReplacedWhole, Replacing
<1>4. NothingBeforeSeed /\ HistoryStored /\ HistoryTiles /\ HistoryNotAhead
  BY DEF Init, NothingBeforeSeed, HistoryStored, HistoryTiles, HistoryNotAhead
<1>5. AppliedIsInHistory /\ QueueBackedByAudit
  BY DEF Init, AppliedIsInHistory, QueueBackedByAudit
<1>6. RowsFromBaseline
  <2>1. \A k \in Keys : Baseline[k] # NoRow => Baseline[k].seq \in Nat
    BY BaselineAssumption, BoundsAssumption DEF SnapshotRow, Row
  <2>2. QED
    BY <2>1 DEF Init, RowsFromBaseline
<1>7. QED
  BY <1>1, <1>2, <1>3, <1>4, <1>5, <1>6 DEF ReplayInvariant

\* Every step keeps the types.
LEMMA StepType ==
  ASSUME ReplayInvariant, [Next]_vars
  PROVE  TypeOK'
<1>1. /\ Ready /\ TypeOK /\ StoreInOrder /\ BackfillInOrder /\ QueueStored /\ WorkPending
  BY InvariantReady DEF ReplayInvariant, StoreInvariant
<1>2. CASE UNCHANGED vars
  BY <1>1, <1>2 DEF TypeOK, vars, lane, tables, process
<1>3. QED
  BY <1>1, <1>2, TypeForward, TypeBackfill, TypeSeedDetect, TypeRead, TypeCheck, TypeReplace,
     TypeRecord, TypeFault DEF Next, ReplayStep

\* Every step of every command keeps the invariant.
LEMMA StepInvariant ==
  ReplayInvariant /\ [Next]_vars => ReplayInvariant'
<1> SUFFICES ASSUME ReplayInvariant, [Next]_vars PROVE ReplayInvariant'
  OBVIOUS
<1>1. TypeOK'
  BY StepType
<1>2. StoreInvariant'
  BY StepStore DEF ReplayInvariant
<1>3. QueueStored' /\ WorkPending' /\ QueueBackedByAudit'
  BY StepQueueStored, StepWorkPending, StepBacked
<1>4. TimelineRead' /\ TimelineChecked' /\ ReplacedWhole'
  BY StepTimelineRead, StepTimelineChecked, StepReplacedWhole
<1>5. NothingBeforeSeed' /\ HistoryStored' /\ RowsFromBaseline'
  BY StepNothingBefore, StepHistoryStored, StepRows
<1>6. HistoryTiles' /\ AppliedIsInHistory' /\ HistoryNotAhead'
  BY StepTiles, StepApplied, StepNotAhead
<1>7. QED
  BY <1>1, <1>2, <1>3, <1>4, <1>5, <1>6 DEF ReplayInvariant

\* The inductive invariant: the store grows in the order of the files, the
\* process works on pending, stored items, and what it is about to write is
\* still true of the tables when it writes it.
THEOREM Consistent == Spec => []ReplayInvariant
<1>1. QED
  BY InitHolds, StepInvariant, PTL DEF Spec

\* Types, whatever the commands do.
THEOREM TypeCorrect == Spec => []TypeOK
<1>1. ReplayInvariant => TypeOK
  BY DEF ReplayInvariant
<1>2. QED
  BY Consistent, <1>1, PTL

\* Whatever dies between delete and append, the history of a key is empty or
\* answers "what was the state at sequence s" once for every s.
THEOREM Tiled == Spec => []HistoryTiles
<1>1. ReplayInvariant => HistoryTiles
  BY DEF ReplayInvariant
<1>2. QED
  BY Consistent, <1>1, PTL

\* No replacement of a history drops an event that is marked APPLIED.
THEOREM NoneDropped == Spec => []AppliedIsInHistory
<1>1. ReplayInvariant => AppliedIsInHistory
  BY DEF ReplayInvariant
<1>2. QED
  BY Consistent, <1>1, PTL

\* The audit record of a settled item has its status and its attempt.
THEOREM Backed == Spec => []QueueBackedByAudit
<1>1. ReplayInvariant => QueueBackedByAudit
  BY DEF ReplayInvariant
<1>2. QED
  BY Consistent, <1>1, PTL

\* The history of a key is never ahead of its current row.
THEOREM NotAhead == Spec => []HistoryNotAhead
<1>1. ReplayInvariant => HistoryNotAhead
  BY DEF ReplayInvariant
<1>2. QED
  BY Consistent, <1>1, PTL

\* The store has of every event what the first file with it delivered.
THEOREM FirstKept == Spec => []StoreHoldsFirst
<1>1. ReplayInvariant => StoreHoldsFirst
  BY InOrderHoldsFirst DEF ReplayInvariant, StoreInvariant
<1>2. QED
  BY Consistent, <1>1, PTL

\* Neither detection nor a rerun of the replay touches a settled item.
THEOREM SettledStays == Spec => SettledStaysSettled
<1>1. ReplayInvariant /\ [Next]_vars =>
        [\A i \in EventIds : queue[i] # NoEntry /\ queue[i].status \in Settled =>
           queue'[i] = queue[i]]_vars
  BY StepSettled
<1>2. QED
  BY Consistent, <1>1, PTL DEF Spec, SettledStaysSettled

-----------------------------------------------------------------------------
(***************************************************************************)
(* The two lanes agree.                                                    *)
(***************************************************************************)
\* What is merged of a key are events of the feed, valid ones.
LEMMA MergedType ==
  ASSUME TypeOK, NEW k
  PROVE  \A r \in Merged(k) : r \in Records /\ r.ok /\ r \in Record /\ r.key = k
<1>1. ASSUME NEW r \in Merged(k) PROVE r \in Records /\ r.ok /\ r \in Record /\ r.key = k
  <2>1. PICK b \in 1..applied : r \in Parsed(cdc[b][Subscriptions], Subscriptions) /\ r.key = k
    BY DEF Merged
  <2>2. b \in 1..Len(cdc)
    BY DEF TypeOK
  <2>3. cdc[b][Subscriptions] \subseteq Records
    BY <2>2, FileType, SubscriptionsAssumption
  <2>4. r \in cdc[b][Subscriptions] /\ r.ok
    BY <2>1 DEF Parsed, Deduplicated, Accepted
  <2>5. QED
    BY <2>1, <2>3, <2>4, RecordsAssumption
<1>2. QED
  BY <1>1

\* The forward lane sees of an event everything but its V2 attributes.
LEMMA ForwardSees ==
  ASSUME TypeOK, NEW b \in 1..Len(cdc)
  PROVE  /\ \A e \in ForwardParsed(b) :
              \E r \in Parsed(cdc[b][Subscriptions], Subscriptions) :
                /\ e.key = r.key /\ e.seq = r.seq /\ e.op = r.op
                /\ e.val = V1Only(r.val)
         /\ \A r \in Parsed(cdc[b][Subscriptions], Subscriptions) :
              \E e \in ForwardParsed(b) : e.key = r.key /\ e.seq = r.seq
<1> DEFINE P == Parsed(cdc[b][Subscriptions], Subscriptions)
<1>1. \A r \in P : r \in Record
  BY FileType, ParsedType, SubscriptionsAssumption
<1>2. ForwardParsed(b) = {[r EXCEPT !.val = V1Only(r.val)] : r \in P}
  BY DEF ForwardParsed
<1> HIDE DEF P
<1>3. ASSUME NEW r \in P, NEW e, e = [r EXCEPT !.val = V1Only(r.val)]
      PROVE  e.key = r.key /\ e.seq = r.seq /\ e.op = r.op /\ e.val = V1Only(r.val)
  BY <1>1, <1>3 DEF Record
<1>4. ASSUME NEW e \in ForwardParsed(b)
      PROVE  \E r \in P : /\ e.key = r.key /\ e.seq = r.seq /\ e.op = r.op
                          /\ e.val = V1Only(r.val)
  BY <1>2, <1>3
<1>5. ASSUME NEW r \in P PROVE \E e \in ForwardParsed(b) : e.key = r.key /\ e.seq = r.seq
  BY <1>2, <1>3
<1>6. QED
  BY <1>4, <1>5 DEF P

\* Merging a batch adds its events of the key.
LEMMA MergedGrows ==
  ASSUME TypeOK, ApplyBatch, NEW k
  PROVE  Merged(k)' = Merged(k) \cup
           {r \in Parsed(cdc[applied + 1][Subscriptions], Subscriptions) : r.key = k}
<1>1. applied \in Nat /\ applied' = applied + 1 /\ cdc' = cdc
  BY DEF TypeOK, ApplyBatch
<1>2. 1..applied' = (1..applied) \cup {applied + 1}
  BY <1>1
<1>3. QED
  BY <1>1, <1>2 DEF Merged

\* The rows after a batch are again those of the newest events.
LEMMA BatchMerged ==
  ASSUME ReplayInvariant, RowsMerged, ApplyBatch, NEW k \in Keys, Baseline[k] # NoRow
  PROVE  /\ \A s \in Merged(k)' : s.seq <= current'[k].seq
         /\ current'[k] = Baseline[k] \/ \E r \in Merged(k)' : RowOf(current'[k], r)
<1> DEFINE b == applied + 1
           E == ForwardParsed(b)
           P == {r \in Parsed(cdc[b][Subscriptions], Subscriptions) : r.key = k}
           M == Merged(k)
<1>1. TypeOK /\ current \in Rows /\ b \in 1..Len(cdc) /\ b \in Nat
  BY DEF ReplayInvariant, TypeOK, ApplyBatch
<1>2. E \subseteq Record /\ current' = Merge(current, E, b)
  BY <1>1, ForwardType DEF ApplyBatch
<1>3. current[k] # NoRow /\ current[k] \in Row
  BY <1>1 DEF ReplayInvariant, RowsFromBaseline, Rows
<1>4. /\ \A s \in M : s.seq <= current[k].seq
      /\ current[k] = Baseline[k] \/ \E r \in M : RowOf(current[k], r)
  BY DEF RowsMerged
<1>5. Merged(k)' = M \cup P
  BY <1>1, MergedGrows
<1>6. /\ \A e \in E : e.key = k =>
           \E r \in P : /\ e.seq = r.seq /\ e.op = r.op
                        /\ e.val = V1Only(r.val)
      /\ \A r \in P : \E e \in E : e.key = k /\ e.seq = r.seq
  BY <1>1, ForwardSees
<1>7. \A e \in E : e.key = k => e.seq <= current'[k].seq
  BY <1>1, <1>2, MergeCovers
<1>8. \A s \in P : s.seq <= current'[k].seq
  BY <1>6, <1>7
<1>9. current'[k] # NoRow /\ current'[k].seq >= current[k].seq
  BY <1>1, <1>3, BatchAdvances
<1>10. current'[k] \in Row
  BY <1>1, <1>2, <1>9, MergeType DEF Rows
<1>11. current'[k].seq \in Nat /\ current[k].seq \in Nat /\ \A s \in M : s.seq \in Nat
  BY <1>1, <1>3, <1>10, MergedType, BoundsAssumption DEF Row, Record
<1>12. \A s \in M : s.seq <= current'[k].seq
  BY <1>4, <1>9, <1>11
<1>13. current'[k] = Baseline[k] \/ \E r \in M \cup P : RowOf(current'[k], r)
  <2>1. CASE current'[k] = current[k]
    BY <1>4, <2>1
  <2>2. ASSUME NEW w \in Applied(current, E, k), current'[k] = MergedRow(current[k], w, b)
        PROVE  \E r \in P : RowOf(current'[k], r)
    <3>1. w \in E /\ w.key = k
      BY DEF Applied, Winners
    <3>2. PICK r \in P : /\ w.seq = r.seq /\ w.op = r.op
                         /\ w.val = V1Only(r.val)
      BY <1>6, <3>1
    <3>3. /\ current'[k].seq = w.seq /\ current'[k].deleted = (w.op = "DELETE")
          /\ w.op # "DELETE" => current'[k].val = w.val
      BY <2>2 DEF MergedRow
    <3>4. RowOf(current'[k], r)
      BY <3>2, <3>3 DEF RowOf
    <3>5. QED
      BY <3>4
  <2>3. QED
    BY <1>2, <2>1, <2>2, MergeAt
<1>14. QED
  BY <1>5, <1>8, <1>12, <1>13

\* Only the forward lane writes rows, as long as nothing is repaired.
LEMMA LaneFrame ==
  ASSUME TypeOK, [Next]_vars, ~ repair, TRUE \notin Repairs
  PROVE  /\ ~ repair' /\ columns' = columns
         /\ ApplyBatch \/ (current' = current /\ applied' = applied)
         /\ \A b \in 1..applied : cdc'[b] = cdc[b]
<1>1. CASE Land
  <2>1. \A b \in 1..applied : b \in 1..Len(cdc)
    BY DEF TypeOK
  <2>2. \A b \in 1..Len(cdc) : cdc'[b] = cdc[b]
    BY <1>1 DEF Land, TypeOK
  <2>3. QED
    BY <1>1, <2>1, <2>2 DEF Land, process
<1>2. CASE ApplyBatch \/ Migrate \/ InitHistory \/ DetectLate
  BY <1>2 DEF ApplyBatch, Migrate, InitHistory, DetectLate, lane, process
<1>3. CASE Backfill
  <2>1. UNCHANGED <<lane, process>>
    BY <1>3 DEF Backfill, StartBackfill, BackfillFile, CrashBackfill
  <2>2. QED
    BY <2>1 DEF lane, process
<1>4. CASE (\E r \in Repairs : StartReplay(r)) \/ StepFails \/ CrashReplay
  <2>1. UNCHANGED lane
    BY <1>4 DEF StartReplay, StepFails, CrashReplay
  <2>2. \A r \in Repairs : ~ r
    <3>1. ASSUME NEW r \in Repairs, r PROVE FALSE
      <4>1. r = TRUE
        BY <3>1, RepairsAssumption
      <4>2. QED
        BY <4>1
    <3>2. QED
      BY <3>1
  <2>3. ~ repair'
    <3>1. CASE \E r \in Repairs : repair' = r
      BY <2>2, <3>1
    <3>2. CASE StepFails \/ CrashReplay
      BY <3>2 DEF StepFails, CrashReplay
    <3>3. QED
      BY <1>4, <3>1, <3>2 DEF StartReplay
  <2>4. QED
    BY <2>1, <2>3 DEF lane
<1>5. CASE ReplayStep
  BY <1>5 DEF ReplayStep, ReadKey, Take, Validate, Repair, DeleteHistory, AppendHistory, RecordAudit,
              UpdateQueue, FinishReplay, lane
<1>6. CASE UNCHANGED vars
  BY <1>6 DEF vars, lane, process
<1>7. QED
  BY <1>1, <1>2, <1>3, <1>4, <1>5, <1>6 DEF Next

\* Every step keeps the rows those of the newest events.
LEMMA StepRowsMerged ==
  ASSUME TRUE \notin Repairs, ReplayInvariant, RowsMerged, [Next]_vars
  PROVE  RowsMerged'
<1>1. TypeOK /\ ~ repair /\ applied \in Nat
  BY DEF ReplayInvariant, TypeOK, RowsMerged
<1>2. /\ ~ repair' /\ columns' = columns
      /\ ApplyBatch \/ (current' = current /\ applied' = applied)
      /\ \A b \in 1..applied : cdc'[b] = cdc[b]
  BY <1>1, LaneFrame
<1>3. ASSUME NEW k \in Keys, Baseline[k] # NoRow
      PROVE  /\ \A s \in Merged(k)' : s.seq <= current'[k].seq
             /\ current'[k] = Baseline[k] \/ \E r \in Merged(k)' : RowOf(current'[k], r)
  <2>1. CASE ApplyBatch
    BY <1>3, <2>1, BatchMerged
  <2>2. CASE current' = current /\ applied' = applied
    <3>1. Merged(k)' = Merged(k)
      BY <1>2, <2>2 DEF Merged
    <3>2. QED
      BY <1>3, <2>2, <3>1 DEF RowsMerged
  <2>3. QED
    BY <1>2, <2>1, <2>2
<1>4. \A row, r : RowOf(row, r)' <=> RowOf(row, r)
  BY DEF RowOf
<1>5. QED
  BY <1>2, <1>3, <1>4 DEF RowsMerged

\* What the last version of a valid timeline says, by the events alone.
LEMMA TimelineEnd ==
  ASSUME NEW row \in SnapshotRow, NEW S, S \subseteq Record, OnePerId(S),
         ~ Collision(S), \A r \in S : r.seq > row.seq
  PROVE  LET t == Timeline(row, S)
         IN  /\ Valid(t)
             /\ S = {} => /\ Last(t).from = row.seq /\ Last(t).deleted = FALSE
                          /\ Last(t).val.amount = row.val.amount
             /\ \A s \in S : (\A r \in S : r.seq <= s.seq) =>
                  /\ Last(t).from = s.seq /\ Last(t).deleted = (s.op = "DELETE")
                  /\ Gives(s) => Last(t).val.amount = s.val.amount
             /\ (\A r \in S : r.val.version = 1) => Last(t).val.cycle = Null
<1> DEFINE t == Timeline(row, S)
           last == Last(t)
<1>1. Valid(t)
  BY ValidExactly
<1>2. \A i \in 1..Len(t) : Truthful(t[i], row, S)
  BY <1>1, TimelineTells
<1>3. /\ t \in Seq(Version) /\ Len(t) \in Nat /\ Len(t) >= 1 /\ t[1].from = row.seq
      /\ \A r \in S : \E i \in 2..Len(t) : t[i].from = r.seq /\ t[i].id = r.id
      /\ \A i \in 2..Len(t) : \E r \in S : t[i].from = r.seq /\ t[i].id = r.id
  <2>1. LET u == Timeline(row, S)
        IN  /\ u \in Seq(Version) /\ Len(u) \in Nat /\ Len(u) >= 1
            /\ u[1].from = row.seq
            /\ \A r \in S : \E i \in 2..Len(u) : u[i].from = r.seq /\ u[i].id = r.id
            /\ \A i \in 2..Len(u) : \E r \in S : u[i].from = r.seq /\ u[i].id = r.id
    BY TimelineHolds
  <2>2. QED
    BY <2>1 DEF t
<1> HIDE DEF t
<1>4. \A i \in 1..Len(t) : t[i].from <= last.from
  BY <1>1, <1>3, ValidEndsLast
<1>5. last = t[Len(t)] /\ Len(t) \in 1..Len(t)
  BY <1>3 DEF Last
<1> HIDE DEF last
<1>6. Truthful(last, row, S)
  BY <1>2, <1>5
<1>7. \A r \in S : r.seq <= last.from
  BY <1>3, <1>4
<1>8. UpTo(S, last.from, LAMBDA r : TRUE) = S
  BY <1>7 DEF UpTo
<1> DEFINE Amounts_ == {r \in S : Gives(r)}
           Cycles_ == {r \in S : GivesCycle(r)}
<1>9. UpTo(S, last.from, Gives) = Amounts_ /\ UpTo(S, last.from, GivesCycle) = Cycles_
  BY <1>7 DEF UpTo
<1> HIDE DEF Amounts_, Cycles_
<1>10. /\ last.deleted = (S # {} /\ Newest(S).op = "DELETE")
       /\ last.val.amount = IF Amounts_ = {} THEN row.val.amount ELSE Newest(Amounts_).val.amount
       /\ last.val.cycle = IF Cycles_ = {} THEN Null ELSE Newest(Cycles_).val.cycle
  BY <1>6, <1>8, <1>9 DEF Truthful
<1>11. CASE S = {}
  <2>1. Len(t) = 1
    <3>1. \A n \in Nat : n >= 1 /\ ~ n >= 2 => n = 1
      OBVIOUS
    <3>2. ~ Len(t) >= 2
      <4> SUFFICES ASSUME Len(t) >= 2 PROVE FALSE
        OBVIOUS
      <4>1. 2 \in 2..Len(t)
        BY <1>3
      <4>2. PICK r \in S : t[2].from = r.seq
        BY <1>3, <4>1
      <4>3. QED
        BY <1>11, <4>2
    <3>3. QED
      BY <1>3, <3>1, <3>2
  <2>2. Amounts_ = {} /\ Cycles_ = {}
    BY <1>11 DEF Amounts_, Cycles_
  <2>3. QED
    BY <1>1, <1>3, <1>5, <1>10, <1>11, <2>1, <2>2 DEF t, last
<1>12. ASSUME NEW s \in S, \A r \in S : r.seq <= s.seq
       PROVE  /\ last.from = s.seq /\ last.deleted = (s.op = "DELETE")
              /\ Gives(s) => last.val.amount = s.val.amount
  <2>1. Len(t) \in 2..Len(t)
    BY <1>3, <1>12
  <2>2. PICK u \in S : last.from = u.seq
    BY <1>3, <1>5, <2>1
  <2>3. \A q \in S : q.seq \in Nat
    BY BoundsAssumption DEF Record
  <2>4. last.from = s.seq
    BY <1>7, <1>12, <2>2, <2>3
  <2>5. Newest(S) = s
    BY <1>12, NewestIs
  <2>6. ASSUME Gives(s) PROVE Newest(Amounts_) = s /\ Amounts_ # {}
    <3>1. /\ s \in Amounts_ /\ Amounts_ \subseteq S
      BY <2>6 DEF Amounts_
    <3>2. Amounts_ \subseteq Record /\ ~ Collision(Amounts_) /\ OnePerId(Amounts_)
      BY <3>1 DEF Collision, OnePerId
    <3>3. \A r \in Amounts_ : r.seq <= s.seq
      BY <1>12, <3>1
    <3>4. QED
      BY <3>1, <3>2, <3>3, NewestIs
  <2>7. QED
    BY <1>10, <1>12, <2>4, <2>5, <2>6
<1>13. ASSUME \A r \in S : r.val.version = 1 PROVE last.val.cycle = Null
  <2>1. Cycles_ = {}
    BY <1>13 DEF Cycles_, GivesCycle
  <2>2. QED
    BY <1>10, <2>1
<1>14. CASE S # {}
  BY <1>1, <1>12, <1>13, <1>14 DEF t, last
<1>15. QED
  BY <1>11, <1>14

\* An event the forward lane has merged and the stored one of the same id.
LEMMA SameEvent ==
  ASSUME ReplayInvariant, NEW k \in Keys, NEW r \in Merged(k), NEW s \in Stored(k), r.id = s.id
  PROVE  r.seq = s.seq /\ r.op = s.op
<1>1. r \in Records /\ r.ok
  BY MergedType DEF ReplayInvariant
<1>2. s \in store
  BY DEF Stored
<1>3. PICK b \in 1..Len(cdc), t \in Tables : s \in Deduplicated(cdc[b][t])
  BY <1>2 DEF ReplayInvariant, StoreInvariant, StoreInOrder, FirstDeliveredBy
<1>4. s \in Records /\ s.ok
  BY <1>2, <1>3 DEF ReplayInvariant, TypeOK, Deduplicated, Accepted
<1>5. <<r.table, r.key, r.seq, r.op>> = <<s.table, s.key, s.seq, s.op>>
  BY <1>1, <1>4, IdentityAssumption
<1>6. QED
  BY <1>5

\* With the rows those of the newest events, the lanes agree.
LEMMA MergedAgree ==
  ASSUME ReplayInvariant, RowsMerged
  PROVE  LanesAgree
<1> SUFFICES ASSUME NEW k \in Keys, Comparable(k)
             PROVE  LET t == Timeline(Baseline[k], Stored(k))
                    IN  Valid(t) /\ Aligned(t, current[k], migrated, columns[k])
  BY DEF LanesAgree
<1> DEFINE base == Baseline[k]
           M == Merged(k)
           S == Stored(k)
           row == current[k]
           t == Timeline(base, S)
<1>1. /\ base # NoRow /\ base \in SnapshotRow
      /\ {r.id : r \in M} = {r.id : r \in S}
      /\ ~ Collision(M)
      /\ \A r \in M : /\ r.seq > base.seq
                      /\ r.op = "DELETE" \/ r.val.amount # Null
                      /\ \A s \in S : r.id = s.id => r.val = s.val
                      /\ migrated => r.val.version = 1
  BY BaselineAssumption DEF Comparable
<1>2. S \subseteq Record /\ OnePerId(S) /\ \A r \in M : r \in Record
  BY StoredType, MergedType, InvariantReady
<1>3. /\ columns[k] = Null
      /\ \A s \in M : s.seq <= row.seq
      /\ row = base \/ \E r \in M : RowOf(row, r)
  BY <1>1 DEF RowsMerged
<1>4. /\ base.seq \in Nat /\ base.deleted = FALSE
      /\ \A r \in M : r.seq \in Nat
      /\ \A s \in S : s.seq \in Nat
  BY <1>1, <1>2, BoundsAssumption DEF SnapshotRow, Row, Record
<1>5. \A r \in M, s \in S : r.id = s.id => r.seq = s.seq /\ r.op = s.op
  BY SameEvent
<1> HIDE DEF M, S, base, row, t
<1>6. /\ \A s \in S : \E r \in M : r.id = s.id /\ r.seq = s.seq /\ r.op = s.op /\ r.val = s.val
      /\ \A r \in M : \E s \in S : r.id = s.id /\ r.seq = s.seq /\ r.op = s.op /\ r.val = s.val
  <2>1. ASSUME NEW s \in S
        PROVE  \E r \in M : r.id = s.id /\ r.seq = s.seq /\ r.op = s.op /\ r.val = s.val
    <3>1. s.id \in {r.id : r \in M}
      BY <1>1, <2>1
    <3>2. PICK r \in M : r.id = s.id
      BY <3>1
    <3>3. QED
      BY <1>1, <1>5, <2>1, <3>2
  <2>2. ASSUME NEW r \in M
        PROVE  \E s \in S : r.id = s.id /\ r.seq = s.seq /\ r.op = s.op /\ r.val = s.val
    <3>1. r.id \in {s.id : s \in S}
      BY <1>1, <2>2
    <3>2. PICK s \in S : r.id = s.id
      BY <3>1
    <3>3. QED
      BY <1>1, <1>5, <2>2, <3>2
  <2>3. QED
    BY <2>1, <2>2
<1>7. ~ Collision(S) /\ \A s \in S : s.seq > base.seq
  BY <1>1, <1>6 DEF Collision
<1>8. /\ Valid(t)
      /\ S = {} => /\ Last(t).from = base.seq /\ Last(t).deleted = FALSE
                   /\ Last(t).val.amount = base.val.amount
      /\ \A s \in S : (\A r \in S : r.seq <= s.seq) =>
           /\ Last(t).from = s.seq /\ Last(t).deleted = (s.op = "DELETE")
           /\ Gives(s) => Last(t).val.amount = s.val.amount
      /\ (\A r \in S : r.val.version = 1) => Last(t).val.cycle = Null
  BY <1>1, <1>2, <1>7, TimelineEnd DEF t
<1>9. migrated => Last(t).val.cycle = Null
  BY <1>1, <1>6, <1>8
<1>10. CASE row = base
  <2>1. M = {}
    BY <1>1, <1>3, <1>4, <1>10
  <2>2. S = {}
    BY <1>6, <2>1
  <2>3. Aligned(t, row, migrated, columns[k])
    <3>1. /\ Last(t).from = row.seq
          /\ Last(t).deleted = row.deleted
          /\ Last(t).val.amount = row.val.amount
      BY <1>4, <1>8, <1>10, <2>2
    <3>2. migrated => Last(t).val.cycle = columns[k]
      BY <1>3, <1>9
    <3>3. QED
      BY <3>1, <3>2 DEF Aligned
  <2>4. QED
    BY <1>8, <2>3 DEF t, base, S, row
<1>11. CASE \E r \in M : RowOf(row, r)
  <2>1. PICK r \in M : RowOf(row, r)
    BY <1>11
  <2>2. PICK s \in S : r.id = s.id /\ r.seq = s.seq /\ r.op = s.op /\ r.val = s.val
    BY <1>6
  <2>3. row.seq = s.seq /\ row.deleted = (s.op = "DELETE")
        /\ (s.op # "DELETE" => row.val = V1Only(s.val))
    BY <2>1, <2>2 DEF RowOf
  <2>4. \A q \in S : q.seq <= s.seq
    BY <1>3, <1>6, <2>3
  <2>5. /\ Last(t).from = s.seq /\ Last(t).deleted = (s.op = "DELETE")
        /\ Gives(s) => Last(t).val.amount = s.val.amount
    BY <1>8, <2>4
  <2>6. s.op # "DELETE" => Gives(s)
    BY <1>1, <2>2 DEF Gives
  <2>7. s.val \in Attributes
    BY <1>2, PayloadAssumption DEF Record, Payload
  <2>8. V1Only(s.val).amount = s.val.amount
    BY <2>7 DEF V1Only, Attributes
  <2>9. Aligned(t, row, migrated, columns[k])
    BY <1>3, <1>9, <2>3, <2>5, <2>6, <2>8 DEF Aligned
  <2>10. QED
    BY <1>8, <2>9 DEF t, base, S, row
<1>12. QED
  BY <1>3, <1>10, <1>11

\* As long as no replay repairs, the row the MERGEs left is what the timeline
\* of the stored events ends in, for every key whose feed keeps to the contract.
THEOREM Agreement ==
  ASSUME TRUE \notin Repairs
  PROVE  Spec => []LanesAgree
<1>1. Init => RowsMerged
  <2> SUFFICES ASSUME Init PROVE RowsMerged
    OBVIOUS
  <2>1. \A k \in Keys : Merged(k) = {}
    BY DEF Init, Merged
  <2>2. QED
    BY <2>1 DEF Init, RowsMerged
<1>2. ReplayInvariant /\ RowsMerged /\ [Next]_vars => RowsMerged'
  BY StepRowsMerged
<1>3. ReplayInvariant /\ RowsMerged => LanesAgree
  BY MergedAgree
<1>4. QED
  BY Consistent, <1>1, <1>2, <1>3, PTL DEF Spec
=============================================================================
