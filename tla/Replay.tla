------------------------------- MODULE Replay --------------------------------
(***************************************************************************)
(* The correction lane of the subscriptions table, beside the forward one: *)
(* the event store is backfilled from the landed batches, events behind    *)
(* their row are queued, and replay rebuilds the SCD2 history of one key   *)
(* after the other.  Every command is a process of its own, run whenever   *)
(* its operator likes; no transaction spans two Delta commits, any step    *)
(* may raise, and the process may die between any two.                     *)
(*                                                                         *)
(* The forward lane appears as DeltaApply shows it to be from outside: one *)
(* batch after the other, each merged once.                                *)
(***************************************************************************)
EXTENDS History

CONSTANTS
  Subscriptions,  \* the table replay supports
  Baseline,       \* its snapshot
  Repairs,        \* values --repair-current is given
  BatchContents,  \* the batches that may land
  MaxBatches,     \* bound on the batches that land
  MaxFaults       \* bound on exceptions and deaths

ASSUME SubscriptionsAssumption == Subscriptions \in Tables

ASSUME BaselineAssumption == Baseline \in [Keys -> SnapshotRow \cup {NoRow}]

ASSUME RepairsAssumption == Repairs \subseteq BOOLEAN

ASSUME ContentsAssumption == BatchContents \subseteq BatchFiles

ASSUME ReplayLimitsAssumption == MaxBatches \in Nat /\ MaxFaults \in Nat

VARIABLES
  cdc,       \* the landed batches
  applied,   \* how many the forward lane has applied
  current,   \* current-state rows; val holds the V1 attributes only
  migrated,  \* the table has its V2 columns
  columns,   \* the V2 column of a row, NULL until something writes it
  store,     \* cdc_event_store (none while it is empty)
  seeded,    \* subscriptions_history exists
  history,   \* the versions of each key
  queue,     \* late_event_queue by event id: [status, attempts]
  audit      \* replay_audit by event id: [status, attempt]

VARIABLES
  backlog,   \* files the running backfill has still to read
  pc,        \* where the replay process is; "idle" when none runs
  repair,    \* its --repair-current
  work,      \* pending items it has loaded and not yet taken
  item,      \* the item it works on
  timeline,  \* the timeline it has reconstructed
  outcome,   \* the status it will record for the item
  faults     \* exceptions and deaths so far

lane == <<cdc, applied, current, migrated, columns>>
tables == <<store, seeded, history, queue, audit>>
process == <<pc, repair, work, item, timeline, outcome>>
vars == <<lane, tables, backlog, process, faults>>

Batches == 1..MaxBatches

Settled == {"APPLIED", "CONFLICT", "FAILED"}

Item == [status : Settled \cup {"PENDING"}, attempts : Nat]

TypeOK ==
  /\ cdc \in Seq(BatchContents) /\ applied \in 0..Len(cdc) /\ Len(cdc) <= MaxBatches
  /\ current \in Rows /\ migrated \in BOOLEAN /\ columns \in [Keys -> Cycles \cup {Null}]
  /\ store \subseteq Records /\ seeded \in BOOLEAN
  /\ history \in [Keys -> SUBSET Version]
  /\ queue \in [EventIds -> Item \cup {NoEntry}]
  /\ audit \in [EventIds -> [status : Settled, attempt : Nat] \cup {NoEntry}]
  /\ backlog \subseteq Batches \X Tables
  /\ pc \in {"idle", "next", "validate", "delete", "append", "audit", "queue"}
  /\ repair \in BOOLEAN /\ work \subseteq EventIds /\ item \in EventIds \cup {NoEntry}
  /\ timeline \in Seq(Version) /\ outcome \in Settled \cup {NoEntry}
  /\ faults \in 0..MaxFaults

Init ==
  /\ cdc = << >> /\ applied = 0
  /\ current = Baseline /\ migrated = FALSE /\ columns = [k \in Keys |-> Null]
  /\ store = {} /\ seeded = FALSE /\ history = [k \in Keys |-> {}]
  /\ queue = [i \in EventIds |-> NoEntry] /\ audit = [i \in EventIds |-> NoEntry]
  /\ backlog = {}
  /\ pc = "idle" /\ repair = FALSE /\ work = {} /\ item = NoEntry
  /\ timeline = << >> /\ outcome = NoEntry
  /\ faults = 0

-----------------------------------------------------------------------------
(***************************************************************************)
(* The forward lane and the schema migration.                              *)
(***************************************************************************)
Land ==
  /\ Len(cdc) < MaxBatches
  /\ \E files \in BatchContents : cdc' = Append(cdc, files)
  /\ UNCHANGED <<applied, current, migrated, columns, tables, backlog, process, faults>>

\* What the forward lane and the V1 columns of a row hold of an after-image.
V1Only(val) == [val EXCEPT !.cycle = Null]

\* from_json with the V1 schema: the V2 attributes of an event are dropped.
ForwardParsed(b) ==
  {[r EXCEPT !.val = V1Only(r.val)] : r \in Parsed(cdc[b][Subscriptions], Subscriptions)}

\* apply-cdc takes the next batch; it never writes the V2 columns.
ApplyBatch ==
  /\ applied < Len(cdc)
  /\ applied' = applied + 1
  /\ current' = Merge(current, ForwardParsed(applied + 1), applied + 1)
  /\ UNCHANGED <<cdc, migrated, columns, tables, backlog, process, faults>>

\* migrate-schema: ALTER TABLE, or nothing when the columns exist.
Migrate ==
  /\ ~ migrated
  /\ migrated' = TRUE
  /\ UNCHANGED <<cdc, applied, current, columns, tables, backlog, process, faults>>

-----------------------------------------------------------------------------
(***************************************************************************)
(* The event store.                                                        *)
(***************************************************************************)
\* build-event-store discovers every batch, whatever earlier runs stored.
StartBackfill ==
  /\ backlog = {}
  /\ backlog' = {f \in (1..Len(cdc)) \X Tables : cdc[f[1]][f[2]] # {}}
  /\ UNCHANGED <<lane, tables, process, faults>>

FileBefore(f, g) == f[1] < g[1] \/ (f[1] = g[1] /\ TableRank[f[2]] <= TableRank[g[2]])

\* A stored event of the same id with another immutable content.
Conflicts(events) == \E r \in events, s \in store : r.id = s.id /\ r.val # s.val

\* Faulty variant of Upserted: a matched event is overwritten.
UpsertedLast(events) ==
  IF Conflicts(events) THEN {s \in store : \A r \in events : s.id # r.id} \cup events
  ELSE store \cup {r \in events : \A s \in store : s.id # r.id}

\* upsert_to_event_store: all of a file, or nothing when one event conflicts.
Upserted(events) ==
  IF Conflicts(events) THEN store
  ELSE store \cup {r \in events : \A s \in store : s.id # r.id}

\* Files go in batch order, then table order, every table to the one store;
\* EventIdentityConflictError ends the command.
BackfillFile(b, t) ==
  /\ <<b, t>> \in backlog /\ \A g \in backlog : FileBefore(<<b, t>>, g)
  /\ store' = Upserted(Deduplicated(cdc[b][t]))
  /\ backlog' = IF Conflicts(Deduplicated(cdc[b][t])) THEN {} ELSE backlog \ {<<b, t>>}
  /\ UNCHANGED <<lane, seeded, history, queue, audit, process, faults>>

CrashBackfill ==
  /\ backlog # {} /\ faults < MaxFaults
  /\ backlog' = {} /\ faults' = faults + 1
  /\ UNCHANGED <<lane, tables, process>>

-----------------------------------------------------------------------------
(***************************************************************************)
(* Seeding the history and queueing late events.                           *)
(***************************************************************************)
InitHistory ==
  /\ ~ seeded
  /\ seeded' = TRUE
  /\ history' = [k \in Keys |-> IF Baseline[k] = NoRow THEN {} ELSE {BaseVersion(Baseline[k])}]
  /\ UNCHANGED <<lane, store, queue, audit, backlog, process, faults>>

\* Stored events behind the row of their key.
Behind == {r \in store : r.table = Subscriptions /\ current[r.key] # NoRow
                         /\ r.seq < current[r.key].seq}

\* Faulty variant of NewItem: the attempt count is not initialised.
NewItemUncounted == [status |-> "PENDING", attempts |-> Null]

NewItem == [status |-> "PENDING", attempts |-> 0]

\* Faulty variant of Enqueued: a matched item is queued again.
EnqueuedAgain(ids) == [i \in EventIds |-> IF i \in ids THEN NewItem ELSE queue[i]]

\* MERGE with an insert clause only: a known item keeps its status.
Enqueued(ids) == [i \in EventIds |-> IF i \in ids /\ queue[i] = NoEntry THEN NewItem ELSE queue[i]]

DetectLate ==
  /\ store # {}
  /\ queue' = Enqueued({r.id : r \in Behind})
  /\ UNCHANGED <<lane, store, seeded, history, audit, backlog, process, faults>>

-----------------------------------------------------------------------------
(***************************************************************************)
(* replay-late-events.                                                     *)
(***************************************************************************)
Pending == {i \in EventIds : queue[i] # NoEntry /\ queue[i].status = "PENDING"}

StartReplay(r) ==
  /\ pc = "idle" /\ Pending # {}
  /\ pc' = "next" /\ repair' = r /\ work' = Pending
  /\ UNCHANGED <<lane, tables, backlog, item, timeline, outcome, faults>>

\* The stored event of a queued id: the store never loses one.
Event(i) == CHOOSE r \in store : r.id = i

Stored(k) == {r \in store : r.table = Subscriptions /\ r.key = k}

\* The next item is taken: items go by sequence, then id.
Take(i) ==
  /\ pc = "next"
  /\ i \in work /\ \A j \in work \ {i} : Earlier(Event(i), Event(j))
  /\ work' = work \ {i} /\ item' = i

\* The snapshot and the store are read; a key without a baseline fails, a
\* collision is a conflict.
ReadKey(i) ==
  LET k == Event(i).key
  IN /\ Take(i)
     /\ \/ /\ Baseline[k] = NoRow
           /\ pc' = "audit" /\ outcome' = "FAILED" /\ UNCHANGED timeline
        \/ /\ Baseline[k] # NoRow /\ Collision(Stored(k))
           /\ pc' = "audit" /\ outcome' = "CONFLICT" /\ UNCHANGED timeline
        \/ /\ Baseline[k] # NoRow /\ ~ Collision(Stored(k))
           /\ pc' = "validate" /\ timeline' = Timeline(Baseline[k], Stored(k))
           /\ UNCHANGED outcome
     /\ UNCHANGED <<lane, tables, backlog, repair, faults>>

\* Faulty variant of Fail: the exception is swallowed.
FailQuietly == pc' = "audit" /\ outcome' = "APPLIED"

\* The generic exception handler is entered.
Fail == pc' = "audit" /\ outcome' = "FAILED"

Key == Event(item).key

\* Faulty variant of Checked: the row is not looked at.
ValidOnly == Valid(timeline)

\* All eleven invariants, the row being read now.
Checked == Valid(timeline) /\ Aligned(timeline, current[Key], migrated, columns[Key])

Validate ==
  /\ pc = "validate" /\ ~ repair
  /\ IF Checked THEN pc' = "delete" /\ UNCHANGED outcome ELSE Fail
  /\ UNCHANGED <<lane, tables, backlog, repair, work, item, timeline, faults>>

\* --repair-current: the row becomes what the timeline ends in.
Repair ==
  LET newest == Last(timeline)
  IN /\ pc = "validate" /\ repair
     /\ IF Valid(timeline)
        THEN /\ current' = [current EXCEPT ![Key].seq = newest.from, ![Key].id = newest.id,
                                           ![Key].deleted = newest.deleted,
                                           ![Key].val = V1Only(newest.val)]
             /\ columns' = IF migrated THEN [columns EXCEPT ![Key] = newest.val.cycle] ELSE columns
             /\ pc' = "delete" /\ UNCHANGED outcome
        ELSE Fail /\ UNCHANGED <<current, columns>>
     /\ UNCHANGED <<cdc, applied, migrated, tables, backlog, repair, work, item, timeline, faults>>

\* Faulty variant of DeleteHistory: the old versions stay.
DeleteNothing ==
  /\ pc = "delete"
  /\ IF seeded THEN pc' = "append" /\ UNCHANGED outcome ELSE Fail
  /\ UNCHANGED <<lane, tables, backlog, repair, work, item, timeline, faults>>

\* The first of the two commits that replace the history of the key; it
\* raises when the history table does not exist.
DeleteHistory ==
  /\ pc = "delete"
  /\ IF seeded
     THEN history' = [history EXCEPT ![Key] = {}] /\ pc' = "append" /\ UNCHANGED outcome
     ELSE Fail /\ UNCHANGED history
  /\ UNCHANGED <<lane, store, seeded, queue, audit, backlog, repair, work, item, timeline, faults>>

AppendHistory ==
  /\ pc = "append"
  /\ history' = [history EXCEPT ![Key] = @ \cup ToSet(timeline)]
  /\ pc' = "audit" /\ outcome' = "APPLIED"
  /\ UNCHANGED <<lane, store, seeded, queue, audit, backlog, repair, work, item, timeline, faults>>

\* Faulty variant of RecordAudit: the first record of an event is kept.
RecordAuditOnce ==
  /\ pc = "audit"
  /\ audit' = IF audit[item] # NoEntry THEN audit
              ELSE [audit EXCEPT ![item] = [status |-> outcome, attempt |-> queue[item].attempts + 1]]
  /\ pc' = "queue"
  /\ UNCHANGED <<lane, store, seeded, history, queue, backlog, repair, work, item, timeline,
                 outcome, faults>>

\* record_replay_audit overwrites the record of the event.
RecordAudit ==
  /\ pc = "audit"
  /\ audit' = [audit EXCEPT ![item] = [status |-> outcome, attempt |-> queue[item].attempts + 1]]
  /\ pc' = "queue"
  /\ UNCHANGED <<lane, store, seeded, history, queue, backlog, repair, work, item, timeline,
                 outcome, faults>>

\* Faulty variant of UpdateQueue: a failure is left to the next run.
UpdateQueueRetrying ==
  /\ pc = "queue"
  /\ queue' = IF outcome = "FAILED" THEN queue
              ELSE [queue EXCEPT ![item] = [status |-> outcome, attempts |-> @.attempts + 1]]
  /\ pc' = "next" /\ item' = NoEntry /\ timeline' = << >> /\ outcome' = NoEntry
  /\ UNCHANGED <<lane, store, seeded, history, audit, backlog, repair, work, faults>>

\* update_queue_status; the next item, if any, is taken.
UpdateQueue ==
  /\ pc = "queue"
  /\ queue' = [queue EXCEPT ![item] = [status |-> outcome, attempts |-> @.attempts + 1]]
  /\ pc' = "next" /\ item' = NoEntry /\ timeline' = << >> /\ outcome' = NoEntry
  /\ UNCHANGED <<lane, store, seeded, history, audit, backlog, repair, work, faults>>

FinishReplay ==
  /\ pc = "next" /\ work = {}
  /\ pc' = "idle" /\ repair' = FALSE
  /\ UNCHANGED <<lane, tables, backlog, work, item, timeline, outcome, faults>>

\* What the try block has still to do for the item in work.
Trying == pc \in {"validate", "delete", "append"} \/ (pc \in {"audit", "queue"} /\ outcome = "APPLIED")

\* A read or a write of the try block raises: what is committed stays, and
\* the item fails, even one whose history is in place, or whose key collides
\* if the reads raise before that is seen.
StepFails ==
  /\ faults < MaxFaults
  /\ \/ Trying /\ UNCHANGED <<work, item>>
     \/ \E i \in work : Take(i)
  /\ Fail /\ faults' = faults + 1
  /\ UNCHANGED <<lane, tables, backlog, repair, timeline>>

\* The process dies, or a write of the exception handler raises.
CrashReplay ==
  /\ pc # "idle" /\ faults < MaxFaults
  /\ faults' = faults + 1
  /\ pc' = "idle" /\ repair' = FALSE /\ work' = {} /\ item' = NoEntry
  /\ timeline' = << >> /\ outcome' = NoEntry
  /\ UNCHANGED <<lane, tables, backlog>>

-----------------------------------------------------------------------------
Backfill == StartBackfill \/ CrashBackfill \/ \E b \in Batches, t \in Tables : BackfillFile(b, t)

\* What the replay process does when nothing goes wrong.
ReplayStep ==
  \/ \E i \in EventIds : ReadKey(i)
  \/ Validate \/ Repair \/ DeleteHistory \/ AppendHistory \/ RecordAudit \/ UpdateQueue
  \/ FinishReplay

Next ==
  \/ Land \/ ApplyBatch \/ Migrate \/ Backfill \/ InitHistory \/ DetectLate
  \/ \E r \in Repairs : StartReplay(r)
  \/ ReplayStep \/ StepFails \/ CrashReplay

Spec == Init /\ [][Next]_vars

\* replay-late-events is run again while something is pending, and a process
\* that does not die makes progress.
Fairness == WF_vars(\E r \in Repairs : StartReplay(r)) /\ WF_vars(ReplayStep)

FairSpec == Spec /\ Fairness

-----------------------------------------------------------------------------
(***************************************************************************)
(* The history answers "what was the state at sequence s" once for every   *)
(* s from the snapshot on, and its open version is the current one;        *)
(* between the two commits of a replacement, and after a fault there, it   *)
(* is empty (history_rebuilder.py, step 7).                                *)
(***************************************************************************)
HistoryTiles ==
  \A k \in Keys : history[k] # {} =>
    /\ Tiles(history[k], Baseline[k].seq)
    /\ \A v \in history[k] : v.current <=> v.to = Open

(***************************************************************************)
(* An item marked APPLIED is in the history of its key, unless a later     *)
(* replacement has left the key without any: no replacement drops an event *)
(* an earlier one had put there.                                           *)
(***************************************************************************)
AppliedIsInHistory ==
  \A i \in EventIds : queue[i] # NoEntry /\ queue[i].status = "APPLIED" =>
    history[Event(i).key] = {} \/ \E v \in history[Event(i).key] : v.id = i

(***************************************************************************)
(* A settled item has an audit record of the same status and attempt: the  *)
(* audit is written first, and whatever a fault leaves between the two     *)
(* writes is overwritten on the way to the status the item ends with.      *)
(***************************************************************************)
QueueBackedByAudit ==
  \A i \in EventIds : queue[i] # NoEntry /\ queue[i].status \in Settled =>
    audit[i] = [status |-> queue[i].status, attempt |-> queue[i].attempts]

(***************************************************************************)
(* The store holds of every event the content its first file delivered:    *)
(* neither a rerun of the backfill, nor one cut short, nor a copy that     *)
(* differs changes it (upsert_to_event_store, contract 2 and 3).           *)
(***************************************************************************)
StoreHoldsFirst ==
  \A r \in store : \E b \in 1..Len(cdc), t \in Tables :
    /\ r \in Deduplicated(cdc[b][t])
    /\ \A c \in 1..Len(cdc), u \in Tables :
         \A s \in Deduplicated(cdc[c][u]) :
           s.id = r.id /\ s.val # r.val => FileBefore(<<b, t>>, <<c, u>>)

(***************************************************************************)
(* History is never ahead of the current row: replay refuses a store that  *)
(* knows events the forward lane has not applied, also when the lane moves *)
(* between the check and the commits.                                      *)
(***************************************************************************)
HistoryNotAhead ==
  \A k \in Keys : \A v \in history[k] : v.from <= current[k].seq

\* The events of key k the forward lane has merged.
Merged(k) ==
  {r \in UNION {Parsed(cdc[b][Subscriptions], Subscriptions) : b \in 1..applied} : r.key = k}

\* The feed keeps to the full after-image contract for k, and the store and
\* the forward lane have seen the same.
Comparable(k) ==
  /\ Baseline[k] # NoRow
  /\ {r.id : r \in Merged(k)} = {r.id : r \in Stored(k)}
  /\ ~ Collision(Merged(k))
  /\ \A r \in Merged(k) :
       /\ r.seq > Baseline[k].seq
       /\ r.op = "DELETE" \/ r.val.amount # Null
       /\ \A s \in Stored(k) : r.id = s.id => r.val = s.val
       /\ migrated => r.val.version = 1

(***************************************************************************)
(* The two lanes agree: for such a key, the row the MERGEs left, batch by  *)
(* batch and in any order of arrival, is what the timeline of the stored   *)
(* events ends in, so an unrepaired replay never reports a drift.          *)
(***************************************************************************)
LanesAgree ==
  \A k \in Keys : Comparable(k) =>
    LET t == Timeline(Baseline[k], Stored(k))
    IN Valid(t) /\ Aligned(t, current[k], migrated, columns[k])

(***************************************************************************)
(* A settled item stays as it is: neither detection, which finds it again  *)
(* each time, nor a rerun, touches it (enqueue_late_events, idempotency).  *)
(***************************************************************************)
SettledStaysSettled ==
  [][\A i \in EventIds : queue[i] # NoEntry /\ queue[i].status \in Settled =>
       queue'[i] = queue[i]]_vars

\* Whatever raises or dies, a queued event is settled in the end.
PendingIsSettled == \A i \in EventIds : (i \in Pending) ~> (i \notin Pending)

-----------------------------------------------------------------------------
(***************************************************************************)
(* Why these hold: what each step may rely on of the steps before it.      *)
(***************************************************************************)
\* Every landed file before one the backfill has still to read is stored: a
\* run begins with the first file and ends at a conflict.
BackfillInOrder ==
  /\ backlog \subseteq (1..Len(cdc)) \X Tables
  /\ \A g \in backlog, c \in 1..Len(cdc), u \in Tables :
       FileBefore(<<c, u>>, g) /\ <<c, u>> \notin backlog =>
         \A s \in Deduplicated(cdc[c][u]) : \E r \in store : r.id = s.id

\* File <<b, t>> delivers r, and no file before it an event of the same id.
FirstDeliveredBy(r, b, t) ==
  /\ r \in Deduplicated(cdc[b][t])
  /\ \A c \in 1..Len(cdc), u \in Tables :
       FileBefore(<<c, u>>, <<b, t>>) /\ <<c, u>> # <<b, t>> =>
         \A s \in Deduplicated(cdc[c][u]) : s.id # r.id

StoreInOrder ==
  /\ OnePerId(store)
  /\ \A r \in store : \E b \in 1..Len(cdc), t \in Tables : FirstDeliveredBy(r, b, t)

\* What is queued is stored: Event names it, now and from now on.
QueueStored ==
  \A i \in EventIds : queue[i] # NoEntry => \E r \in store : r.id = i /\ r.table = Subscriptions

\* The process works on pending items, and records the one it works on in
\* the audit before it settles it.
WorkPending ==
  /\ pc = "idle" => work = {}
  /\ \A i \in work : queue[i] # NoEntry /\ queue[i].status = "PENDING"
  /\ pc \notin {"idle", "next"} =>
       /\ item \in EventIds /\ item \notin work
       /\ queue[item] # NoEntry /\ queue[item].status = "PENDING"
  /\ pc \in {"audit", "queue"} => outcome \in Settled
  /\ pc = "queue" => audit[item] = [status |-> outcome, attempt |-> queue[item].attempts + 1]

Replacing == pc \in {"validate", "delete", "append"}

\* The timeline starts with the snapshot, consists of stored events, and has
\* its item, every applied item of the key and every version it replaces.
TimelineRead ==
  Replacing =>
    /\ Baseline[Key] # NoRow
    /\ Len(timeline) >= 1 /\ timeline[1].from = Baseline[Key].seq
    /\ \A n \in 2..Len(timeline) : \E r \in Stored(Key) : timeline[n].from = r.seq
    /\ \E n \in 1..Len(timeline) : timeline[n].id = item
    /\ \A i \in EventIds :
         queue[i] # NoEntry /\ queue[i].status = "APPLIED" /\ Event(i).key = Key =>
           \E n \in 1..Len(timeline) : timeline[n].id = i
    /\ \A v \in history[Key] : \E n \in 1..Len(timeline) : timeline[n].from = v.from

\* What passed the check still holds when the history is replaced, although
\* the forward lane may have moved the row on.
TimelineChecked ==
  pc \in {"delete", "append"} =>
    Valid(timeline) /\ \A n \in 1..Len(timeline) : timeline[n].from <= current[Key].seq

\* The versions are appended to an emptied history, and are there from then
\* until the item is settled.
ReplacedWhole ==
  /\ pc = "append" => seeded /\ history[Key] = {}
  /\ pc \in {"audit", "queue"} /\ outcome = "APPLIED" => \E v \in history[Key] : v.id = item

\* Before init-history there is nothing it could overwrite.
NothingBeforeSeed ==
  ~ seeded => /\ \A k \in Keys : history[k] = {}
              /\ \A i \in EventIds : queue[i] # NoEntry => queue[i].status # "APPLIED"

\* The history is of keys of the snapshot and knows no sequence the store
\* does not know.
HistoryStored ==
  \A k \in Keys : \A v \in history[k] :
    Baseline[k] # NoRow /\ (v.from = Baseline[k].seq \/ \E r \in Stored(k) : r.seq = v.from)

\* No row of the snapshot is lost or falls behind it, not even by a repair.
RowsFromBaseline ==
  \A k \in Keys : Baseline[k] # NoRow => current[k] # NoRow /\ Baseline[k].seq <= current[k].seq

\* The row of a MERGE of event r, from the forward lane's view of it.
RowOf(row, r) ==
  /\ row.seq = r.seq /\ row.deleted = (r.op = "DELETE")
  /\ r.op # "DELETE" => row.val = V1Only(r.val)

\* As long as nothing is repaired, a row is that of the newest event merged, or
\* that of the snapshot, and no V2 column is filled.
RowsMerged ==
  /\ ~ repair
  /\ \A k \in Keys : columns[k] = Null
  /\ \A k \in Keys : Baseline[k] # NoRow =>
       /\ \A s \in Merged(k) : s.seq <= current[k].seq
       /\ current[k] = Baseline[k] \/ \E r \in Merged(k) : RowOf(current[k], r)

\* The backfill alone, and everything.
StoreInvariant == BackfillInOrder /\ StoreInOrder

ReplayInvariant ==
  /\ TypeOK /\ StoreInvariant /\ QueueStored /\ WorkPending /\ TimelineRead /\ TimelineChecked
  /\ ReplacedWhole /\ NothingBeforeSeed /\ HistoryStored /\ RowsFromBaseline
  /\ HistoryTiles /\ AppliedIsInHistory /\ QueueBackedByAudit /\ HistoryNotAhead

-----------------------------------------------------------------------------
(***************************************************************************)
(* Statements of the documentation that the code does not satisfy.         *)
(***************************************************************************)

\* docs/06: late events are handled "without corrupting current business
\* state".  A repair from a store that was not backfilled since moves the row
\* back to an event it was past.
RowNeverRegresses ==
  [][\A k \in Keys : current[k] # NoRow => current'[k].seq >= current[k].seq]_vars

\* docs/07: rows of the migrated table hold NULL "until updated by a V2
\* event".  The forward lane parses V1 columns only and fills them never.
V2EventFillsColumns ==
  [][\A k \in Keys : \A r \in Merged(k)' :
       migrated /\ r.val.version = 2 /\ r.op # "DELETE" /\ r.id = current'[k].id /\ current'[k] # current[k]
         => columns'[k] = r.val.cycle]_vars
=============================================================================
