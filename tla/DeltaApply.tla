----------------------------- MODULE DeltaApply ------------------------------
(***************************************************************************)
(* The apply pipeline (DeltaCDCApplier.run_apply_pipeline): one process    *)
(* takes the landed batches in numeric order and writes, one store after   *)
(* the other, the Delta tables, the applied-event ledger, the metrics and  *)
(* the checkpoint.  No transaction spans two stores and the process may    *)
(* die between any two writes; a later run starts again from what the      *)
(* stores hold.                                                            *)
(***************************************************************************)
EXTENDS DeltaMerge

CONSTANTS
  Snapshot,       \* the rows each table is initialised with
  BatchContents,  \* the batches that may land
  MaxBatches,     \* bound on the batches that land
  MaxCrashes      \* bound on the deaths of the process

\* initialize_delta_current_state: a row of the snapshot carries the sentinel
\* for an event and no batch.
ASSUME SnapshotAssumption ==
  /\ Snapshot \in [Tables -> Rows]
  /\ \A t \in Tables, k \in Keys :
       Snapshot[t][k] # NoRow => Snapshot[t][k].id = SnapshotId /\ Snapshot[t][k].batch = SnapshotBatch

ASSUME BatchContentsAssumption == BatchContents \subseteq BatchFiles

ASSUME LimitsAssumption == MaxBatches \in Nat /\ MaxCrashes \in Nat

VARIABLES
  cdc,         \* the landed batches: cdc[b] is the directory batch_id=b
  ready,       \* tables whose current-state Delta table exists
  target,      \* current-state rows (no rows while the table is not ready)
  ledger,      \* applied_events: outcome by event id
  metrics,     \* batch_apply_metrics: the audit records each row counts
  quarantine,  \* how often a file's rejected rows were appended
  checkpoint   \* checkpoint_state.json: [hwm, completed]

VARIABLES
  pc,         \* where the process is; "idle" when none runs
  todo,       \* batches this run has still to apply
  batch,      \* the batch being applied
  pending,    \* tables the current loop has still to visit
  staged,     \* staged audit records (staged_audit_dfs)
  stagedHwm   \* staged_hwm_updates

\* History variables: no action of the code reads them.
VARIABLES
  merged,   \* batches each table's MERGE has been through
  crashes   \* deaths so far

durable == <<ready, target, ledger, metrics, quarantine, checkpoint>>
volatile == <<pc, todo, batch, pending, staged, stagedHwm>>
vars == <<cdc, durable, volatile, merged, crashes>>

Batches == 1..MaxBatches

Steps == {"idle", "init", "next", "read", "merge", "metrics", "reconcile"}

TypeOK ==
  /\ cdc \in Seq(BatchContents) /\ Len(cdc) <= MaxBatches
  /\ ready \subseteq Tables
  /\ target \in [Tables -> Rows]
  /\ ledger \in Entries
  /\ metrics \in [Batches -> [Tables -> Entries]]
  /\ quarantine \in [Batches -> [Tables -> Nat]]
  /\ checkpoint \in [hwm : [Tables -> Nat], completed : SUBSET Batches]
  /\ pc \in Steps
  /\ todo \subseteq Batches
  /\ batch \in 0..MaxBatches
  /\ pending \subseteq Tables
  /\ staged \in Entries
  /\ stagedHwm \in [Tables -> Nat]
  /\ merged \in [Tables -> SUBSET Batches]
  /\ crashes \in Nat

NoMarks == [t \in Tables |-> 0]

Init ==
  /\ cdc = << >>
  /\ ready = {}
  /\ target = [t \in Tables |-> [k \in Keys |-> NoRow]]
  /\ ledger = NoEntries
  /\ metrics = [b \in Batches |-> [t \in Tables |-> NoEntries]]
  /\ quarantine = [b \in Batches |-> [t \in Tables |-> 0]]
  /\ checkpoint = [hwm |-> NoMarks, completed |-> {}]
  /\ pc = "idle" /\ todo = {} /\ batch = 0 /\ pending = {}
  /\ staged = NoEntries /\ stagedHwm = NoMarks
  /\ merged = [t \in Tables |-> {}]
  /\ crashes = 0

-----------------------------------------------------------------------------
\* The feed writes the next batch directory.
Land ==
  /\ Len(cdc) < MaxBatches
  /\ \E files \in BatchContents : cdc' = Append(cdc, files)
  /\ UNCHANGED <<durable, volatile, merged, crashes>>

\* The command is run (or run again after a crash).
StartRun ==
  /\ pc = "idle"
  /\ pc' = "init"
  /\ UNCHANGED <<cdc, durable, todo, batch, pending, staged, stagedHwm, merged, crashes>>

\* Faulty variant of InitializeTable: an existing table is written again.
InitializeAgain(t) ==
  /\ pc = "init"
  /\ t \in Tables
  /\ ready' = ready \cup {t}
  /\ target' = [target EXCEPT ![t] = Snapshot[t]]
  /\ UNCHANGED <<cdc, ledger, metrics, quarantine, checkpoint, volatile, merged, crashes>>

\* ensure_current_state_initialized: a table that exists is left alone, the
\* others are written from the snapshot, one Delta commit each.
InitializeTable(t) ==
  /\ pc = "init"
  /\ IsFirst(t, Tables \ ready)
  /\ ready' = ready \cup {t}
  /\ target' = [target EXCEPT ![t] = Snapshot[t]]
  /\ UNCHANGED <<cdc, ledger, metrics, quarantine, checkpoint, volatile, merged, crashes>>

\* Faulty variants of Discover: batches counted from 0; completed batches are
\* not filtered out.
DiscoverFromZero ==
  /\ pc = "init"
  /\ ready = Tables
  /\ pc' = "next"
  /\ todo' = (0..Len(cdc)) \ checkpoint.completed
  /\ UNCHANGED <<cdc, durable, batch, pending, staged, stagedHwm, merged, crashes>>

DiscoverAll ==
  /\ pc = "init"
  /\ ready = Tables
  /\ pc' = "next"
  /\ todo' = 1..Len(cdc)
  /\ UNCHANGED <<cdc, durable, batch, pending, staged, stagedHwm, merged, crashes>>

\* discover_batches, and the completed batches read once for the whole run.
Discover ==
  /\ pc = "init"
  /\ ready = Tables
  /\ pc' = "next"
  /\ todo' = (1..Len(cdc)) \ checkpoint.completed
  /\ UNCHANGED <<cdc, durable, batch, pending, staged, stagedHwm, merged, crashes>>

\* Faulty variant of BeginBatch: batches are taken in any order.
BeginAnyBatch(b) ==
  /\ pc = "next"
  /\ b \in todo
  /\ pc' = "read"
  /\ batch' = b
  /\ todo' = todo \ {b}
  /\ pending' = Tables
  /\ staged' = NoEntries
  /\ stagedHwm' = NoMarks
  /\ UNCHANGED <<cdc, durable, merged, crashes>>

\* apply_batch is entered for the next batch in numeric order.
BeginBatch(b) ==
  /\ pc = "next"
  /\ b \in todo /\ \A c \in todo : b <= c
  /\ pc' = "read"
  /\ batch' = b
  /\ todo' = todo \ {b}
  /\ pending' = Tables
  /\ staged' = NoEntries
  /\ stagedHwm' = NoMarks
  /\ UNCHANGED <<cdc, durable, merged, crashes>>

\* A table whose file is missing or empty keeps its high-water mark.
SkipTable(t) ==
  /\ pc = "read"
  /\ IsFirst(t, pending)
  /\ cdc[batch][t] = {}
  /\ stagedHwm' = [stagedHwm EXCEPT ![t] = checkpoint.hwm[t]]
  /\ pending' = pending \ {t}
  /\ merged' = [merged EXCEPT ![t] = @ \cup {batch}]
  /\ UNCHANGED <<cdc, durable, pc, todo, batch, staged, crashes>>

\* Rejected rows are appended to the quarantine before anything is merged.
ReadTable(t) ==
  /\ pc = "read"
  /\ IsFirst(t, pending)
  /\ cdc[batch][t] # {}
  /\ pc' = "merge"
  /\ quarantine' = [quarantine EXCEPT ![batch][t] =
                      IF Rejected(cdc[batch][t]) = {} THEN @ ELSE @ + 1]
  /\ UNCHANGED <<cdc, ready, target, ledger, metrics, checkpoint, todo, batch, pending,
                 staged, stagedHwm, merged, crashes>>

\* Faulty variant of MergeTable: the mark of a late batch may go backwards.
MergeForgettingMark(t) ==
  LET events == Parsed(cdc[batch][t], t)
  IN /\ pc = "merge"
     /\ IsFirst(t, pending)
     /\ pc' = "read"
     /\ target' = [target EXCEPT ![t] = Merge(target[t], events, batch)]
     /\ staged' = Upsert(staged, Audit(target[t], ledger, events))
     /\ stagedHwm' = [stagedHwm EXCEPT ![t] = HighestSequence(cdc[batch][t])]
     /\ pending' = pending \ {t}
     /\ merged' = [merged EXCEPT ![t] = @ \cup {batch}]
     /\ UNCHANGED <<cdc, ready, ledger, metrics, quarantine, checkpoint, todo, batch, crashes>>

\* classify_events_and_apply_merge: candidates are classified against the
\* rows and the ledger as they are before the MERGE, which is one commit.
MergeTable(t) ==
  LET events == Parsed(cdc[batch][t], t)
  IN /\ pc = "merge"
     /\ IsFirst(t, pending)
     /\ pc' = "read"
     /\ target' = [target EXCEPT ![t] = Merge(target[t], events, batch)]
     /\ staged' = Upsert(staged, Audit(target[t], ledger, events))
     /\ stagedHwm' = [stagedHwm EXCEPT ![t] =
                        Max({checkpoint.hwm[t], HighestSequence(cdc[batch][t])})]
     /\ pending' = pending \ {t}
     /\ merged' = [merged EXCEPT ![t] = @ \cup {batch}]
     /\ UNCHANGED <<cdc, ready, ledger, metrics, quarantine, checkpoint, todo, batch, crashes>>

\* The staged audit records of all tables, in one commit.
UpsertLedger ==
  /\ pc = "read"
  /\ pending = {}
  /\ pc' = "metrics"
  /\ ledger' = Upsert(ledger, staged)
  /\ pending' = {t \in Tables : cdc[batch][t] # {}}
  /\ UNCHANGED <<cdc, ready, target, metrics, quarantine, checkpoint, todo, batch, staged,
                 stagedHwm, merged, crashes>>

\* record_batch_apply_metric: the row of (batch, table) is replaced.
RecordMetrics(t) ==
  /\ pc = "metrics"
  /\ IsFirst(t, pending)
  /\ metrics' = [metrics EXCEPT ![batch][t] =
                   [i \in EventIds |-> IF \E r \in Parsed(cdc[batch][t], t) : r.id = i
                                       THEN staged[i] ELSE NoEntry]]
  /\ pending' = pending \ {t}
  /\ UNCHANGED <<cdc, ready, target, ledger, quarantine, checkpoint, pc, todo, batch, staged,
                 stagedHwm, merged, crashes>>

\* commit_batch accepts the staged marks when none is below the recorded one.
Advances(marks) == \A t \in Tables : marks[t] >= checkpoint.hwm[t]

\* Faulty variants of CommitBatch: the checkpoint is written before the ledger
\* and the metrics; the marks are not written.
CommitBeforeLedger ==
  /\ pc = "read"
  /\ pending = {}
  /\ pc' = "reconcile"
  /\ checkpoint' = [hwm |-> stagedHwm, completed |-> checkpoint.completed \cup {batch}]
  /\ UNCHANGED <<cdc, ready, target, ledger, metrics, quarantine, todo, batch, pending,
                 staged, stagedHwm, merged, crashes>>

CommitWithoutMarks ==
  /\ pc = "metrics"
  /\ pending = {}
  /\ pc' = "reconcile"
  /\ checkpoint' = [checkpoint EXCEPT !.completed = @ \cup {batch}]
  /\ UNCHANGED <<cdc, ready, target, ledger, metrics, quarantine, todo, batch, pending,
                 staged, stagedHwm, merged, crashes>>

\* commit_batch: one atomic file replacement, or an exception that ends the run.
CommitBatch ==
  /\ pc = "metrics"
  /\ pending = {}
  /\ pc' = IF Advances(stagedHwm) THEN "reconcile" ELSE "idle"
  /\ checkpoint' = IF Advances(stagedHwm)
                   THEN [hwm |-> stagedHwm, completed |-> checkpoint.completed \cup {batch}]
                   ELSE checkpoint
  /\ UNCHANGED <<cdc, ready, target, ledger, metrics, quarantine, todo, batch, pending,
                 staged, stagedHwm, merged, crashes>>

\* reconcile_current_state raises unless every row has a positive sequence.
Reconciled == \A t \in ready, k \in Keys : target[t][k] # NoRow => target[t][k].seq > 0

\* reconcile_current_state only reads; apply_batch then returns.
Reconcile ==
  /\ pc = "reconcile"
  /\ pc' = IF Reconciled THEN "next" ELSE "idle"
  /\ batch' = 0
  /\ staged' = NoEntries
  /\ stagedHwm' = NoMarks
  /\ UNCHANGED <<cdc, durable, todo, pending, merged, crashes>>

FinishRun ==
  /\ pc = "next"
  /\ todo = {}
  /\ pc' = "idle"
  /\ UNCHANGED <<cdc, durable, todo, batch, pending, staged, stagedHwm, merged, crashes>>

\* The process dies: what is not in a store is lost.
Crash ==
  /\ pc # "idle"
  /\ crashes < MaxCrashes
  /\ crashes' = crashes + 1
  /\ pc' = "idle" /\ todo' = {} /\ batch' = 0 /\ pending' = {}
  /\ staged' = NoEntries /\ stagedHwm' = NoMarks
  /\ UNCHANGED <<cdc, durable, merged>>

-----------------------------------------------------------------------------
ProcessTable == \E t \in Tables : SkipTable(t) \/ ReadTable(t) \/ MergeTable(t) \/ RecordMetrics(t)

Process ==
  \/ \E t \in Tables : InitializeTable(t)
  \/ Discover
  \/ \E b \in Batches : BeginBatch(b)
  \/ ProcessTable
  \/ UpsertLedger
  \/ CommitBatch
  \/ Reconcile
  \/ FinishRun

Next == Land \/ StartRun \/ Process \/ Crash

Spec == Init /\ [][Next]_vars

\* A started process keeps running, and the command is run again and again
\* (a schedule, or an operator after a failure).
Fairness == WF_vars(StartRun) /\ WF_vars(Process)

FairSpec == Spec /\ Fairness

-----------------------------------------------------------------------------
\* The events a batch brings to a table.
Delivered(b, t) == Parsed(cdc[b][t], t)

Reflects(row, r) ==
  /\ row.seq = r.seq
  /\ row.id = r.id
  /\ row.deleted = (r.op = "DELETE")
  /\ r.op # "DELETE" => row.val = r.val

(***************************************************************************)
(* Every row is the effect of an event of the highest sequence among those *)
(* its table's MERGEs have seen (or of the snapshot, if that is the        *)
(* newest): however events were spread over batches, reordered, redelivered*)
(* or retried, no newer event is lost and no older one shows through.      *)
(***************************************************************************)
CurrentStateConverges ==
  \A t \in ready, k \in Keys :
    LET row == target[t][k]
    IN /\ \A b \in merged[t] : \A r \in Delivered(b, t) :
            r.key = k => row # NoRow /\ r.seq <= row.seq
       /\ Snapshot[t][k] # NoRow => row # NoRow /\ Snapshot[t][k].seq <= row.seq
       /\ row # NoRow =>
            \/ row = Snapshot[t][k]
            \/ \E b \in merged[t] : /\ row.batch = b
                                   /\ \E r \in Delivered(b, t) : r.key = k /\ Reflects(row, r)

(***************************************************************************)
(* A batch in the checkpoint has had all its effects: every event of every *)
(* table is in the rows or behind a newer one, audited and counted, and    *)
(* rejected rows are in the quarantine (commit_batch comes last).          *)
(***************************************************************************)
CheckpointAfterEffects ==
  \A b \in checkpoint.completed, t \in Tables :
    /\ \A r \in Delivered(b, t) :
         /\ target[t][r.key] # NoRow /\ target[t][r.key].seq >= r.seq
         /\ ledger[r.id] # NoEntry
         /\ metrics[b][t][r.id] # NoEntry
    /\ Rejected(cdc[b][t]) # {} => quarantine[b][t] > 0

\* The recorded high-water mark of a table is the highest sequence of the
\* completed batches: it neither runs ahead of them nor falls behind.
HighWaterMarkExact ==
  \A t \in Tables :
    checkpoint.hwm[t] = Max({0} \cup {HighestSequence(cdc[b][t]) : b \in checkpoint.completed})

\* The outcomes that account for a row: its event was applied, now or earlier.
ExplainingOutcomes == AppliedOutcomes \cup {"ALREADY_APPLIED", "RECOVERED_AFTER_PARTIAL_COMMIT"}

\* No other event that landed for the key of this row shares its sequence.
Untied(t, k) ==
  \A b \in 1..Len(cdc) : \A r \in Delivered(b, t) :
    r.key = k /\ r.seq = target[t][k].seq => r.id = target[t][k].id

(***************************************************************************)
(* The ledger accounts for the rows: once its batch is complete, the event *)
(* a row carries is recorded as applied, now or before a crash, whatever   *)
(* was redelivered since (unless the source reused its sequence number).   *)
(***************************************************************************)
LedgerExplainsRows ==
  \A t \in ready, k \in Keys :
    LET row == target[t][k]
    IN row # NoRow /\ row.batch \in checkpoint.completed /\ Untied(t, k) =>
         ledger[row.id] \in ExplainingOutcomes

\* A MERGE of a batch after b has seen event i again.
Redelivered(b, t, i) == \E c \in merged[t] : c > b /\ \E s \in Delivered(c, t) : s.id = i

\* The ledger and the metrics of a completed batch tell the same story of
\* every event that no later MERGE has seen again.
MetricsMatchLedger ==
  \A b \in checkpoint.completed, t \in Tables :
    \A r \in Delivered(b, t) :
      ~ Redelivered(b, t, r.id) => metrics[b][t][r.id] = ledger[r.id]

\* RECOVERED_AFTER_PARTIAL_COMMIT is evidence of a crash: without one, the
\* ledger is never behind the rows when a batch is classified.
RecoveryImpliesCrash ==
  \A i \in EventIds : ledger[i] = "RECOVERED_AFTER_PARTIAL_COMMIT" => crashes > 0

\* Rejected rows are appended at most once per attempt at their batch.
QuarantineOncePerAttempt ==
  \A b \in Batches, t \in Tables : quarantine[b][t] <= 1 + crashes

\* A row is never removed, and changes only to an event of a higher sequence:
\* a retry or a redelivery rewrites nothing, a tombstone stays until then.
SequenceNeverRegresses ==
  [][\A t \in ready, k \in Keys : target[t][k] # NoRow =>
       /\ target'[t][k] # NoRow
       /\ target'[t][k] = target[t][k] \/ target'[t][k].seq > target[t][k].seq]_vars

\* Every batch that lands is completed, whatever crashes (finitely often).
EveryBatchCompletes ==
  \A b \in Batches : b <= Len(cdc) ~> b \in checkpoint.completed

-----------------------------------------------------------------------------
(***************************************************************************)
(* The inductive invariant, in parts.                                      *)
(***************************************************************************)
InBatch == pc \in {"read", "merge", "metrics"}

\* What the process works on has landed and is not completed.
Scope ==
  /\ checkpoint.completed \subseteq 1..Len(cdc)
  /\ todo \subseteq (1..Len(cdc)) \ checkpoint.completed
  /\ pc \notin {"idle", "init"} => ready = Tables
  /\ InBatch => batch \in (1..Len(cdc)) \ (checkpoint.completed \cup todo)

\* Batches are completed without gaps: a batch is applied when all before it
\* are in the checkpoint.
BatchOrder ==
  /\ \A b \in checkpoint.completed : 1..b \subseteq checkpoint.completed
  /\ pc \in {"next", "reconcile"} => \A b \in todo : 1..b \subseteq checkpoint.completed \cup todo
  /\ InBatch => /\ 1..(batch - 1) \subseteq checkpoint.completed
                /\ \A b \in todo : 1..b \subseteq checkpoint.completed \cup todo \cup {batch}

\* Besides the completed batches, a table may have merged only the first one
\* that is not: what a crash leaves half done is the batch the next run takes.
MergeOrder ==
  /\ \A t \in Tables :
       /\ checkpoint.completed \subseteq merged[t]
       /\ merged[t] \subseteq 1..Len(cdc)
       /\ \A b \in merged[t] : 1..(b - 1) \subseteq checkpoint.completed
       /\ t \notin ready => merged[t] = {}
  /\ pc \in {"read", "merge"} => \A t \in Tables \ pending : batch \in merged[t]
  /\ pc = "metrics" => \A t \in Tables : batch \in merged[t]

Quarantined(b, t) == Rejected(cdc[b][t]) # {} => quarantine[b][t] > 0

HasEntries(entries, b, t) == \A r \in Delivered(b, t) : entries[r.id] # NoEntry

\* Every store a batch has been through holds what the batch owes it.
EffectsOrder ==
  /\ \A b \in checkpoint.completed, t \in Tables :
       HasEntries(ledger, b, t) /\ HasEntries(metrics[b][t], b, t) /\ Quarantined(b, t)
  /\ pc \in {"read", "merge"} =>
       \A t \in Tables \ pending : HasEntries(staged, batch, t) /\ Quarantined(batch, t)
  /\ pc = "merge" => \A t \in Tables : IsFirst(t, pending) => Quarantined(batch, t)
  /\ pc = "metrics" => \A t \in Tables :
       /\ HasEntries(staged, batch, t) /\ HasEntries(ledger, batch, t) /\ Quarantined(batch, t)
       /\ t \notin pending => HasEntries(metrics[batch][t], batch, t)

InductiveInvariant ==
  TypeOK /\ Scope /\ BatchOrder /\ MergeOrder /\ EffectsOrder /\ CurrentStateConverges

(***************************************************************************)
(* The parts the accounts of the pipeline rest on: marks, attempts and     *)
(* outcomes.                                                               *)
(***************************************************************************)
\* The loop over the tables of the batch has been through t.
Visited(t) == pc = "metrics" \/ t \notin pending

\* The staged marks are those of the checkpoint, raised by the batch.
MarkOrder ==
  InBatch => \A t \in Tables : Visited(t) =>
    stagedHwm[t] = Max({checkpoint.hwm[t], HighestSequence(cdc[batch][t])})

\* The attempt in work has read the file of t in batch b, or passed it over.
Reached(b, t) ==
  b = batch /\ InBatch /\ (Visited(t) \/ (pc = "merge" /\ IsFirst(t, pending)))

\* Besides the attempt that completes a batch, every attempt that reached a
\* table ended in a crash: commit_batch never refuses the marks it is given.
AttemptOrder ==
  \A b \in Batches, t \in Tables :
    quarantine[b][t] <= crashes + (IF b \in checkpoint.completed \/ Reached(b, t) THEN 1 ELSE 0)

\* As long as nothing crashes no batch is left half merged.
LeftoverOrder ==
  crashes = 0 =>
    /\ \A t \in Tables : \A b \in merged[t] :
         b \in checkpoint.completed \/ (InBatch /\ b = batch /\ Visited(t))
    /\ \A i \in EventIds : staged[i] # "RECOVERED_AFTER_PARTIAL_COMMIT"

\* Only events of the batch in work are staged; the ledger takes them over as
\* they are, and the metrics after it.
StagedOrder ==
  /\ InBatch => \A i \in EventIds : staged[i] # NoEntry =>
       \E t \in Tables : Visited(t) /\ \E r \in Delivered(batch, t) : r.id = i
  /\ pc = "metrics" =>
       /\ \A i \in EventIds : staged[i] # NoEntry => ledger[i] = staged[i]
       /\ \A t \in Tables \ pending : \A r \in Delivered(batch, t) :
            metrics[batch][t][r.id] = staged[r.id]

\* What a batch stages for the event an untied row carries explains the row.
OutcomeOrder ==
  InBatch => \A t \in Tables, k \in Keys :
    LET row == target[t][k]
    IN Visited(t) /\ row # NoRow /\ row.batch \in checkpoint.completed \cup {batch} /\ Untied(t, k)
         => staged[row.id] \in ExplainingOutcomes \cup {NoEntry}

AccountingInvariant ==
  /\ MarkOrder /\ HighWaterMarkExact /\ AttemptOrder
  /\ LeftoverOrder /\ RecoveryImpliesCrash
  /\ StagedOrder /\ MetricsMatchLedger
  /\ OutcomeOrder /\ LedgerExplainsRows

-----------------------------------------------------------------------------
\* The history variable merged is what the abstract specification calls
\* applied: an attempt that finds its work done changes nothing it can see.
Once == INSTANCE EffectivelyOnce WITH rows <- target, created <- ready, applied <- merged

EffectivelyOnceSpec == Once!Spec
=============================================================================
