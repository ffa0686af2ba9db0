# Verification of the incremental CDC pipeline

TLA+ models of the pipeline in `src/`, the TLC runs that check them on small
instances, and TLAPS proofs of the properties that matter most for all of them.
`src/...` paths below are relative to the repository.

## 1. The system

A simulated OLTP source writes numbered batch directories of JSONL change
events (`batch_id=000001/subscriptions.jsonl`, ...). Command-line programs
(`src/main.py`) carry them into Delta tables. There is no server: every command
is a process that starts, works from what the stores hold, and ends or dies.
Every store is a file or a Delta table; a Delta commit is atomic, and nothing
spans two of them.

```
 generate-cdc, from the snapshot
    │
 batches ──> apply-cdc ──> current-state tables, applied_events, batch metrics,
    │                │       quarantine
    │                └──> checkpoint_state.json <──┐
    ├──────> process-cdc ──────────────────────────┘
    │                └──> valid_events, quarantine, late_events, metrics.json
    └──────> build-event-store ──> cdc_event_store ──> detect-late-events
                                        │                    │
                                        │             late_event_queue
                                        └──> replay-late-events ──> subscriptions_history,
                                                                    replay_audit
```

### Components

| Component | State | Operations | What makes it correct |
|---|---|---|---|
| Validation, deduplication, payload parsing (`cdc/validation.py`, `cdc/deduplication.py`, `delta/payload_parser.py`) | none | verdict of a line, one copy per event id, rows of one table | no valid event is lost, one deterministic copy survives |
| MERGE (`delta/merge.py`) | rows of a current-state table | collapse a batch to one winner per key, classify against row and ledger, four MERGE clauses | newest event wins in any order of arrival; a tombstone remembers its sequence; a retry changes nothing |
| Ledger and metrics (`delta/audit.py`, `delta/metrics.py`) | outcome by event id; counts by (batch, table) | upsert, replace | they account for what the rows show, also after a crash |
| Checkpoint manager (`state/checkpoint.py`) | high-water marks, completed batches | load, commit_batch, advance, save, migrate legacy files | advances only after every other store has the batch; never regresses |
| Apply pipeline (`pipelines/delta_cdc_apply.py`) | the process | init tables, discover, apply each batch, reconcile | every batch takes effect exactly once, in order, whatever crashes |
| Module 1 lane (`cdc/processor.py`) | staged JSONL files and a report per batch | process a batch, advance the same checkpoint file | a batch it completes is staged in full; its late file is exact |
| Generation (`generation/*.py`) | the source's entities, its sequence counter, held-back events | snapshot, changes of each table, defects, write a batch | every change is delivered once; the replica of the feed is the source |
| Event store (`events/event_store.py`) | events by id | upsert with identity conflicts, backfill | an event never changes its content |
| History and rebuilder (`history/subscriptions_scd2.py`, `replay/history_rebuilder.py`) | SCD2 versions by key | seed, rebuild one key, validate 11 invariants, repair | the versions tile the sequence axis and say what the events say |
| Replay queue, processor, audit (`replay/*.py`) | items by event id, audit by event id | enqueue, load pending, settle as APPLIED, CONFLICT or FAILED | a settled item has its audit record and stays settled |
| Schema evolution (`schema_evolution/*.py`) | the V2 columns | registry, migration | V1 events never erase V2 values |
| Discovery, diagnostics, settings, Spark session | none | | outside the state that matters |

### What is hard here

* **Crashes between stores.** The apply pipeline writes five stores in turn, the
  first of them once per table; a crash can fall between any two writes, and
  the retry has to recognise its own work from the rows and the ledger alone.
* **Order.** Batches may be late, redelivered or overlapping; the row of a key
  must end up at its newest event nevertheless, deletes included. Events can
  share a sequence number, where batch and arrival order start to matter.
* **Two lanes.** The forward lane folds batches into rows, the replay lane folds
  events into a timeline. They read each other's tables with no common
  transaction, at moments the operator chooses.
* **Partial failure.** Replay replaces a history in two commits, then writes the
  audit and the queue; its exception handler turns any failure, also one after
  the history was written, into a FAILED item.
* **Shared files.** `process-cdc` and `apply-cdc` read, check and replace one
  checkpoint file without a lock, and each trusts what the other has put there.
* **A feed that lies.** The generator holds a change back for a later batch, repeats
  lines, and makes up late ones whose numbers real changes may have.

`PROJECT.json` lists every hazard at its line, with the properties that watch
over it, or the reason why none does.

## 2. Modules

| Module | Models | State and actions |
|---|---|---|
| `CdcFeed` | the feed, validation, deduplication, routing to a table | constants and operators only |
| `DeltaMerge` | the MERGE of one table: winners, classification, merged row, staged audit records, ledger upsert | operators only |
| `DeltaApply` | `run_apply_pipeline`, `apply_batch`, `commit_batch`, table initialisation, reconciliation, crash and rerun | see below |
| `EffectivelyOnce` | the abstract specification of the forward lane | `Create`, `Land`, `Apply(t, b)` |
| `Commands` | `process-cdc` and `apply-cdc` on one checkpoint file, legacy migration | see below |
| `SourceFeed` | the generator, its defects, and the replica the forward lane builds | see below |
| `History` | the timeline of a key and its eleven invariants | operators only |
| `Timelines` | the timeline of one key while the store gathers its events | `Store(r)` |
| `Replay` | event store, seeding, detection, queue, replay process, audit, migration, beside an abstract forward lane | see below |
| `MCDeltaApply`, `MCHistory`, `MCReplay`, `MCCommands`, `MCSourceFeed` | instances for TLC | |
| `CdcFeed_proofs`, `DeltaMerge_proofs`, `History_proofs` | lemmas about the operators | |
| `DeltaApply_proofs`, `Timelines_proofs`, `Replay_proofs`, `Commands_proofs`, `SourceFeed_proofs` | theorems about the specifications | |

**`DeltaApply`.** `cdc` is the landed batches; `target`, `ledger`, `metrics`,
`quarantine`, `checkpoint` are the stores; `pc`, `todo`, `batch`, `pending`,
`staged`, `stagedHwm` are the process: `todo` the discovered batches it has not
reached, `pending` the tables the current loop has not visited, `staged` and
`stagedHwm` the accumulators of `apply_batch`. One action per write:

| Action | Code |
|---|---|
| `StartRun`, `InitializeTable(t)`, `Discover` | `cmd_apply_cdc`, `ensure_current_state_initialized`, `discover_batches` and the completed set read once per run |
| `BeginBatch`, `SkipTable`, `ReadTable`, `MergeTable` | the table loop of `apply_batch`: a missing file keeps its mark; rejected rows are appended to the quarantine; one MERGE commit |
| `UpsertLedger`, `RecordMetrics(t)`, `CommitBatch`, `Reconcile` | the rest of `apply_batch`, in the code's order |
| `Crash` | the process dies; `volatile` is reset, `durable` stays |

`merged` (which batches each table has been through) and `crashes` are history
variables: nothing reads them but properties and the refinement mapping.

**`Replay`.** The forward lane is `ApplyBatch`, one batch as a single step, which
is what `DeltaApply` is shown to amount to. `backlog` is the files a running
backfill has still to read; `pc`, `work`, `item`, `timeline`, `outcome` are the
replay process. `ReadKey` does the reads of the rebuilder (no baseline: FAILED,
collision: CONFLICT), `Validate` or `Repair` meets the row as it is then,
`DeleteHistory` and `AppendHistory` are the two commits, `RecordAudit` and
`UpdateQueue` the two writes that settle the item. `StepFails` is an exception
in the try block (what is committed stays, the item becomes FAILED, also one whose
key collides when the reads raise before the collision is seen),
`CrashReplay` a death or an exception in the handler.

**`Commands`.** Files: `cdc`, `checkpoint` (`checkpoint_state.json`, `NoFile` until it
is written), `legacy` (the `{table}.json` files of the older version), `applied`
(what is in each Delta table, by batch: `DeltaApply` shows that a batch may be
seen as one step per table), `outputs` and `report` of `process-cdc`. Each of the
two lanes has a program counter and its own memory (`todo`, `batch`, `pending`,
`marks`, `loaded`, `staged`), which a crash clears.

| Action | Code |
|---|---|
| `Start(c)`, `Migrate(c)` | the command is run; its first load finds legacy files and saves the migrated state |
| `Discover(c)`, `SkipCompleted(b)`, `BeginBatch(c, b)` | `apply-cdc` reads the completed batches once, `process-cdc` before each batch |
| `ReadTable(t)`, `WriteTable(t)`, `WriteReport` | the two loops of `process_batch`: everything is read before anything is written; a quarantine or late file with nothing to hold is left as it was |
| `ApplyTable(t)` | one table of `apply_batch` |
| `LoadState(c)`, `SaveState(c)` | `commit_batch` cut where another process can come between: load and regression check, then replace the file |
| `Finish(c)`, `Crash(c)` | the loop ends; the process dies or raises |

`overlap` is chosen in the initial state: whether a command may be started while
the other runs. `committed` and `crashes` are history variables.

**`SourceFeed`.** The source: `alive`, `last` (the sequence of an entity's last
change), `counter`, `current_sequence`, `held`; `table`, `made` and `events` are the
batch in work. `OpenBatch` releases what was held back, `InsertEntity`,
`UpdateEntity` and `DeleteEntity` are the changes, `NextTable` goes through the four
generators in order, `CloseBatch` injects the defects and writes the batch.
`ApplyBatch` is the forward lane, with the operators of `DeltaMerge`. Every roll
of the seeded generator is a free choice, so a run covers every seed.

**Faulty variants.** Definitions introduced as "Faulty variant of ..." are plausible
bugs (a dropped guard, a swapped order, an off-by-one). No specification uses
them: substituted for the definition they follow, each makes a named property
fail, which shows the property can tell.

### Abstractions

* An event id is a number: only equality and the order that breaks ties are used.
  That valid records share an id exactly when they agree on table, key,
  sequence and operation (SHA-256, recomputed by validation) is
  `IdentityAssumption`; that differing copies differ in their hash is
  `CopiesAssumption`.
* A line is valid or not (`ok`); the string rules of `validate_event_row` are not
  modelled. A valid line may be in the file of any table.
* Business attributes are one value in `DeltaApply`. In `History` and `Replay`
  they are a schema version, one optional V1 attribute, and the V2 attributes
  as one. `status = 'CANCELLED'` in the version of a delete is left out:
  invariant 11 does not compare deleted rows. A row's `val` keeps the version of
  the event that gave its attributes; nothing compares it.
* A ledger entry is its outcome; a metrics row is the audit entries it counts,
  which determines the counts. Timestamps, reasons, logging and
  `last_processed_batch_id` are left out.
* Batches land in numeric order, as `generate_cdc_batches` writes them. In which order
  the file system lists them does not show: what is discovered is a set, of which the
  lowest batch is taken first (the sort of `discover_batches`; `BeginAnyBatch` is the
  code without it).
* `reconcile_current_state` is a guard that cannot fail here: rows are a function of
  their key and sequences are positive, as validation demands.
* A batch directory lands whole. Malformed directories, corrupt manifests and
  missing snapshot files raise before anything is written and are left out.
* In `Commands`, the valid, quarantine and late file of one table are written in one
  step, and a batch is merged into a table in one step. `advance_high_water_mark`
  and `save_checkpoint` are left out: no command calls them.
* In `SourceFeed` an after-image is named by the sequence of its change: equal names
  are equal states. `held` is kept by table, where the code has one list and sends each
  event to the file of its table. Keys and `MaxSeq` are bounds: no entity beyond `Keys`
  is inserted and no number above `MaxSeq` given out. A batch is a set of lines, so a repeated line and the
  shuffled order of a file disappear; that neither matters downstream is because
  deduplication and MERGE are set operations (`CdcFeed`, `DeltaMerge`). All defect
  rates are on, as in `DefectConfig`. Schema versions, attribute values, timestamps
  and the manifest are left out; that the late event and an event it shares its id
  with may be preferred in either order is `arrival`.
* `detect-late-events` reads store and rows and merges into the queue in one step.
* Validation requires a payload, also of a delete, so the comparison of a stored
  and a new payload in `Conflicts` never meets a NULL. The code compares payloads
  as text: copies that differ in it differ in `val`.

## 3. Properties and runs

Times are for two workers on a small machine.

| Run | Shows | Bounds |
|---|---|---|
| `OneTable` | `CurrentStateConverges`, `SequenceNeverRegresses`, `LedgerExplainsRows`, `MetricsMatchLedger`, `RecoveryImpliesCrash`, `TypeOK` | 1 table, 2 keys, 12 batch contents, 3 batches, 1 crash; 556k states, 45 s |
| `TwoTables` | `CheckpointAfterEffects`, `HighWaterMarkExact`, `QuarantineOncePerAttempt`, `InductiveInvariant`, `AccountingInvariant`, that the pipeline implements `EffectivelyOnce`, and `EveryBatchCompletes` | 2 tables, 14 contents, 2 batches, 2 crashes; 128k states, 65 s |
| `History` (of `Timelines`) | `TimelineTruthful`, `ValidatorExact` | all 512 subsets of 9 events |
| `Replay` | `HistoryTiles`, `AppliedIsInHistory`, `QueueBackedByAudit`, `HistoryNotAhead`, `SettledStaysSettled`, `ReplayInvariant`, `TypeOK` | 2 keys, 7 contents, 2 batches, 2 faults, repair on and off; 350k states, 60 s |
| `Lanes` | `LanesAgree`, `StoreHoldsFirst` | 5 contents, 3 batches, no fault, no repair; 298k states, 35 s |
| `Settling` | `PendingIsSettled` | 2 contents, 2 batches, 2 faults; 16k states, 45 s |
| `Commands` | `CompletedIsWitnessed`, `LateFileExact`, `CheckpointOnlyGrows`, `LateInvariant`, `TypeOK` | 2 tables, 2 contents, 3 sets of legacy files, 2 batches, 1 crash, alone and overlapping; 881k states, 60 s |
| `Overlap` | `EveryBatchSettles` | 2 tables, 2 contents, 2 batches, no crash, overlapping; 59k states, 30 s |
| `SourceFeed` | `ReplicaMatchesSource`, `EveryChangeInOnePlace`, `SourceInvariant`, `TypeOK` | 2 tables in the four roles, 1 entity each, 3 changes per table and batch, 2 batches; 167k states, 95 s |

Why these bounds. A batch interacts with the rows it meets and with the attempt a
crash left behind: two batches and two crashes cover a retry of a retry and a
batch after a recovered one; the third batch of `OneTable` covers delete, late
event, re-insert and a redelivery in any order. Two tables are the least that
can be out of step. The records cover every operation, differing copies of an
event, two events of one sequence in one batch and in two, a delete of an
unknown key, rejected and misrouted lines. In `Replay`, batches of two events let
two batches bring about a late event, a collision and an unapplied store at
once; faults cover one failure during the handling of another. `Lanes` needs
three batches, for an update before, between and after others, and no faults,
since a command cut short only leaves a smaller store, which the premise of
`LanesAgree` excludes anyway. Repair is off there: what a repair may do to a row
is the subject of `DocRepair`. In `Commands` the two contents lie on both sides of
each other's sequences, so that either batch is late after the other and a
regression can be met; two batches are enough for a lost commit, since it takes
one batch to be lost and one to overwrite it. The legacy files cover a batch no
table, one table and every table had done. `SourceFeed` needs three changes for
the event that is held back and two batches to release it and to make up the late
one; its lag is 4, so that the late number falls before, on and after genuine
changes. It stops when its batches are written and applied, hence
`CHECK_DEADLOCK FALSE`; `History` has no behaviour beyond one choice.

Properties worth a word:

* `CurrentStateConverges`: every row is the effect of some newest event of those
  its table has merged, and it is the protective tombstone, the snapshot or an
  after-image accordingly. Only "some" newest event: of two events with one
  sequence in different batches whichever is merged first stays.
* `CheckpointAfterEffects`: the reason the checkpoint may be trusted. It relates
  the checkpoint to every other store.
* `RecoveryImpliesCrash`: the ledger outcome that claims a repaired crash is
  never given to an ordinary redelivery.
* `LanesAgree`: two different algorithms, the batch-wise MERGE and the event-wise
  timeline, end in the same state for every key that keeps to the full
  after-image contract, has no collision and no V2 event after the migration.
  Each premise is one of the known ways to drift (see hazards).
* `TimelineTruthful`: each attribute of a version has a last writer of its own. A V1
  event between V2 events keeps the V2 attributes of the version before; docs/07 says
  otherwise, see below.
* `HistoryNotAhead`: the drift check is made before two commits, while the forward
  lane may go on; it is enough because rows only move forward and the store only
  grows.

* `CompletedIsWitnessed`: what the checkpoint can still be trusted for when two
  commands share it without a lock. Lost updates can take a batch out of the file
  or move a mark back, but never put one in that nobody carried through. It does
  not say that the batch is in the Delta tables: that is `DocCheckpoint`.
* `LateFileExact`: late files are classified against the marks of the attempt that
  committed, and an earlier attempt's file stays if the later one has nothing to
  write. Holds because marks that are not lost only grow, so a later attempt has
  at least the late events of an earlier one.
* `ReplicaMatchesSource`: end to end, from the change at the source to the row. It
  excludes an entity while its newest change is held back, and one a made-up event
  is numbered at or above: nothing downstream could tell that event from a real
  one.

### Fairness

`EveryBatchCompletes` assumes weak fairness of `StartRun` (the scheduler runs the
command again when none is running) and of the steps of a running process (a
sequential program with no lock or wait in it). `PendingIsSettled` assumes the
same of `replay-late-events`. `EveryBatchSettles` assumes it of the steps of each
command and that some command is started again and again; not that it is the
same one, nor that a command is ever alone. Landing, crashing, failing, migrating, backfill and
detection are under no fairness. Crashes and faults are bounded by `MaxCrashes`
and `MaxFaults`: a process that dies every time finishes nothing.

### Where documentation and code disagree

| Run | Statement | What the code does |
|---|---|---|
| `DocCheckpoint` | README, docs/05: the checkpoint advances only after all tables have merged | `process-cdc` advances the same file without any Delta write, and `apply-cdc` then skips the batch |
| `DocRepair` | docs/06: current business state is not corrupted | `--repair-current` may move a row back, for good |
| `DocSchema` | docs/07: V2 columns are NULL until a V2 event | the forward lane never fills them |

More that reading shows at once and no run repeats:

* docs/05 leaves existing ledger entries untouched on a rerun; the MERGE in
  `delta/audit.py:64` overwrites them.
* docs/05 has every valid event classified; one in the file of another table is
  filtered out by `delta/payload_parser.py:30` and leaves no trace.
* The docstring of the rebuilder and docs/06 have the history of a key replaced
  atomically; it is a delete and an append (`replay/history_rebuilder.py:280`), and a
  failure between them leaves none.
* docs/05 draws STALE_NOOP under a lower sequence, the code gives it to an equal one
  of another event too (`delta/merge.py:175`).
* docs/07 (lines 109-111 and 115-118) has V1 history rows, a late V1 one among V2 rows
  included, with NULL in the V2 columns. The rebuilder carries over what the version
  before has (`replay/history_rebuilder.py:195`), which is NULL in the example of docs/07
  and in the test of it, where no V2 event comes before the late one, and not NULL
  between two V2 events. INTERVIEW_QA (Q39) has a late V1 event leave the V2 columns
  untouched, while Q40 has NULL for "all V1-era versions". `TimelineTruthful` states
  what the code does; `CarriedErasing`, its mutant, is what docs/07 says.
* docs/07:134 and the docstring of `process_pending_replays` have a rerun detect the
  versions an interrupted one wrote; it looks for none and replaces the history again.
* docs/06 and the README let the forward lane extend the history, which no forward
  command writes.
* IMPLEMENTATION_MAP calls the queue one of unseen late events, while
  `detect-late-events` queues every stored event its row has moved past.
* `generation/cdc_generator.py:608` says the made-up late event is numbered below the
  batch; from scale `small` on (500 events, a lag of 150) it is numbered inside it.
* `generate-cdc` accepts `--schema-transition-batch` (`main.py:357`) and does not pass it
  on.

## 4. Proofs

The proofs are of the specifications `Spec` of `DeltaApply`, `Timelines`,
`Replay`, `Commands` and `SourceFeed`, for every feed, every number of tables, keys, batches,
crashes and faults, under the assumptions the modules state on their constants
(TLC evaluates them in each run). Besides bounds and types these are:
ids are equal exactly when the hashed fields are and differing copies can be told
apart (`IdentityAssumption`, `CopiesAssumption`), and the snapshot has rows of the V1
schema that are not deleted (`BaselineAssumption`, `BaseAssumption`). `SourceFeed`
assumes that each table is generated once per batch (`OrderAssumption`), that a
batch makes at least one change in a table and two in subscriptions, and that the
made-up after-image is not that of a change (`ScaleAssumption`), that the snapshot
fits the bounds (`SnapshotAssumption`), and that what the generator writes are
lines of a feed (`LinesAssumption`).

### The forward lane: `DeltaApply`

| Theorem | Says |
|---|---|
| `DeduplicationKeepsOne`, `WinnerUnique` | deduplication loses no event; a key has exactly one winner, so MERGE never matches a row twice |
| `MergeCovers`, `MergeIdempotent` | after MERGE every event is in its row or behind it; events the rows cover change nothing |
| `TypeCorrect` | `[]TypeOK` |
| `InOrder` | batches complete in order without gaps; no table is past the first incomplete batch |
| `Converges` | `[]CurrentStateConverges` |
| `EffectsFirst` | `[]CheckpointAfterEffects` |
| `NeverRegresses` | `SequenceNeverRegresses` |
| `EffectOnce` | `EffectivelyOnceSpec`: seen through the rows alone, the crashing and retrying pipeline is the three-action `EffectivelyOnce` |
| `MarksExact` | `[]HighWaterMarkExact` |
| `CommitAccepts` | the regression check of `commit_batch` never ends a run |
| `QuarantineBounded` | `[]QuarantineOncePerAttempt` |
| `RecoveryIsEvidence` | `[]RecoveryImpliesCrash` |
| `MetricsAgree` | `[]MetricsMatchLedger` |
| `RowsExplained` | `[]LedgerExplainsRows` |

None of these is inductive alone. The `InductiveInvariant` of `DeltaApply` is the
conjunction of

* `Scope`: what the process works on has landed and is not completed;
* `BatchOrder`: everything before the batch in work is completed, without which a
  later batch could be merged before an earlier one;
* `MergeOrder`: a table has merged the completed batches and at most the first
  incomplete one, so that what a crash leaves half done is exactly what the next
  run takes first;
* `EffectsOrder`: each store the batch in work has been through holds what it is
  owed, up to the program point; at the checkpoint this becomes
  `CheckpointAfterEffects`;
* `TypeOK` and `CurrentStateConverges`.

TLC checks it in `TwoTables`; `DeltaApply_proofs` proves that it holds initially
and that each action preserves it, one lemma per part and a step per action, and
derives the theorems. The step that needs thought is a MERGE that repeats one
cut short by a crash: by `MergeOrder` the events are those the rows already
cover, and `MergeIdempotent` applies.

The refinement goes action by action: `InitializeTable` is `Create`, `Land` is
`Land`, and a MERGE is `Apply` of the batch the abstract table is due, because a
winner is the latest of its key (`WinnerUnique`), or a stutter, when the table has
merged the batch before. Everything else stutters.

`AccountingInvariant` is the second invariant, proved on top of the first. Marks:
those staged are those of the checkpoint raised by the batch (`MarkOrder`), so a
late batch, all of whose sequences are below the mark, is neither refused nor
moves it. Attempts: each one that reached a table but did not complete ended in a
crash (`AttemptOrder`); without a crash no batch is left half merged
(`LeftoverOrder`), which is why a claim of recovery is evidence of one. Outcomes:
only events of the batch in work are staged, the ledger takes them over as they
are and the metrics after it (`StagedOrder`), and what is staged for the event an
untied row carries explains the row (`OutcomeOrder`): a retry calls it recovered or
already applied, and by `MergeOrder` never stale.

### The timeline: `History` and `Timelines`

| Theorem | Says |
|---|---|
| `Truth` | `[]TimelineTruthful` |
| `Exactness` | `[]ValidatorExact` |

For every baseline and every set of events of one key. `Timeline` folds the loop
body over the events sorted by sequence and id. `History_proofs` first shows that
sorting gives each event once, in order, then unfolds the fold into the sequence of
its intermediate timelines, with a loop invariant (the versions so far are those
of the events so far, closed at each other's sequence, the last one open, and
each attribute that of the newest event that gives it). That the invariant holds
to the end is shown by the least index at which it would not (`NatHasMinimum`), since an
induction theorem cannot be cited.

### The replay lane: `Replay`

| Theorem | Says |
|---|---|
| `TypeCorrect` | `[]TypeOK` |
| `FirstKept` | `[]StoreHoldsFirst` |
| `Tiled` | `[]HistoryTiles` |
| `NoneDropped` | `[]AppliedIsInHistory` |
| `Backed` | `[]QueueBackedByAudit` |
| `NotAhead` | `[]HistoryNotAhead` |
| `SettledStays` | `SettledStaysSettled` |
| `Agreement` | `[]LanesAgree`, when nothing is repaired |

All but the last follow from `ReplayInvariant` (`Consistent`), whose other parts are

* `BackfillInOrder`, `StoreInOrder`: every file before one the backfill has still
  to read is stored, and what is stored was delivered by no earlier file. A
  backfill that is run again, or that died, starts with the first file; this is
  why the store keeps the first content of an event through reruns;
* `QueueStored`, `WorkPending`: the process works on pending items of stored events,
  and the audit has the outcome of the one it works on before the queue does;
* `TimelineRead`: from the reads to the writes the timeline has its item, every
  applied item of the key, and every version it will replace. Store and history
  may change in between, but the store only grows and nobody else writes the
  history of the key;
* `TimelineChecked`: what passed the validator and the drift check is still valid
  and not ahead of the row when it is written, because rows only move forward,
  except by a repair, which is made by the same process and after which the row
  is where the timeline ends;
* `ReplacedWhole`, `NothingBeforeSeed`, `HistoryStored`, `RowsFromBaseline`: what the two
  commits leave, and that `init-history` overwrites nothing.

`Agreement` has the hypothesis `TRUE \notin Repairs`: no `replay-late-events` is given
`--repair-current`. It is needed, since a repair from a store that is behind moves
a row back (run `DocRepair`). Then a row is that of the newest event merged or of
the snapshot (`RowsMerged`), the last version of a valid timeline is of the newest
event stored (`TimelineEnd`, from `History_proofs`), and for a key that is
`Comparable` these are one event.

### The commands that share a checkpoint: `Commands`

| Theorem | Says |
|---|---|
| `TypeCorrect` | `[](TypeOK /\ Scope)` |
| `Witnesses` | `[]CompletedIsWitnessed`, for any overlap |
| `OnlyGrows` | `CheckpointOnlyGrows`, which speaks of commands that do not overlap |
| `LateExact` | `[]LateFileExact`, likewise |

The invariant of `Witnesses` adds to `CompletedIsWitnessed`

* `Progress`: what is staged in memory, written to files and merged of the batch in
  hand, up to the program point, and that rejected lines on disk are those of the
  batch (which is why a quarantine file left by an earlier attempt does no harm);
* `LoadedIsWitnessed`: what a command has loaded and is about to write back was
  witnessed when it was loaded and still is. Witnesses are never undone (files are
  rewritten with the same content), so a stale write invents nothing.

`OnlyGrows` rests on `Alone`: without overlap at most one command runs, and what
it has loaded is what the file holds.

`LateExact` follows from `LateInvariant` (`LateOnes`), which speaks of commands that
do not overlap too: the marks are those of the completed batches (`MarksAreSeen`),
what a command has in hand is not complete and its marks are raised from those
that still stand (`InHand`), what `process-cdc` stages it takes at these marks and
writes as it is (`LateStaged`), a batch once committed stays complete and so do
those before it (`CommitsStand`), and the file of an attempt that was cut short
holds nothing that is not late by now (`LateLeftOver`), because marks only grow.
The last is what makes the missing delete harmless: an attempt with no late event
does not remove the file of an earlier one, but then the earlier one had none to
write.

### From the source to its replica: `SourceFeed`

| Theorem | Says |
|---|---|
| `TypeCorrect` | `[]TypeOK` |
| `SourceConsistent` | `[]SourceInvariant` |
| `OnePlace` | `[]EveryChangeInOnePlace` |
| `Replica` | `[]ReplicaMatchesSource` |

`SourceInvariant` is `TypeOK` and five parts, which follow a change on its way. A
*line* is what the generator wrote down and did not make up.

* `LinesFiled`: a line is where its table's lines go, and only the made-up event
  is not a line;
* `LinesNumbered`: a line has a number given out since the snapshot, and a valid one
  is the change of that number;
* `LinesDiffer`: a number is that of one line, which is once in the batch in work,
  held back, or in one written batch. Opening a batch moves the lines held back
  into it, closing it moves its lines to the batch written, but for the one held
  back: each line moves once and whole. This is `EveryChangeInOnePlace`;
* `LastIsLine`: the last change of an entity is the highest valid line of its key
  and tells whether the entity exists; or there was none, and the snapshot does;
* `RowsFollow`: a row shows the newest of the snapshot and the events delivered so
  far, by `MergeCovers` and because MERGE never lowers a sequence.

When all batches are applied, a line that is not held back has been delivered, or a
copy of its id has. The premise `~ InDoubt` keeps the made-up events below the last
change of the entity, and deduplication replaces an event only by one of the same
id, hence of the same sequence; so the newest event delivered is the last change,
and `RowsFollow` and `LastIsLine` give the row.

### Only model-checked

* Liveness under fairness (`EveryBatchCompletes`, `EveryBatchSettles`,
  `PendingIsSettled`), which the prover does not handle here.

## 5. Not modelled, and the plan

Out of scope, because no state that matters depends on them: diagnostics
(read-only queries), settings, the Spark session, the string rules of validation,
ordering for display, argument parsing and the commands that print.
`advance_high_water_mark` and `save_checkpoint` are public, but only tests call
them.

Next, in this order:

1. `DeltaApply` with batches that land file by file and with `init-delta --force`.
2. `Replay` with two replay processes and with `init-history --force`.
3. Generating a feed again, with another seed, over batches already completed.
