------------------------------ MODULE Commands -------------------------------
(***************************************************************************)
(* Two commands on one checkpoint file.  process-cdc (CDCProcessor) stages *)
(* the valid, rejected and late events of a batch in files; apply-cdc      *)
(* merges the batch into the Delta tables, here one step per table (what   *)
(* DeltaApply shows in full).  Both take the batches the checkpoint does   *)
(* not list and finish with CheckpointManager.commit_batch, which reads    *)
(* checkpoint_state.json, checks it, and replaces it: without a lock.      *)
(***************************************************************************)
EXTENDS CdcFeed

CONSTANTS
  NoFile,         \* a file that is not there, or cannot be read
  BatchContents,  \* the batches that may land
  LegacyFiles,    \* the per-table checkpoint files an older version may have left
  Overlaps,       \* may a command be started while the other runs?
  MaxBatches,     \* bound on the batches that land
  MaxCrashes      \* bound on the deaths of commands

Batches == 1..MaxBatches

Lanes == {"process", "apply"}

\* checkpoint_state.json, and the file {table}.json of the older version.
Checkpoints == [hwm : [Tables -> Nat], completed : SUBSET Batches]
TableCheckpoints == [hwm : Nat, completed : SUBSET Batches]

ASSUME ContentsAssumption == BatchContents \subseteq BatchFiles /\ NoFile \notin BatchContents

ASSUME LegacyAssumption ==
  /\ LegacyFiles \subseteq [Tables -> TableCheckpoints \cup {NoFile}]
  /\ NoFile \notin TableCheckpoints \cup Checkpoints

ASSUME BoundsOfRunAssumption ==
  MaxBatches \in Nat /\ MaxCrashes \in Nat /\ Overlaps \subseteq BOOLEAN

\* What process-cdc stages for one table of a batch.
Outputs == [valid : SUBSET Records, rejected : SUBSET Records, late : SUBSET Records]
NoOutput == [valid |-> {}, rejected |-> {}, late |-> {}]

ASSUME ReportAssumption == NoFile \notin [Tables -> Outputs]

VARIABLES
  cdc,         \* the batch directories, NoFile until they land
  checkpoint,  \* checkpoint_state.json
  legacy,      \* the per-table checkpoint files
  applied,     \* batches merged into the Delta table
  outputs,     \* files valid_events, quarantine, late_events of (batch, table)
  report       \* metrics.json of a batch: the outputs it counts

VARIABLES
  pc,       \* where each command is; "idle" when it does not run
  todo,     \* discovered batches it has not reached
  batch,    \* the batch it works on
  pending,  \* tables its current loop has still to visit
  marks,    \* staged high-water marks
  loaded,   \* the checkpoint commit_batch has read
  staged    \* process-cdc: outputs not yet written

\* History: whether commands overlap in this behaviour, which lane committed a
\* batch last and what was completed then, deaths so far.
VARIABLES overlap, committed, crashes

files == <<cdc, checkpoint, legacy, applied, outputs, report>>
memory == <<pc, todo, batch, pending, marks, loaded, staged>>
vars == <<files, memory, overlap, committed, crashes>>

NoMarks == [t \in Tables |-> 0]
Fresh == [hwm |-> NoMarks, completed |-> {}]
NoOutputs == [t \in Tables |-> NoOutput]

Steps == {"idle", "migrate", "discover", "next", "read", "write", "report", "commit", "save"}

Commits == [lane : Lanes, before : SUBSET Batches]

TypeOK ==
  /\ cdc \in [Batches -> BatchContents \cup {NoFile}]
  /\ checkpoint \in Checkpoints \cup {NoFile}
  /\ legacy \in LegacyFiles
  /\ applied \in [Tables -> SUBSET Batches]
  /\ outputs \in [Batches -> [Tables -> Outputs]]
  /\ report \in [Batches -> [Tables -> Outputs] \cup {NoFile}]
  /\ pc \in [Lanes -> Steps]
  /\ todo \in [Lanes -> SUBSET Batches]
  /\ batch \in [Lanes -> Batches \cup {0}]
  /\ pending \in [Lanes -> SUBSET Tables]
  /\ marks \in [Lanes -> [Tables -> Nat]]
  /\ loaded \in [Lanes -> Checkpoints]
  /\ staged \in [Tables -> Outputs]
  /\ overlap \in BOOLEAN
  /\ committed \in [Batches -> Commits \cup {NoFile}]
  /\ crashes \in Nat

Init ==
  /\ cdc = [b \in Batches |-> NoFile]
  /\ checkpoint = NoFile
  /\ legacy \in LegacyFiles
  /\ applied = [t \in Tables |-> {}]
  /\ outputs = [b \in Batches |-> NoOutputs]
  /\ report = [b \in Batches |-> NoFile]
  /\ pc = [c \in Lanes |-> "idle"]
  /\ todo = [c \in Lanes |-> {}]
  /\ batch = [c \in Lanes |-> 0]
  /\ pending = [c \in Lanes |-> {}]
  /\ marks = [c \in Lanes |-> NoMarks]
  /\ loaded = [c \in Lanes |-> Fresh]
  /\ staged = NoOutputs
  /\ overlap \in Overlaps
  /\ committed = [b \in Batches |-> NoFile]
  /\ crashes = 0

-----------------------------------------------------------------------------
\* load_global_state, once legacy files (if any) have been migrated.
State == IF checkpoint = NoFile THEN Fresh ELSE checkpoint

Landed == {b \in Batches : cdc[b] # NoFile}

Readable == {t \in Tables : legacy[t] # NoFile}

\* Faulty variant of LegacyMark: a table without a file has no mark either.
LegacyMarkOrNone(t) == IF t \in Readable THEN legacy[t].hwm ELSE NoFile

LegacyMark(t) == IF t \in Readable THEN legacy[t].hwm ELSE 0

\* Faulty variant of LegacyCompleted: the tables that have a file decide.
LegacyCompletedSomewhere == {b \in Batches : \A t \in Readable : b \in legacy[t].completed}

\* A batch is complete if every table's file lists it; none is when a table
\* has no file.
LegacyCompleted ==
  {b \in Batches : Readable = Tables /\ \A t \in Tables : b \in legacy[t].completed}

\* _migrate_legacy_files_if_needed: the state the legacy files amount to.
Migrated == [hwm |-> [t \in Tables |-> LegacyMark(t)], completed |-> LegacyCompleted]

\* Faulty variant of LateEvents: an event at the mark is not late.
LateEventsBelow(file, mark) == {r \in Deduplicated(file) : mark > 0 /\ r.seq < mark}

\* Late events of a file: at or below the mark, once there is one.
LateEvents(file, mark) == {r \in Deduplicated(file) : mark > 0 /\ r.seq <= mark}

\* The lines of process_batch that stage one table.
Staged(file, mark) ==
  [valid |-> Deduplicated(file), rejected |-> Rejected(file), late |-> LateEvents(file, mark)]

\* Faulty variant of NextMark: the mark of the table is forgotten.
NextMarkOfFile(file, mark) == HighestSequence(file)

NextMark(file, mark) == Max({mark, HighestSequence(file)})

Goto(c, step) == pc' = [pc EXCEPT ![c] = step]

\* The command is over; what it held in memory is gone.
Leave(c) ==
  /\ Goto(c, "idle")
  /\ todo' = [todo EXCEPT ![c] = {}]
  /\ batch' = [batch EXCEPT ![c] = 0]
  /\ pending' = [pending EXCEPT ![c] = {}]
  /\ marks' = [marks EXCEPT ![c] = NoMarks]
  /\ loaded' = [loaded EXCEPT ![c] = Fresh]
  /\ staged' = IF c = "process" THEN NoOutputs ELSE staged

\* Table t of the loop is done: the last one leads on to the next step, with
\* the tables of its loop, if it has one.
Visit(c, t, step, tables) ==
  /\ pending' = [pending EXCEPT ![c] = IF @ = {t} THEN tables ELSE @ \ {t}]
  /\ Goto(c, IF pending[c] = {t} THEN step ELSE pc[c])

-----------------------------------------------------------------------------
\* The feed writes a batch directory, in any order of their numbers.
Land(b) ==
  /\ cdc[b] = NoFile
  /\ \E f \in BatchContents : cdc' = [cdc EXCEPT ![b] = f]
  /\ UNCHANGED <<checkpoint, legacy, applied, outputs, report, memory, overlap, committed, crashes>>

\* The command is run.  Its first look at the checkpoint finds the state file,
\* or legacy files to migrate, or neither; process-cdc looks only when it has
\* discovered a batch.
Start(c) ==
  /\ pc[c] = "idle"
  /\ overlap \/ \A d \in Lanes : pc[d] = "idle"
  /\ c = "process" => Landed # {}
  /\ Goto(c, IF checkpoint = NoFile /\ Readable # {} THEN "migrate" ELSE "discover")
  /\ UNCHANGED <<files, todo, batch, pending, marks, loaded, staged, overlap, committed, crashes>>

\* The migrated state is saved.
Migrate(c) ==
  /\ pc[c] = "migrate"
  /\ Goto(c, "discover")
  /\ checkpoint' = Migrated
  /\ UNCHANGED <<cdc, legacy, applied, outputs, report, todo, batch, pending, marks, loaded,
                 staged, overlap, committed, crashes>>

\* discover_batches; apply-cdc reads the completed batches here, once.
Discover(c) ==
  /\ pc[c] = "discover"
  /\ Goto(c, "next")
  /\ todo' = [todo EXCEPT ![c] = IF c = "apply" THEN Landed \ State.completed ELSE Landed]
  /\ UNCHANGED <<files, batch, pending, marks, loaded, staged, overlap, committed, crashes>>

IsNext(c, b) == pc[c] = "next" /\ b \in todo[c] /\ \A d \in todo[c] : b <= d

\* process-cdc asks again before each batch.
SkipCompleted(b) ==
  /\ IsNext("process", b)
  /\ b \in State.completed
  /\ todo' = [todo EXCEPT !["process"] = @ \ {b}]
  /\ UNCHANGED <<files, pc, batch, pending, marks, loaded, staged, overlap, committed, crashes>>

BeginBatch(c, b) ==
  /\ IsNext(c, b)
  /\ c = "process" => b \notin State.completed
  /\ Goto(c, "read")
  /\ todo' = [todo EXCEPT ![c] = @ \ {b}]
  /\ batch' = [batch EXCEPT ![c] = b]
  /\ pending' = [pending EXCEPT ![c] = Tables]
  /\ marks' = [marks EXCEPT ![c] = NoMarks]
  /\ staged' = IF c = "process" THEN NoOutputs ELSE staged
  /\ UNCHANGED <<files, loaded, overlap, committed, crashes>>

\* process_batch, first loop: everything stays in memory.
ReadTable(t) ==
  LET b == batch["process"]
  IN /\ pc["process"] = "read"
     /\ IsFirst(t, pending["process"])
     /\ staged' = [staged EXCEPT ![t] = Staged(cdc[b][t], State.hwm[t])]
     /\ marks' = [marks EXCEPT !["process"][t] = NextMark(cdc[b][t], State.hwm[t])]
     /\ Visit("process", t, "write", Tables)
     /\ UNCHANGED <<files, todo, batch, loaded, overlap, committed, crashes>>

\* Second loop: files are overwritten; one that has nothing to hold is not
\* touched, whatever an earlier attempt left there.
WriteTable(t) ==
  LET b == batch["process"]
  IN /\ pc["process"] = "write"
     /\ IsFirst(t, pending["process"])
     /\ outputs' = [outputs EXCEPT ![b][t] =
                      [valid |-> staged[t].valid,
                       rejected |-> IF staged[t].rejected = {} THEN @.rejected ELSE staged[t].rejected,
                       late |-> IF staged[t].late = {} THEN @.late ELSE staged[t].late]]
     /\ Visit("process", t, "report", {})
     /\ UNCHANGED <<cdc, checkpoint, legacy, applied, report, todo, batch, marks, loaded, staged,
                    overlap, committed, crashes>>

\* metrics.json
WriteReport ==
  /\ pc["process"] = "report"
  /\ Goto("process", "commit")
  /\ report' = [report EXCEPT ![batch["process"]] = staged]
  /\ UNCHANGED <<cdc, checkpoint, legacy, applied, outputs, todo, batch, pending, marks, loaded,
                 staged, overlap, committed, crashes>>

\* apply_batch: the mark is read and the table merged.
ApplyTable(t) ==
  LET b == batch["apply"]
  IN /\ pc["apply"] = "read"
     /\ IsFirst(t, pending["apply"])
     /\ applied' = [applied EXCEPT ![t] = @ \cup {b}]
     /\ marks' = [marks EXCEPT !["apply"][t] = NextMark(cdc[b][t], State.hwm[t])]
     /\ Visit("apply", t, "commit", {})
     /\ UNCHANGED <<cdc, checkpoint, legacy, outputs, report, todo, batch, loaded, staged,
                    overlap, committed, crashes>>

\* commit_batch, phase 1: load and check.  A mark below the loaded one raises
\* CheckpointRegressionError, which ends the command.
LoadState(c) ==
  /\ pc[c] = "commit"
  /\ IF \A t \in Tables : marks[c][t] >= State.hwm[t]
     THEN /\ Goto(c, "save")
          /\ loaded' = [loaded EXCEPT ![c] = State]
          /\ UNCHANGED <<todo, batch, pending, marks, staged>>
     ELSE Leave(c)
  /\ UNCHANGED <<files, overlap, committed, crashes>>

\* Faulty variant of SaveState: the batch is recorded, what was loaded is not.
SaveForgetting(c) ==
  /\ pc[c] = "save"
  /\ Goto(c, "next")
  /\ checkpoint' = [hwm |-> marks[c], completed |-> {batch[c]}]
  /\ committed' = [committed EXCEPT ![batch[c]] = [lane |-> c, before |-> loaded[c].completed]]
  /\ UNCHANGED <<cdc, legacy, applied, outputs, report, todo, batch, pending, marks, loaded,
                 staged, overlap, crashes>>

\* commit_batch, phases 2 and 3: the file is replaced by what was loaded with
\* the batch added.
SaveState(c) ==
  /\ pc[c] = "save"
  /\ Goto(c, "next")
  /\ checkpoint' = [hwm |-> [t \in Tables |-> Max({loaded[c].hwm[t], marks[c][t]})],
                    completed |-> loaded[c].completed \cup {batch[c]}]
  /\ committed' = [committed EXCEPT ![batch[c]] = [lane |-> c, before |-> loaded[c].completed]]
  /\ UNCHANGED <<cdc, legacy, applied, outputs, report, todo, batch, pending, marks, loaded,
                 staged, overlap, crashes>>

Finish(c) ==
  /\ pc[c] = "next"
  /\ todo[c] = {}
  /\ Leave(c)
  /\ UNCHANGED <<files, overlap, committed, crashes>>

\* The process dies, or something in it raises.
Crash(c) ==
  /\ pc[c] # "idle"
  /\ crashes < MaxCrashes
  /\ crashes' = crashes + 1
  /\ Leave(c)
  /\ UNCHANGED <<files, overlap, committed>>

-----------------------------------------------------------------------------
ProcessTable == \E t \in Tables : ReadTable(t) \/ WriteTable(t)

Run(c) ==
  \/ Migrate(c)
  \/ Discover(c)
  \/ \E b \in Batches : BeginBatch(c, b)
  \/ LoadState(c)
  \/ SaveState(c)
  \/ Finish(c)

Process == Run("process") \/ (\E b \in Batches : SkipCompleted(b)) \/ ProcessTable \/ WriteReport

Apply == Run("apply") \/ \E t \in Tables : ApplyTable(t)

Next ==
  \/ \E b \in Batches : Land(b)
  \/ \E c \in Lanes : Start(c) \/ Crash(c)
  \/ Process
  \/ Apply

Spec == Init /\ [][Next]_vars

\* A command that runs keeps running; some command is run again and again.
Fairness == WF_vars(Process) /\ WF_vars(Apply) /\ WF_vars(\E c \in Lanes : Start(c))

FairSpec == Spec /\ Fairness

-----------------------------------------------------------------------------
Applied(b) == \A t \in Tables : b \in applied[t]

\* The legacy file of every table lists the batch.
ListedByAll(b) == \A t \in Tables : legacy[t] # NoFile /\ b \in legacy[t].completed

\* What process-cdc must hold for a table of a batch: every event, the valid
\* ones once.
InFull(output, file) == output.valid = Deduplicated(file) /\ output.rejected = Rejected(file)

StagedInFull(b) == \A t \in Tables : InFull(outputs[b][t], cdc[b][t])

\* Somebody has carried the batch through.
Witnessed(b) ==
  \/ cdc[b] # NoFile /\ Applied(b)
  \/ cdc[b] # NoFile /\ StagedInFull(b) /\ report[b] # NoFile
  \/ ListedByAll(b)

(***************************************************************************)
(* Whatever overlaps, crashes or is migrated, a batch in the checkpoint    *)
(* has been carried through by somebody: merged into every Delta table, or *)
(* staged with all its events and reported, or listed by the legacy file   *)
(* of every table.                                                         *)
(***************************************************************************)
CompletedIsWitnessed == \A b \in State.completed : Witnessed(b)

\* With one command at a time, whatever crashes, the checkpoint never loses a
\* completed batch and no mark goes back.
CheckpointOnlyGrows ==
  [][~ overlap => /\ State.completed \subseteq State'.completed
                  /\ \A t \in Tables : State.hwm[t] <= State'.hwm[t]]_vars

\* The highest sequence table t has in these batches and had before the
\* migration.
Seen(t, bs) ==
  Max({IF legacy[t] = NoFile THEN 0 ELSE legacy[t].hwm}
      \cup {HighestSequence(cdc[b][t]) : b \in {d \in bs : ~ ListedByAll(d)}})

(***************************************************************************)
(* One command at a time: the late file of a batch process-cdc committed   *)
(* holds exactly the events at or below what was complete before that      *)
(* batch, and is what the metrics report, however often the batch was      *)
(* attempted before and whatever was completed in between.                 *)
(***************************************************************************)
LateFileExact ==
  ~ overlap =>
    \A b \in Batches : committed[b] # NoFile /\ committed[b].lane = "process" =>
      \A t \in Tables :
        /\ outputs[b][t].late =
             {r \in Deduplicated(cdc[b][t]) : r.seq <= Seen(t, committed[b].before)}
        /\ report[b][t] = outputs[b][t]

\* Every batch that lands is complete in the end and stays so, even when the
\* commands overlap and overwrite each other's commits.
EveryBatchSettles ==
  \A b \in Batches : cdc[b] # NoFile ~> [](b \in State.completed)

-----------------------------------------------------------------------------
(***************************************************************************)
(* Inductive strengthenings, for the proofs.                               *)
(***************************************************************************)
\* The steps of a command that has a batch in hand.
Working == {"read", "write", "report", "commit", "save"}

\* Commands work on batches that have landed; apply-cdc writes no files.
Scope ==
  /\ \A c \in Lanes : todo[c] \subseteq Landed
  /\ \A c \in Lanes : pc[c] \in Working => batch[c] \in Landed
  /\ pc["apply"] \notin {"write", "report"}

\* The tables a loop at this step has behind it.
Behind(c, step) == IF pc[c] = step THEN Tables \ pending[c] ELSE Tables

\* Rejected lines on disk are those of the batch.
RejectionsExact ==
  \A b \in Batches, t \in Tables :
    outputs[b][t].rejected # {} => cdc[b] # NoFile /\ outputs[b][t].rejected = Rejected(cdc[b][t])

\* What process-cdc has staged, and written, of the batch in hand.
ProcessProgress ==
  /\ pc["process"] \in Working =>
       \A t \in Behind("process", "read") : InFull(staged[t], cdc[batch["process"]][t])
  /\ pc["process"] \in {"write", "report", "commit", "save"} =>
       \A t \in Behind("process", "write") :
         InFull(outputs[batch["process"]][t], cdc[batch["process"]][t])
  /\ pc["process"] \in {"commit", "save"} => report[batch["process"]] # NoFile

\* What apply-cdc has merged of it.
ApplyProgress ==
  pc["apply"] \in Working => \A t \in Behind("apply", "read") : batch["apply"] \in applied[t]

Progress == RejectionsExact /\ ProcessProgress /\ ApplyProgress

\* What a command is about to write back was witnessed too.
LoadedIsWitnessed ==
  \A c \in Lanes : pc[c] = "save" => \A b \in loaded[c].completed : Witnessed(b)

InductiveInvariant == Progress /\ CompletedIsWitnessed /\ LoadedIsWitnessed

\* One command at a time: what was loaded is what there is.
Alone ==
  ~ overlap =>
    /\ \A c, d \in Lanes : pc[c] # "idle" /\ pc[d] # "idle" => c = d
    /\ \A c \in Lanes : pc[c] = "migrate" => checkpoint = NoFile
    /\ \A c \in Lanes : pc[c] = "save" => loaded[c] = State

\* The checkpoint is there, or there is nothing to migrate to it.
Ready == checkpoint # NoFile \/ Readable = {}

\* The marks are those of the completed batches, what was listed is complete.
MarksAreSeen ==
  Ready => /\ \A t \in Tables : State.hwm[t] = Seen(t, State.completed)
           /\ Readable # {} => LegacyCompleted \subseteq State.completed

\* A command at work has in hand, and apply-cdc ahead of it, what nobody has
\* completed; its marks are raised from those that still stand.
InHand(c) ==
  /\ pc[c] \notin {"idle", "migrate"} => Ready
  /\ c = "apply" /\ pc[c] \in Working \cup {"next"} => todo[c] \cap State.completed = {}
  /\ pc[c] \in Working =>
       /\ batch[c] \notin State.completed \cup todo[c]
       /\ \A t \in Behind(c, "read") :
            marks[c][t] = NextMark(cdc[batch[c]][t], State.hwm[t])

\* What process-cdc stages is taken at these marks, and is what it writes.
LateStaged ==
  LET b == batch["process"]
  IN /\ pc["process"] \in Working =>
          \A t \in Behind("process", "read") : staged[t] = Staged(cdc[b][t], State.hwm[t])
     /\ pc["process"] \in {"write", "report", "commit", "save"} =>
          \A t \in Behind("process", "write") : outputs[b][t] = staged[t]
     /\ pc["process"] \in {"commit", "save"} => report[b] = staged

\* A late file of an earlier attempt holds nothing that is not late by now.
LateLeftOver ==
  \A b \in Batches, t \in Tables : outputs[b][t].late # {} =>
    cdc[b] # NoFile /\ outputs[b][t].late \subseteq LateEvents(cdc[b][t], State.hwm[t])

\* What was committed is complete, and so is what was before it.
CommitsStand ==
  \A b \in Batches : committed[b] # NoFile =>
    cdc[b] # NoFile /\ committed[b].before \cup {b} \subseteq State.completed

LateInvariant ==
  ~ overlap => /\ MarksAreSeen /\ (\A c \in Lanes : InHand(c)) /\ LateStaged
               /\ LateLeftOver /\ CommitsStand

-----------------------------------------------------------------------------
\* README: the state file advances only after all Delta table writes succeed.
CompletedMeansApplied == \A b \in State.completed : Applied(b)
=============================================================================
