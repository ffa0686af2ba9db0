--------------------------- MODULE Commands_proofs ---------------------------
(***************************************************************************)
(* What the shared checkpoint can be relied on for, for every feed, every  *)
(* legacy state, every interleaving and every placement of crashes.        *)
(***************************************************************************)
EXTENDS Commands, CdcFeed_proofs

\* The recorded state is a checkpoint, whether or not there is a file.
LEMMA StateType == TypeOK => State \in Checkpoints
  BY DEF TypeOK, State, Checkpoints, Fresh, NoMarks

\* What the legacy files are migrated to is a checkpoint.
LEMMA MigratedType == TypeOK => Migrated \in Checkpoints
<1> SUFFICES ASSUME TypeOK PROVE Migrated \in Checkpoints
  OBVIOUS
<1>1. legacy \in [Tables -> TableCheckpoints \cup {NoFile}]
  BY LegacyAssumption DEF TypeOK
<1>2. \A t \in Tables : LegacyMark(t) \in Nat
  BY <1>1 DEF LegacyMark, Readable, TableCheckpoints
<1>3. LegacyCompleted \subseteq Batches
  BY DEF LegacyCompleted
<1>4. QED
  BY <1>2, <1>3 DEF Migrated, Checkpoints

\* The files of a landed batch hold records.
LEMMA LandedFilesAreRecords ==
  ASSUME TypeOK, NEW b \in Landed, NEW t \in Tables
  PROVE  cdc[b][t] \subseteq Records
  BY ContentsAssumption DEF TypeOK, Landed, BatchFiles

\* What process-cdc stages for a file is typed and in full.
LEMMA StagedType ==
  ASSUME NEW file, file \subseteq Records, NEW mark \in Nat
  PROVE  Staged(file, mark) \in Outputs /\ InFull(Staged(file, mark), file)
  BY DEF Staged, Outputs, InFull, Deduplicated, Accepted, Rejected, LateEvents

\* The next mark of a table is not below its mark.
LEMMA NextMarkType ==
  ASSUME NEW file, file \subseteq Records, NEW mark \in Nat
  PROVE  NextMark(file, mark) \in Nat /\ NextMark(file, mark) >= mark
<1>1. HighestSequence(file) \in Nat
  BY HighestSequenceType, BoundsAssumption
<1>2. QED
  BY <1>1, MaxOfTwo DEF NextMark

\* A commit raises the loaded marks.
LEMMA RaisedMarks ==
  ASSUME NEW old \in [Tables -> Nat], NEW new \in [Tables -> Nat]
  PROVE  LET raised == [t \in Tables |-> Max({old[t], new[t]})]
         IN raised \in [Tables -> Nat] /\ \A t \in Tables : raised[t] >= old[t]
<1>1. \A t \in Tables : Max({old[t], new[t]}) \in Nat /\ Max({old[t], new[t]}) >= old[t]
  BY MaxOfTwo
<1>2. QED
  BY <1>1

-----------------------------------------------------------------------------
(***************************************************************************)
(* Types.                                                                  *)
(***************************************************************************)
\* Before any command runs everything is typed and nothing is in hand.
LEMMA InitTyped == Init => TypeOK /\ Scope
<1> SUFFICES ASSUME Init PROVE TypeOK /\ Scope
  OBVIOUS
<1>1. NoMarks \in [Tables -> Nat] /\ Fresh \in Checkpoints /\ NoOutputs \in [Tables -> Outputs]
  BY DEF NoMarks, Fresh, Checkpoints, NoOutputs, NoOutput, Outputs
<1>2. TypeOK
  BY <1>1, BoundsOfRunAssumption DEF Init, TypeOK, Steps
<1>3. Scope
  BY DEF Init, Scope, Working, Lanes
<1>4. QED
  BY <1>2, <1>3

\* A command that is over holds typed nothing.
LEMMA LeaveTyped ==
  ASSUME TypeOK, Scope, NEW c \in Lanes, Leave(c), UNCHANGED cdc
  PROVE  /\ pc' \in [Lanes -> Steps] /\ todo' \in [Lanes -> SUBSET Batches]
         /\ batch' \in [Lanes -> Batches \cup {0}] /\ pending' \in [Lanes -> SUBSET Tables]
         /\ marks' \in [Lanes -> [Tables -> Nat]] /\ loaded' \in [Lanes -> Checkpoints]
         /\ staged' \in [Tables -> Outputs]
         /\ Scope'
<1>1. NoMarks \in [Tables -> Nat] /\ Fresh \in Checkpoints /\ NoOutputs \in [Tables -> Outputs]
  BY DEF NoMarks, Fresh, Checkpoints, NoOutputs, NoOutput, Outputs
<1>2. pc' \in [Lanes -> Steps]
  BY DEF Leave, Goto, TypeOK, Steps
<1>3. Scope'
  BY DEF Leave, Goto, TypeOK, Scope, Landed, Working, Lanes
<1>4. QED
  BY <1>1, <1>2, <1>3 DEF Leave, TypeOK

\* Every step keeps the variables typed and the commands on landed batches.
LEMMA StepTyped == TypeOK /\ Scope /\ [Next]_vars => TypeOK' /\ Scope'
<1> SUFFICES ASSUME TypeOK, Scope, [Next]_vars PROVE TypeOK' /\ Scope'
  OBVIOUS
<1> USE DEF Goto
<1>a. State \in Checkpoints
  BY StateType
<1>b. NoMarks \in [Tables -> Nat] /\ NoOutputs \in [Tables -> Outputs]
  BY DEF NoMarks, NoOutputs, NoOutput, Outputs
<1>1. ASSUME NEW b \in Batches, Land(b) PROVE TypeOK' /\ Scope'
  <2>1. cdc' \in [Batches -> BatchContents \cup {NoFile}] /\ Landed \subseteq Landed'
    BY <1>1, ContentsAssumption DEF Land, TypeOK, Landed
  <2>2. TypeOK'
    BY <1>1, <2>1 DEF Land, TypeOK, memory
  <2>3. Scope'
    BY <1>1, <2>1 DEF Land, Scope, memory
  <2>4. QED
    BY <2>2, <2>3
<1>2. ASSUME NEW c \in Lanes, Start(c) PROVE TypeOK' /\ Scope'
  <2>1. TypeOK'
    BY <1>2 DEF Start, TypeOK, files, Steps
  <2>2. Scope'
    BY <1>2 DEF Start, TypeOK, files, Scope, Landed, Working, Lanes
  <2>3. QED
    BY <2>1, <2>2
<1>3. ASSUME NEW c \in Lanes, Migrate(c) PROVE TypeOK' /\ Scope'
  <2>1. TypeOK'
    BY <1>3, MigratedType DEF Migrate, TypeOK, Steps
  <2>2. Scope'
    BY <1>3 DEF Migrate, TypeOK, Scope, Landed, Working, Lanes
  <2>3. QED
    BY <2>1, <2>2
<1>4. ASSUME NEW c \in Lanes, Discover(c) PROVE TypeOK' /\ Scope'
  <2>1. TypeOK'
    BY <1>4 DEF Discover, TypeOK, files, Steps, Landed
  <2>2. Scope'
    BY <1>4 DEF Discover, TypeOK, files, Scope, Landed, Working, Lanes
  <2>3. QED
    BY <2>1, <2>2
<1>5. ASSUME NEW b \in Batches, SkipCompleted(b) PROVE TypeOK' /\ Scope'
  <2>1. TypeOK'
    BY <1>5 DEF SkipCompleted, TypeOK, files, Lanes
  <2>2. Scope'
    BY <1>5 DEF SkipCompleted, TypeOK, files, Scope, Landed, Lanes
  <2>3. QED
    BY <2>1, <2>2
<1>6. ASSUME NEW c \in Lanes, NEW b \in Batches, BeginBatch(c, b) PROVE TypeOK' /\ Scope'
  <2>1. TypeOK'
    BY <1>6, <1>b DEF BeginBatch, TypeOK, files, Steps
  <2>2. Scope'
    BY <1>6 DEF BeginBatch, IsNext, TypeOK, files, Scope, Landed, Working, Lanes
  <2>3. QED
    BY <2>1, <2>2
<1>7. ASSUME NEW t \in Tables, ReadTable(t) PROVE TypeOK' /\ Scope'
  <2> DEFINE file == cdc[batch["process"]][t]
  <2>1. batch["process"] \in Landed
    BY <1>7 DEF ReadTable, Scope, Working, Lanes
  <2>2. file \subseteq Records /\ State.hwm[t] \in Nat
    BY <2>1, <1>a, LandedFilesAreRecords DEF Checkpoints
  <2>3. Staged(file, State.hwm[t]) \in Outputs /\ NextMark(file, State.hwm[t]) \in Nat
    BY <2>2, StagedType, NextMarkType
  <2>4. staged' \in [Tables -> Outputs] /\ marks' \in [Lanes -> [Tables -> Nat]]
    BY <1>7, <2>3 DEF ReadTable, TypeOK
  <2>5. pc' \in [Lanes -> Steps] /\ pending' \in [Lanes -> SUBSET Tables]
    BY <1>7 DEF ReadTable, Visit, TypeOK, Steps
  <2>6. TypeOK'
    BY <1>7, <2>4, <2>5 DEF ReadTable, TypeOK, files
  <2>7. Scope'
    BY <1>7, <2>1 DEF ReadTable, Visit, TypeOK, files, Scope, Landed, Working, Lanes
  <2>8. QED
    BY <2>6, <2>7
<1>8. ASSUME NEW t \in Tables, WriteTable(t) PROVE TypeOK' /\ Scope'
  <2> DEFINE b == batch["process"]
             old == outputs[b][t]
             new == [valid |-> staged[t].valid,
                     rejected |-> IF staged[t].rejected = {} THEN old.rejected ELSE staged[t].rejected,
                     late |-> IF staged[t].late = {} THEN old.late ELSE staged[t].late]
  <2>1. b \in Batches /\ b \in Landed
    BY <1>8 DEF WriteTable, Scope, Working, Lanes, Landed
  <2>2. old \in Outputs /\ staged[t] \in Outputs
    BY <2>1 DEF TypeOK
  <2>3. new \in Outputs
    BY <2>2 DEF Outputs
  <2>4. outputs' = [outputs EXCEPT ![b][t] = new]
    BY <1>8 DEF WriteTable
  <2>5. outputs' \in [Batches -> [Tables -> Outputs]]
    BY <2>1, <2>3, <2>4 DEF TypeOK
  <2>6. pc' \in [Lanes -> Steps] /\ pending' \in [Lanes -> SUBSET Tables]
    BY <1>8 DEF WriteTable, Visit, TypeOK, Steps
  <2>7. TypeOK'
    BY <1>8, <2>5, <2>6 DEF WriteTable, TypeOK
  <2>8. Scope'
    BY <1>8, <2>1 DEF WriteTable, Visit, TypeOK, Scope, Landed, Working, Lanes
  <2>9. QED
    BY <2>7, <2>8
<1>9. CASE WriteReport
  <2>1. batch["process"] \in Batches
    BY <1>9 DEF WriteReport, Scope, Working, Lanes, Landed
  <2>2. TypeOK'
    BY <1>9, <2>1 DEF WriteReport, TypeOK, Steps
  <2>3. Scope'
    BY <1>9 DEF WriteReport, TypeOK, Scope, Landed, Working, Lanes
  <2>4. QED
    BY <2>2, <2>3
<1>10. ASSUME NEW t \in Tables, ApplyTable(t) PROVE TypeOK' /\ Scope'
  <2>1. batch["apply"] \in Landed /\ batch["apply"] \in Batches
    BY <1>10 DEF ApplyTable, Scope, Working, Lanes, Landed
  <2>2. NextMark(cdc[batch["apply"]][t], State.hwm[t]) \in Nat
    BY <2>1, <1>a, LandedFilesAreRecords, NextMarkType DEF Checkpoints
  <2>3. marks' \in [Lanes -> [Tables -> Nat]] /\ applied' \in [Tables -> SUBSET Batches]
    BY <1>10, <2>1, <2>2 DEF ApplyTable, TypeOK
  <2>4. pc' \in [Lanes -> Steps] /\ pending' \in [Lanes -> SUBSET Tables]
    BY <1>10 DEF ApplyTable, Visit, TypeOK, Steps
  <2>5. TypeOK'
    BY <1>10, <2>3, <2>4 DEF ApplyTable, TypeOK
  <2>6. Scope'
    BY <1>10, <2>1 DEF ApplyTable, Visit, TypeOK, Scope, Landed, Working, Lanes
  <2>7. QED
    BY <2>5, <2>6
<1>11. ASSUME NEW c \in Lanes, LoadState(c) PROVE TypeOK' /\ Scope'
  <2>1. CASE Leave(c)
    BY <1>11, <2>1, LeaveTyped DEF LoadState, files, TypeOK
  <2>2. CASE ~ Leave(c)
    <3>1. TypeOK'
      BY <1>11, <2>2, <1>a DEF LoadState, files, TypeOK, Steps
    <3>2. Scope'
      BY <1>11, <2>2 DEF LoadState, files, TypeOK, Scope, Landed, Working, Lanes
    <3>3. QED
      BY <3>1, <3>2
  <2>3. QED
    BY <2>1, <2>2
<1>12. ASSUME NEW c \in Lanes, SaveState(c) PROVE TypeOK' /\ Scope'
  <2>1. batch[c] \in Batches /\ loaded[c] \in Checkpoints
    BY <1>12 DEF SaveState, Scope, Working, Landed, TypeOK
  <2>2. checkpoint' \in Checkpoints
    BY <1>12, <2>1, RaisedMarks DEF SaveState, Checkpoints, TypeOK
  <2>3. committed' \in [Batches -> Commits \cup {NoFile}]
    BY <1>12, <2>1 DEF SaveState, TypeOK, Commits, Checkpoints
  <2>4. TypeOK'
    BY <1>12, <2>2, <2>3 DEF SaveState, TypeOK, Steps
  <2>5. Scope'
    BY <1>12 DEF SaveState, TypeOK, Scope, Landed, Working, Lanes
  <2>6. QED
    BY <2>4, <2>5
<1>13. ASSUME NEW c \in Lanes, Finish(c) PROVE TypeOK' /\ Scope'
  BY <1>13, LeaveTyped DEF Finish, files, TypeOK
<1>14. ASSUME NEW c \in Lanes, Crash(c) PROVE TypeOK' /\ Scope'
  BY <1>14, LeaveTyped DEF Crash, files, TypeOK
<1>15. CASE UNCHANGED vars
  <2>1. TypeOK'
    BY <1>15 DEF vars, files, memory, TypeOK
  <2>2. Scope'
    BY <1>15 DEF vars, files, memory, Scope, Landed
  <2>3. QED
    BY <2>1, <2>2
<1>16. QED
  BY <1>1, <1>2, <1>3, <1>4, <1>5, <1>6, <1>7, <1>8, <1>9, <1>10, <1>11, <1>12, <1>13, <1>14, <1>15
     DEF Next, Process, Apply, Run, ProcessTable, Lanes

\* The variables of both commands stay typed, and no command works on a batch
\* that has not landed.
THEOREM TypeCorrect == Spec => [](TypeOK /\ Scope)
<1>1. Init => TypeOK /\ Scope
  BY InitTyped
<1>2. TypeOK /\ Scope /\ [Next]_vars => (TypeOK /\ Scope)'
  BY StepTyped
<1>3. QED
  BY <1>1, <1>2, PTL DEF Spec

-----------------------------------------------------------------------------
(***************************************************************************)
(* A completed batch is witnessed.                                         *)
(***************************************************************************)
\* No step takes anything back: landed batches and legacy files stay as they
\* are, merged batches stay merged, reports are replaced but not removed.
LEMMA NothingTakenBack ==
  ASSUME TypeOK, Scope, [Next]_vars
  PROVE  /\ legacy' = legacy
         /\ \A b \in Landed : b \in Landed' /\ cdc'[b] = cdc[b]
         /\ \A t \in Tables : applied[t] \subseteq applied'[t]
         /\ \A b \in Batches : report[b] # NoFile => report'[b] # NoFile
<1> DEFINE Kept == /\ legacy' = legacy
                   /\ \A b \in Landed : b \in Landed' /\ cdc'[b] = cdc[b]
                   /\ \A t \in Tables : applied[t] \subseteq applied'[t]
                   /\ \A b \in Batches : report[b] # NoFile => report'[b] # NoFile
<1>1. ASSUME NEW b \in Batches, Land(b) PROVE Kept
  BY <1>1, ContentsAssumption DEF Land, TypeOK, Landed
<1>2. CASE WriteReport
  BY <1>2, ReportAssumption DEF WriteReport, TypeOK, Landed
<1>3. ASSUME NEW t \in Tables, ApplyTable(t) PROVE Kept
  BY <1>3 DEF ApplyTable, TypeOK, Landed
<1>4. CASE UNCHANGED <<cdc, legacy, applied, report>>
  BY <1>4 DEF Landed
<1>5. (\E c \in Lanes : \/ Start(c) \/ Crash(c) \/ Migrate(c) \/ Discover(c) \/ LoadState(c)
                        \/ SaveState(c) \/ Finish(c) \/ \E b \in Batches : BeginBatch(c, b))
      => UNCHANGED <<cdc, legacy, applied, report>>
  BY DEF Start, Crash, Migrate, Discover, LoadState, SaveState, Finish, BeginBatch, files
<1>6. (\/ \E b \in Batches : SkipCompleted(b)
       \/ \E t \in Tables : ReadTable(t) \/ WriteTable(t)
       \/ UNCHANGED vars)
      => UNCHANGED <<cdc, legacy, applied, report>>
  BY DEF SkipCompleted, ReadTable, WriteTable, files, vars
<1>7. QED
  BY <1>1, <1>2, <1>3, <1>4, <1>5, <1>6 DEF Next, Process, Apply, Run, ProcessTable, Lanes

\* Only WriteTable writes an output.
LEMMA OutputsKept ==
  ASSUME [Next]_vars
  PROVE  outputs' = outputs \/ \E t \in Tables : WriteTable(t)
<1>1. (\E c \in Lanes : \/ Start(c) \/ Crash(c) \/ Migrate(c) \/ Discover(c) \/ LoadState(c)
                        \/ SaveState(c) \/ Finish(c) \/ \E b \in Batches : BeginBatch(c, b))
      => outputs' = outputs
  BY DEF Start, Crash, Migrate, Discover, LoadState, SaveState, Finish, BeginBatch, files
<1>2. (\/ \E b \in Batches : SkipCompleted(b) \/ Land(b)
       \/ \E t \in Tables : ReadTable(t) \/ ApplyTable(t)
       \/ WriteReport
       \/ UNCHANGED vars)
      => outputs' = outputs
  BY DEF SkipCompleted, Land, ReadTable, ApplyTable, WriteReport, files, vars
<1>3. QED
  BY <1>1, <1>2 DEF Next, Process, Apply, Run, ProcessTable, Lanes

\* The file a table gets is in full, whatever an earlier attempt left.
LEMMA WriteTableInFull ==
  ASSUME TypeOK, Scope, Progress, NEW t \in Tables, WriteTable(t)
  PROVE  LET b == batch["process"]
         IN /\ b \in Landed /\ b \in Batches
            /\ InFull(outputs'[b][t], cdc[b][t])
            /\ \A d \in Batches, u \in Tables :
                 <<d, u>> # <<b, t>> => outputs'[d][u] = outputs[d][u]
<1> DEFINE b == batch["process"]
<1>1. b \in Landed /\ b \in Batches
  BY DEF WriteTable, Scope, Working, Lanes, Landed
<1>2. InFull(staged[t], cdc[b][t])
  BY DEF WriteTable, Progress, ProcessProgress, Working, Behind
<1>3. outputs[b][t].rejected # {} => outputs[b][t].rejected = Rejected(cdc[b][t])
  BY <1>1 DEF Progress, RejectionsExact
<1>4. /\ outputs'[b][t].valid = staged[t].valid
      /\ outputs'[b][t].rejected =
           IF staged[t].rejected = {} THEN outputs[b][t].rejected ELSE staged[t].rejected
  BY <1>1 DEF WriteTable, TypeOK
<1>5. \A d \in Batches, u \in Tables : <<d, u>> # <<b, t>> => outputs'[d][u] = outputs[d][u]
  BY <1>1 DEF WriteTable, TypeOK
<1>6. InFull(outputs'[b][t], cdc[b][t])
  BY <1>2, <1>3, <1>4 DEF InFull
<1>7. QED
  BY <1>1, <1>5, <1>6

\* What is in full stays in full.
LEMMA FullStays ==
  ASSUME TypeOK, Scope, Progress, [Next]_vars, NEW b \in Landed, NEW t \in Tables,
         InFull(outputs[b][t], cdc[b][t])
  PROVE  InFull(outputs'[b][t], cdc'[b][t])
<1>1. cdc'[b] = cdc[b] /\ b \in Batches
  BY NothingTakenBack DEF Landed
<1>2. CASE outputs' = outputs
  BY <1>1, <1>2
<1>3. ASSUME NEW u \in Tables, WriteTable(u) PROVE InFull(outputs'[b][t], cdc'[b][t])
  <2>1. CASE b = batch["process"] /\ t = u
    BY <1>1, <1>3, <2>1, WriteTableInFull
  <2>2. CASE ~ (b = batch["process"] /\ t = u)
    <3>1. outputs'[b][t] = outputs[b][t]
      BY <1>1, <1>3, <2>2, WriteTableInFull
    <3>2. QED
      BY <1>1, <3>1
  <2>3. QED
    BY <2>1, <2>2
<1>4. QED
  BY <1>2, <1>3, OutputsKept

\* A witnessed batch stays witnessed.
LEMMA WitnessStays ==
  ASSUME TypeOK, Scope, Progress, [Next]_vars, NEW b \in Batches, Witnessed(b)
  PROVE  Witnessed(b)'
<1>1. CASE cdc[b] # NoFile /\ Applied(b)
  <2>1. b \in Landed
    BY <1>1 DEF Landed
  <2>2. cdc'[b] # NoFile
    BY <2>1, NothingTakenBack DEF Landed
  <2>3. Applied(b)'
    BY <1>1, NothingTakenBack DEF Applied
  <2>4. QED
    BY <2>2, <2>3 DEF Witnessed
<1>2. CASE cdc[b] # NoFile /\ StagedInFull(b) /\ report[b] # NoFile
  <2>1. b \in Landed
    BY <1>2 DEF Landed
  <2>2. cdc'[b] # NoFile /\ report'[b] # NoFile
    BY <1>2, <2>1, NothingTakenBack DEF Landed
  <2>3. \A t \in Tables : InFull(outputs'[b][t], cdc'[b][t])
    BY <1>2, <2>1, FullStays DEF StagedInFull
  <2>4. QED
    BY <2>2, <2>3 DEF Witnessed, StagedInFull
<1>3. CASE ListedByAll(b)
  BY <1>3, NothingTakenBack DEF Witnessed, ListedByAll
<1>4. QED
  BY <1>1, <1>2, <1>3 DEF Witnessed

\* Files of rejected lines stay exact.
LEMMA StepRejections ==
  TypeOK /\ Scope /\ Progress /\ [Next]_vars => RejectionsExact'
<1> SUFFICES ASSUME TypeOK, Scope, Progress, [Next]_vars, NEW b \in Batches, NEW t \in Tables,
                    outputs'[b][t].rejected # {}
             PROVE  cdc'[b] # NoFile /\ outputs'[b][t].rejected = Rejected(cdc'[b][t])
  BY DEF RejectionsExact
<1>1. CASE outputs'[b][t] = outputs[b][t]
  <2>1. b \in Landed /\ outputs[b][t].rejected = Rejected(cdc[b][t])
    BY <1>1 DEF Progress, RejectionsExact, Landed
  <2>2. QED
    BY <1>1, <2>1, NothingTakenBack DEF Landed
<1>2. ASSUME NEW u \in Tables, WriteTable(u), b = batch["process"], t = u
      PROVE  cdc'[b] # NoFile /\ outputs'[b][t].rejected = Rejected(cdc'[b][t])
  <2>1. b \in Landed /\ InFull(outputs'[b][t], cdc[b][t])
    BY <1>2, WriteTableInFull
  <2>2. QED
    BY <2>1, NothingTakenBack DEF InFull, Landed
<1>3. ASSUME NEW u \in Tables, WriteTable(u), ~ (b = batch["process"] /\ t = u)
      PROVE  outputs'[b][t] = outputs[b][t]
  BY <1>3, WriteTableInFull
<1>4. QED
  BY <1>1, <1>2, <1>3, OutputsKept

\* A step of the other command, or of the feed, leaves this one's progress.
LEMMA ProcessUndisturbed ==
  ASSUME TypeOK, Scope, Progress, [Next]_vars,
         pc'["process"] = pc["process"], batch'["process"] = batch["process"],
         pending'["process"] = pending["process"], staged' = staged
  PROVE  ProcessProgress'
<1> DEFINE b == batch["process"]
<1>1. CASE pc["process"] \in Working
  <2>1. b \in Landed /\ b \in Batches
    BY <1>1 DEF Scope, Lanes, Landed
  <2>2. cdc'[b] = cdc[b]
    BY <2>1, NothingTakenBack
  <2>3. \A t \in Tables : InFull(outputs[b][t], cdc[b][t]) => InFull(outputs'[b][t], cdc'[b][t])
    BY <2>1, FullStays
  <2>4. pc["process"] \in {"commit", "save"} => report'[b] # NoFile
    BY <2>1, NothingTakenBack DEF Progress, ProcessProgress
  <2>5. \A t \in Behind("process", "read") : InFull(staged'[t], cdc'[b][t])
    BY <1>1, <2>2 DEF Progress, ProcessProgress
  <2>6. pc["process"] \in {"write", "report", "commit", "save"} =>
          \A t \in Behind("process", "write") : InFull(outputs'[b][t], cdc'[b][t])
    BY <2>3 DEF Progress, ProcessProgress, Behind
  <2>7. QED
    BY <2>4, <2>5, <2>6 DEF ProcessProgress, Behind
<1>2. CASE pc["process"] \notin Working
  BY <1>2 DEF ProcessProgress, Working
<1>3. QED
  BY <1>1, <1>2

\* And the other way round.
LEMMA ApplyUndisturbed ==
  ASSUME TypeOK, Scope, Progress, [Next]_vars,
         pc'["apply"] = pc["apply"], batch'["apply"] = batch["apply"],
         pending'["apply"] = pending["apply"]
  PROVE  ApplyProgress'
<1>1. \A t \in Tables : applied[t] \subseteq applied'[t]
  BY NothingTakenBack
<1>2. QED
  BY <1>1 DEF Progress, ApplyProgress, Behind

\* Every step of process-cdc keeps its progress.
LEMMA StepProcess ==
  TypeOK /\ Scope /\ Progress /\ [Next]_vars => ProcessProgress'
<1> SUFFICES ASSUME TypeOK, Scope, Progress, [Next]_vars PROVE ProcessProgress'
  OBVIOUS
<1> USE DEF Goto
<1> DEFINE b == batch["process"]
           Idle == pc'["process"] \notin Working
           Same == /\ pc'["process"] = pc["process"] /\ batch'["process"] = batch["process"]
                   /\ pending'["process"] = pending["process"] /\ staged' = staged
<1>a. Idle => ProcessProgress'
  BY DEF ProcessProgress, Working
<1>b. Same => ProcessProgress'
  BY ProcessUndisturbed
<1>1. ASSUME NEW c \in Lanes, Start(c) \/ Migrate(c) \/ Discover(c) \/ Finish(c) \/ Crash(c)
      PROVE  ProcessProgress'
  <2>1. CASE c = "process"
    <3>1. Idle
      BY <1>1, <2>1
         DEF Start, Migrate, Discover, Finish, Crash, Leave, TypeOK, Working, Lanes
    <3>2. QED
      BY <3>1, <1>a
  <2>2. CASE c = "apply"
    <3>1. Same
      BY <1>1, <2>2 DEF Start, Migrate, Discover, Finish, Crash, Leave, TypeOK, Lanes
    <3>2. QED
      BY <3>1, <1>b
  <2>3. QED
    BY <2>1, <2>2 DEF Lanes
<1>2. ASSUME NEW d \in Batches, Land(d) \/ SkipCompleted(d) PROVE ProcessProgress'
  <2>1. Same
    BY <1>2 DEF Land, SkipCompleted, memory
  <2>2. QED
    BY <2>1, <1>b
<1>3. ASSUME NEW c \in Lanes, NEW d \in Batches, BeginBatch(c, d) PROVE ProcessProgress'
  <2>1. CASE c = "process"
    <3>1. pc'["process"] = "read" /\ pending'["process"] = Tables
      BY <1>3, <2>1 DEF BeginBatch, TypeOK, Lanes
    <3>2. QED
      BY <3>1 DEF ProcessProgress, Behind
  <2>2. CASE c = "apply"
    <3>1. Same
      BY <1>3, <2>2 DEF BeginBatch, TypeOK, Lanes
    <3>2. QED
      BY <3>1, <1>b
  <2>3. QED
    BY <2>1, <2>2 DEF Lanes
<1>4. ASSUME NEW t \in Tables, ReadTable(t) PROVE ProcessProgress'
  <2>1. b \in Landed
    BY <1>4 DEF ReadTable, Scope, Working, Lanes
  <2>2. cdc[b][t] \subseteq Records /\ State.hwm[t] \in Nat
    BY <2>1, LandedFilesAreRecords, StateType DEF Checkpoints
  <2>3. staged' = [staged EXCEPT ![t] = Staged(cdc[b][t], State.hwm[t])]
    BY <1>4 DEF ReadTable
  <2>4. InFull(staged'[t], cdc[b][t]) /\ \A u \in Tables : u # t => staged'[u] = staged[u]
    BY <2>2, <2>3, StagedType DEF TypeOK
  <2>5. \A u \in Tables \ pending["process"] : InFull(staged[u], cdc[b][u])
    BY <1>4 DEF ReadTable, Progress, ProcessProgress, Behind, Working
  <2>6. /\ batch' = batch /\ cdc' = cdc
        /\ \/ pc'["process"] = "read" /\ pending'["process"] = pending["process"] \ {t}
           \/ /\ pc'["process"] = "write" /\ pending'["process"] = Tables
              /\ pending["process"] = {t}
    BY <1>4 DEF ReadTable, Visit, TypeOK, Lanes, files
  <2>7. QED
    BY <2>4, <2>5, <2>6 DEF ProcessProgress, Behind
<1>5. ASSUME NEW t \in Tables, WriteTable(t) PROVE ProcessProgress'
  <2>1. /\ b \in Landed /\ b \in Batches /\ InFull(outputs'[b][t], cdc[b][t])
        /\ \A u \in Tables : u # t => outputs'[b][u] = outputs[b][u]
    BY <1>5, WriteTableInFull
  <2>2. /\ \A u \in Tables : InFull(staged[u], cdc[b][u])
        /\ \A u \in Tables \ pending["process"] : InFull(outputs[b][u], cdc[b][u])
    BY <1>5 DEF WriteTable, Progress, ProcessProgress, Behind, Working
  <2>3. /\ batch' = batch /\ cdc' = cdc /\ staged' = staged
        /\ \/ pc'["process"] = "write" /\ pending'["process"] = pending["process"] \ {t}
           \/ pc'["process"] = "report" /\ pending["process"] = {t}
    BY <1>5 DEF WriteTable, Visit, TypeOK, Lanes
  <2>4. QED
    BY <2>1, <2>2, <2>3 DEF ProcessProgress, Behind
<1>6. CASE WriteReport
  <2>1. pc["process"] = "report" /\ pc'["process"] = "commit"
    BY <1>6 DEF WriteReport, TypeOK, Lanes
  <2>2. b \in Batches /\ report'[b] = staged /\ staged # NoFile
    BY <1>6, <2>1, ReportAssumption DEF WriteReport, Scope, Working, Lanes, Landed, TypeOK
  <2>3. \A u \in Tables : InFull(staged[u], cdc[b][u]) /\ InFull(outputs[b][u], cdc[b][u])
    BY <2>1 DEF Progress, ProcessProgress, Behind, Working
  <2>4. batch' = batch /\ cdc' = cdc /\ staged' = staged /\ outputs' = outputs
    BY <1>6 DEF WriteReport
  <2>5. QED
    BY <2>1, <2>2, <2>3, <2>4 DEF ProcessProgress, Behind
<1>7. ASSUME NEW t \in Tables, ApplyTable(t) PROVE ProcessProgress'
  <2>1. Same
    BY <1>7 DEF ApplyTable, Visit, TypeOK, Lanes
  <2>2. QED
    BY <2>1, <1>b
<1>8. ASSUME NEW c \in Lanes, LoadState(c) \/ SaveState(c) PROVE ProcessProgress'
  <2>1. CASE c = "apply"
    <3>1. Same
      BY <1>8, <2>1 DEF LoadState, SaveState, Leave, TypeOK, Lanes
    <3>2. QED
      BY <3>1, <1>b
  <2>2. CASE c = "process"
    <3>1. \/ Idle
          \/ /\ pc["process"] = "commit" /\ pc'["process"] = "save" /\ batch' = batch
             /\ staged' = staged /\ outputs' = outputs /\ report' = report /\ cdc' = cdc
      BY <1>8, <2>2 DEF LoadState, SaveState, Leave, TypeOK, Lanes, Working, files
    <3>2. QED
      BY <3>1, <1>a DEF ProcessProgress, Progress, Behind, Working
  <2>3. QED
    BY <2>1, <2>2 DEF Lanes
<1>9. CASE UNCHANGED vars
  BY <1>9, <1>b DEF vars, memory
<1>10. QED
  BY <1>1, <1>2, <1>3, <1>4, <1>5, <1>6, <1>7, <1>8, <1>9
     DEF Next, Process, Apply, Run, ProcessTable, Lanes

\* Every step of apply-cdc keeps its progress.
LEMMA StepApply ==
  TypeOK /\ Scope /\ Progress /\ [Next]_vars => ApplyProgress'
<1> SUFFICES ASSUME TypeOK, Scope, Progress, [Next]_vars PROVE ApplyProgress'
  OBVIOUS
<1> USE DEF Goto
<1> DEFINE b == batch["apply"]
           Idle == pc'["apply"] \notin Working
           Same == /\ pc'["apply"] = pc["apply"] /\ batch'["apply"] = batch["apply"]
                   /\ pending'["apply"] = pending["apply"]
<1>a. Idle => ApplyProgress'
  BY DEF ApplyProgress
<1>b. Same => ApplyProgress'
  BY ApplyUndisturbed
<1>1. ASSUME NEW c \in Lanes, Start(c) \/ Migrate(c) \/ Discover(c) \/ Finish(c) \/ Crash(c)
      PROVE  ApplyProgress'
  <2>1. CASE c = "apply"
    <3>1. Idle
      BY <1>1, <2>1
         DEF Start, Migrate, Discover, Finish, Crash, Leave, TypeOK, Working, Lanes
    <3>2. QED
      BY <3>1, <1>a
  <2>2. CASE c = "process"
    <3>1. Same
      BY <1>1, <2>2 DEF Start, Migrate, Discover, Finish, Crash, Leave, TypeOK, Lanes
    <3>2. QED
      BY <3>1, <1>b
  <2>3. QED
    BY <2>1, <2>2 DEF Lanes
<1>2. ASSUME NEW d \in Batches, Land(d) \/ SkipCompleted(d) PROVE ApplyProgress'
  <2>1. Same
    BY <1>2 DEF Land, SkipCompleted, memory
  <2>2. QED
    BY <2>1, <1>b
<1>3. ASSUME NEW c \in Lanes, NEW d \in Batches, BeginBatch(c, d) PROVE ApplyProgress'
  <2>1. CASE c = "apply"
    <3>1. pc'["apply"] = "read" /\ pending'["apply"] = Tables
      BY <1>3, <2>1 DEF BeginBatch, TypeOK, Lanes
    <3>2. QED
      BY <3>1 DEF ApplyProgress, Behind
  <2>2. CASE c = "process"
    <3>1. Same
      BY <1>3, <2>2 DEF BeginBatch, TypeOK, Lanes
    <3>2. QED
      BY <3>1, <1>b
  <2>3. QED
    BY <2>1, <2>2 DEF Lanes
<1>4. ASSUME NEW t \in Tables, ReadTable(t) \/ WriteTable(t) PROVE ApplyProgress'
  <2>1. Same
    BY <1>4 DEF ReadTable, WriteTable, Visit, TypeOK, Lanes
  <2>2. QED
    BY <2>1, <1>b
<1>5. CASE WriteReport
  <2>1. Same
    BY <1>5 DEF WriteReport, TypeOK, Lanes
  <2>2. QED
    BY <2>1, <1>b
<1>6. ASSUME NEW t \in Tables, ApplyTable(t) PROVE ApplyProgress'
  <2>1. \A u \in Tables \ pending["apply"] : b \in applied[u]
    BY <1>6 DEF ApplyTable, Progress, ApplyProgress, Behind, Working
  <2>2. b \in applied'[t] /\ \A u \in Tables : applied[u] \subseteq applied'[u]
    BY <1>6, NothingTakenBack DEF ApplyTable, TypeOK
  <2>3. /\ batch' = batch
        /\ \/ pc'["apply"] = "read" /\ pending'["apply"] = pending["apply"] \ {t}
           \/ pc'["apply"] = "commit" /\ pending["apply"] = {t}
    BY <1>6 DEF ApplyTable, Visit, TypeOK, Lanes
  <2>4. QED
    BY <2>1, <2>2, <2>3 DEF ApplyProgress, Behind
<1>7. ASSUME NEW c \in Lanes, LoadState(c) \/ SaveState(c) PROVE ApplyProgress'
  <2>1. CASE c = "process"
    <3>1. Same
      BY <1>7, <2>1 DEF LoadState, SaveState, Leave, TypeOK, Lanes
    <3>2. QED
      BY <3>1, <1>b
  <2>2. CASE c = "apply"
    <3>1. \/ Idle
          \/ /\ pc["apply"] = "commit" /\ pc'["apply"] = "save" /\ batch' = batch
             /\ applied' = applied
      BY <1>7, <2>2 DEF LoadState, SaveState, Leave, TypeOK, Lanes, Working, files
    <3>2. QED
      BY <3>1, <1>a DEF Progress, ApplyProgress, Behind, Working
  <2>3. QED
    BY <2>1, <2>2 DEF Lanes
<1>8. CASE UNCHANGED vars
  BY <1>8, <1>b DEF vars, memory
<1>9. QED
  BY <1>1, <1>2, <1>3, <1>4, <1>5, <1>6, <1>7, <1>8
     DEF Next, Process, Apply, Run, ProcessTable, Lanes

\* The batch a command commits is witnessed.
LEMMA CommittedIsWitnessed ==
  ASSUME TypeOK, Scope, Progress, NEW c \in Lanes, pc[c] = "save"
  PROVE  batch[c] \in Batches /\ Witnessed(batch[c])
<1>1. batch[c] \in Batches /\ cdc[batch[c]] # NoFile
  BY DEF Scope, Working, Landed
<1>2. CASE c = "process"
  <2>1. StagedInFull(batch[c]) /\ report[batch[c]] # NoFile
    BY <1>2 DEF Progress, ProcessProgress, Behind, StagedInFull
  <2>2. QED
    BY <1>1, <2>1 DEF Witnessed
<1>3. CASE c = "apply"
  <2>1. Applied(batch[c])
    BY <1>3 DEF Progress, ApplyProgress, Behind, Working, Applied
  <2>2. QED
    BY <1>1, <2>1 DEF Witnessed
<1>4. QED
  BY <1>2, <1>3 DEF Lanes

\* Only a migration and a commit write the checkpoint.
LEMMA CheckpointKept ==
  ASSUME [Next]_vars
  PROVE  checkpoint' = checkpoint \/ \E c \in Lanes : Migrate(c) \/ SaveState(c)
<1>1. (\E c \in Lanes : \/ Start(c) \/ Crash(c) \/ Discover(c) \/ LoadState(c) \/ Finish(c)
                        \/ \E b \in Batches : BeginBatch(c, b))
      => checkpoint' = checkpoint
  BY DEF Start, Crash, Discover, LoadState, Finish, BeginBatch, files
<1>2. (\/ \E b \in Batches : SkipCompleted(b) \/ Land(b)
       \/ \E t \in Tables : ReadTable(t) \/ WriteTable(t) \/ ApplyTable(t)
       \/ WriteReport
       \/ UNCHANGED vars)
      => checkpoint' = checkpoint
  BY DEF SkipCompleted, Land, ReadTable, WriteTable, ApplyTable, WriteReport, files, vars
<1>3. QED
  BY <1>1, <1>2 DEF Next, Process, Apply, Run, ProcessTable, Lanes

\* What the checkpoint lists after a step was witnessed before it, or is.
LEMMA StepCompleted ==
  TypeOK /\ Scope /\ InductiveInvariant /\ [Next]_vars => CompletedIsWitnessed'
<1> SUFFICES ASSUME TypeOK, Scope, InductiveInvariant, [Next]_vars, NEW b \in State'.completed
             PROVE  Witnessed(b)'
  BY DEF CompletedIsWitnessed
<1>a. Progress /\ CompletedIsWitnessed /\ LoadedIsWitnessed
  BY DEF InductiveInvariant
<1>b. State \in Checkpoints
  BY StateType
<1>1. CASE checkpoint' = checkpoint
  <2>1. b \in State.completed /\ b \in Batches
    BY <1>1, <1>b DEF State, Checkpoints
  <2>2. QED
    BY <2>1, <1>a, WitnessStays DEF CompletedIsWitnessed
<1>2. ASSUME NEW c \in Lanes, Migrate(c) PROVE Witnessed(b)'
  <2>1. checkpoint' = Migrated /\ Migrated # NoFile
    BY <1>2, MigratedType, LegacyAssumption DEF Migrate
  <2>2. b \in LegacyCompleted /\ b \in Batches
    BY <2>1 DEF State, Migrated, LegacyCompleted
  <2>3. ListedByAll(b)
    BY <2>2 DEF LegacyCompleted, Readable, ListedByAll
  <2>4. QED
    BY <2>2, <2>3, <1>a, WitnessStays DEF Witnessed
<1>3. ASSUME NEW c \in Lanes, SaveState(c) PROVE Witnessed(b)'
  <2> DEFINE new == [hwm |-> [t \in Tables |-> Max({loaded[c].hwm[t], marks[c][t]})],
                     completed |-> loaded[c].completed \cup {batch[c]}]
  <2>1. checkpoint' = new /\ pc[c] = "save" /\ loaded[c] \in Checkpoints
    BY <1>3 DEF SaveState, TypeOK
  <2>2. batch[c] \in Batches /\ Witnessed(batch[c])
    BY <2>1, <1>a, CommittedIsWitnessed
  <2>3. new \in Checkpoints
    BY <1>3, <2>1, <2>2, RaisedMarks DEF Checkpoints, TypeOK
  <2>4. State' = new
    BY <2>1, <2>3, LegacyAssumption DEF State
  <2>5. b \in loaded[c].completed \/ b = batch[c]
    BY <2>4
  <2>6. b \in Batches /\ Witnessed(b)
    BY <2>1, <2>2, <2>5, <1>a DEF LoadedIsWitnessed, Checkpoints
  <2>7. QED
    BY <2>6, <1>a, WitnessStays
<1>4. QED
  BY <1>1, <1>2, <1>3, CheckpointKept

\* What a command has loaded it loaded from a witnessed checkpoint.
LEMMA StepLoaded ==
  TypeOK /\ Scope /\ InductiveInvariant /\ [Next]_vars => LoadedIsWitnessed'
<1> SUFFICES ASSUME TypeOK, Scope, InductiveInvariant, [Next]_vars,
                    NEW c \in Lanes, pc'[c] = "save", NEW b \in loaded'[c].completed
             PROVE  Witnessed(b)'
  BY DEF LoadedIsWitnessed
<1> USE DEF Goto
<1>a. Progress /\ CompletedIsWitnessed /\ LoadedIsWitnessed
  BY DEF InductiveInvariant
<1>b. State \in Checkpoints /\ loaded[c] \in Checkpoints
  BY StateType DEF TypeOK
<1> DEFINE Before == pc[c] = "save" /\ loaded'[c] = loaded[c]
           Loading == loaded'[c] = State
<1>1. (\E d \in Lanes : \/ Start(d) \/ Crash(d) \/ Migrate(d) \/ Discover(d) \/ LoadState(d)
                        \/ SaveState(d) \/ Finish(d) \/ \E e \in Batches : BeginBatch(d, e))
      => Before \/ Loading
  BY DEF Start, Crash, Migrate, Discover, LoadState, SaveState, Finish, BeginBatch, Leave, TypeOK, Lanes
<1>2. (\/ \E d \in Batches : SkipCompleted(d) \/ Land(d)
       \/ \E t \in Tables : ReadTable(t) \/ WriteTable(t) \/ ApplyTable(t)
       \/ WriteReport
       \/ UNCHANGED vars)
      => Before
  BY DEF SkipCompleted, Land, ReadTable, WriteTable, ApplyTable, WriteReport, Visit, vars, memory,
         TypeOK, Lanes
<1>3. Before \/ Loading
  BY <1>1, <1>2 DEF Next, Process, Apply, Run, ProcessTable, Lanes
<1>4. b \in Batches /\ Witnessed(b)
  BY <1>3, <1>a, <1>b DEF LoadedIsWitnessed, CompletedIsWitnessed, Checkpoints
<1>5. QED
  BY <1>4, <1>a, WitnessStays

\* Before any command runs nothing is completed.
LEMMA InitInductive == Init => InductiveInvariant
<1> SUFFICES ASSUME Init PROVE InductiveInvariant
  OBVIOUS
<1>1. Progress
  BY DEF Init, Progress, RejectionsExact, ProcessProgress, ApplyProgress, Working, Lanes,
         NoOutputs, NoOutput
<1>2. CompletedIsWitnessed
  BY DEF Init, CompletedIsWitnessed, State, Fresh
<1>3. LoadedIsWitnessed
  BY DEF Init, LoadedIsWitnessed
<1>4. QED
  BY <1>1, <1>2, <1>3 DEF InductiveInvariant

\* Every step keeps the progress and the witnesses.
LEMMA StepInductive ==
  TypeOK /\ Scope /\ InductiveInvariant /\ [Next]_vars => InductiveInvariant'
<1>1. TypeOK /\ Scope /\ InductiveInvariant /\ [Next]_vars => Progress'
  BY StepRejections, StepProcess, StepApply DEF Progress, InductiveInvariant
<1>2. QED
  BY <1>1, StepCompleted, StepLoaded DEF InductiveInvariant

\* However the two commands interleave and wherever they die, no batch is in
\* the checkpoint that nobody carried through.
THEOREM Witnesses == Spec => []CompletedIsWitnessed
<1>1. Init => InductiveInvariant
  BY InitInductive
<1>2. TypeOK /\ Scope /\ InductiveInvariant /\ [Next]_vars => InductiveInvariant'
  BY StepInductive
<1>3. InductiveInvariant => CompletedIsWitnessed
  BY DEF InductiveInvariant
<1>4. QED
  BY <1>1, <1>2, <1>3, TypeCorrect, PTL DEF Spec

-----------------------------------------------------------------------------
(***************************************************************************)
(* One command at a time.                                                  *)
(***************************************************************************)
\* Nothing is loaded before any command runs.
LEMMA InitAlone == Init => Alone
  BY DEF Init, Alone

\* While no command is started next to another, what one has loaded is what
\* there is when it saves.
LEMMA StepAlone == TypeOK /\ Alone /\ [Next]_vars => Alone'
<1> SUFFICES ASSUME TypeOK, Alone, [Next]_vars PROVE Alone'
  OBVIOUS
<1> USE DEF Goto
<1> DEFINE Quiet == pc' = pc /\ loaded' = loaded /\ checkpoint' = checkpoint /\ overlap' = overlap
           Moves(c) == /\ pc[c] # "idle" /\ pc'[c] \notin {"migrate", "save"}
                       /\ \A d \in Lanes : d # c => pc'[d] = pc[d] /\ loaded'[d] = loaded[d]
                       /\ checkpoint' = checkpoint /\ overlap' = overlap
<1>a. Quiet => Alone'
  BY DEF Alone, State
<1>b. ASSUME NEW c \in Lanes, Moves(c) PROVE Alone'
  BY <1>b DEF Alone, State
<1>1. ASSUME NEW c \in Lanes, Start(c) PROVE Alone'
  BY <1>1 DEF Start, Alone, State, TypeOK, files
<1>2. ASSUME NEW c \in Lanes, Migrate(c) PROVE Alone'
  BY <1>2 DEF Migrate, Alone, TypeOK
<1>3. ASSUME NEW c \in Lanes, SaveState(c) PROVE Alone'
  BY <1>3 DEF SaveState, Alone, TypeOK
<1>4. ASSUME NEW c \in Lanes, LoadState(c) PROVE Alone'
  <2>1. CASE Leave(c)
    <3>1. Moves(c)
      BY <1>4, <2>1 DEF LoadState, Leave, TypeOK, files
    <3>2. QED
      BY <3>1, <1>b
  <2>2. CASE ~ Leave(c)
    BY <1>4, <2>2 DEF LoadState, Alone, State, TypeOK, files
  <2>3. QED
    BY <2>1, <2>2
<1>5. ASSUME NEW c \in Lanes,
             \/ Discover(c) \/ Finish(c) \/ Crash(c) \/ \E b \in Batches : BeginBatch(c, b)
      PROVE  Alone'
  <2>1. Moves(c)
    BY <1>5 DEF Discover, Finish, Crash, BeginBatch, IsNext, Leave, TypeOK, files
  <2>2. QED
    BY <2>1, <1>b
<1>6. CASE \/ \E t \in Tables : ReadTable(t) \/ WriteTable(t)
           \/ WriteReport
  <2>1. Moves("process") /\ "process" \in Lanes
    BY <1>6 DEF ReadTable, WriteTable, WriteReport, Visit, TypeOK, files, Lanes
  <2>2. QED
    BY <2>1, <1>b
<1>7. ASSUME NEW t \in Tables, ApplyTable(t) PROVE Alone'
  <2>1. Moves("apply") /\ "apply" \in Lanes
    BY <1>7 DEF ApplyTable, Visit, TypeOK, Lanes
  <2>2. QED
    BY <2>1, <1>b
<1>8. CASE UNCHANGED vars \/ \E b \in Batches : Land(b) \/ SkipCompleted(b)
  <2>1. Quiet
    BY <1>8 DEF vars, memory, files, Land, SkipCompleted
  <2>2. QED
    BY <2>1, <1>a
<1>9. QED
  BY <1>1, <1>2, <1>3, <1>4, <1>5, <1>6, <1>7, <1>8
     DEF Next, Process, Apply, Run, ProcessTable, Lanes

\* With one command at a time what the checkpoint says only grows.
LEMMA StateGrows ==
  ASSUME TypeOK, Scope, Alone, [Next]_vars, ~ overlap
  PROVE  /\ State.completed \subseteq State'.completed
         /\ \A t \in Tables : State.hwm[t] <= State'.hwm[t]
<1>a. State \in Checkpoints
  BY StateType
<1>1. CASE checkpoint' = checkpoint
  <2>1. State' = State
    BY <1>1 DEF State
  <2>2. \A t \in Tables : State.hwm[t] \in Nat
    BY <1>a DEF Checkpoints
  <2>3. QED
    BY <2>1, <2>2
<1>2. ASSUME NEW c \in Lanes, Migrate(c)
      PROVE  /\ State.completed \subseteq State'.completed
             /\ \A t \in Tables : State.hwm[t] <= State'.hwm[t]
  <2>1. State = Fresh
    BY <1>2 DEF Migrate, Alone, State
  <2>2. checkpoint' = Migrated /\ Migrated \in Checkpoints
    BY <1>2, MigratedType DEF Migrate
  <2>3. State' = Migrated
    BY <2>2, LegacyAssumption DEF State
  <2>4. QED
    BY <2>1, <2>2, <2>3 DEF Fresh, NoMarks, Checkpoints
<1>3. ASSUME NEW c \in Lanes, SaveState(c)
      PROVE  /\ State.completed \subseteq State'.completed
             /\ \A t \in Tables : State.hwm[t] <= State'.hwm[t]
  <2> DEFINE raised == [t \in Tables |-> Max({loaded[c].hwm[t], marks[c][t]})]
             new == [hwm |-> raised, completed |-> loaded[c].completed \cup {batch[c]}]
  <2>1. loaded[c] = State /\ marks[c] \in [Tables -> Nat] /\ batch[c] \in Batches
    BY <1>3 DEF SaveState, Alone, TypeOK, Scope, Working, Landed
  <2>2. raised \in [Tables -> Nat] /\ \A t \in Tables : raised[t] >= State.hwm[t]
    BY <2>1, <1>a, RaisedMarks DEF Checkpoints
  <2>3. new \in Checkpoints
    BY <2>1, <2>2, <1>a DEF Checkpoints
  <2>4. State' = new
    BY <1>3, <2>3, LegacyAssumption DEF SaveState, State
  <2>5. \A t \in Tables : State.hwm[t] \in Nat
    BY <1>a DEF Checkpoints
  <2>6. QED
    BY <2>1, <2>2, <2>4, <2>5
<1>4. QED
  BY <1>1, <1>2, <1>3, CheckpointKept

\* With one command at a time the checkpoint never forgets a batch and never
\* lowers a mark, whatever crashes and however often a batch is attempted.
THEOREM OnlyGrows == Spec => CheckpointOnlyGrows
<1> DEFINE Grows == ~ overlap => /\ State.completed \subseteq State'.completed
                                 /\ \A t \in Tables : State.hwm[t] <= State'.hwm[t]
<1>1. TypeOK /\ Scope /\ Alone /\ [Next]_vars => [Grows]_vars
  BY StateGrows
<1>2. Init => Alone
  BY InitAlone
<1>3. TypeOK /\ Alone /\ [Next]_vars => Alone'
  BY StepAlone
<1>4. QED
  BY <1>1, <1>2, <1>3, TypeCorrect, PTL DEF Spec, CheckpointOnlyGrows

-----------------------------------------------------------------------------
(***************************************************************************)
(* The late files.                                                         *)
(***************************************************************************)
\* The batches a mark is taken from: they have landed, or do not count.
LEMMA SeenOneMore ==
  ASSUME TypeOK, NEW t \in Tables, NEW bs, bs \subseteq Batches,
         \A d \in bs : d \in Landed \/ ListedByAll(d)
  PROVE  /\ Seen(t, bs) \in Nat
         /\ \A b \in Landed : ~ ListedByAll(b) =>
              Seen(t, bs \cup {b}) = Max({Seen(t, bs), HighestSequence(cdc[b][t])})
         /\ (\A d \in bs : ListedByAll(d)) => Seen(t, bs) = LegacyMark(t)
<1> DEFINE m == IF legacy[t] = NoFile THEN 0 ELSE legacy[t].hwm
           H(b) == HighestSequence(cdc[b][t])
           S == {m} \cup {H(b) : b \in {d \in bs : ~ ListedByAll(d)}}
           B == IF m <= MaxSeq THEN MaxSeq ELSE m
<1>1. legacy[t] \in TableCheckpoints \cup {NoFile}
  BY LegacyAssumption DEF TypeOK
<1>2. m \in Nat /\ m = LegacyMark(t)
  BY <1>1 DEF TableCheckpoints, LegacyMark, Readable
<1> HIDE DEF m
<1>3. MaxSeq \in Nat
  BY BoundsAssumption
<1>4. ASSUME NEW b \in Landed PROVE H(b) \in 0..MaxSeq
  BY LandedFilesAreRecords, HighestSequenceType
<1> HIDE DEF H
<1>5. B \in Nat /\ m \in 0..B /\ 0..MaxSeq \subseteq 0..B
  BY <1>2, <1>3
<1> HIDE DEF B
<1>6. S \subseteq 0..B /\ S # {}
  BY <1>4, <1>5
<1>7. Seen(t, bs) = Max(S)
  BY DEF Seen, m, H
<1>8. Max(S) \in Nat
  BY <1>5, <1>6, MaxIsGreatest
<1>9. ASSUME NEW b \in Landed, ~ ListedByAll(b)
      PROVE  Seen(t, bs \cup {b}) = Max({Seen(t, bs), HighestSequence(cdc[b][t])})
  <2>1. S \cup {H(b)} = {m} \cup {H(e) : e \in {d \in bs \cup {b} : ~ ListedByAll(d)}}
    BY <1>9
  <2>2. Seen(t, bs \cup {b}) = Max(S \cup {H(b)})
    BY <2>1 DEF Seen, m, H
  <2>3. H(b) \in 0..B
    BY <1>4, <1>5
  <2>4. Max(S \cup {H(b)}) = Max({Max(S), H(b)})
    BY <1>5, <1>6, <2>3, MaxOfOneMore
  <2>5. QED
    BY <1>7, <2>2, <2>4 DEF H
<1>10. ASSUME \A d \in bs : ListedByAll(d) PROVE Seen(t, bs) = LegacyMark(t)
  <2>1. S = {m}
    BY <1>10
  <2>2. Max({m}) = m
    BY <1>2, <1>5, <1>6, <2>1, MaxIsGreatest
  <2>3. QED
    BY <1>2, <1>7, <2>1, <2>2
<1>11. QED
  BY <1>7, <1>8, <1>9, <1>10

\* What was seen of them stays what was seen.
LEMMA SeenStays ==
  ASSUME TypeOK, Scope, [Next]_vars, NEW t \in Tables, NEW bs, bs \subseteq Batches,
         \A d \in bs : d \in Landed \/ ListedByAll(d)
  PROVE  Seen(t, bs)' = Seen(t, bs)
<1>1. legacy' = legacy /\ \A b \in Landed : cdc'[b] = cdc[b]
  BY NothingTakenBack
<1>2. \A d : ListedByAll(d)' <=> ListedByAll(d)
  BY <1>1 DEF ListedByAll
<1>3. {HighestSequence(cdc[b][t]) : b \in {d \in bs : ~ ListedByAll(d)}}'
        = {HighestSequence(cdc[b][t]) : b \in {d \in bs : ~ ListedByAll(d)}}
  BY <1>1, <1>2
<1>4. QED
  BY <1>1, <1>3 DEF Seen

\* A mark raised by what already raised it stays.
LEMMA MaxTwice ==
  ASSUME NEW m \in Nat, NEW n \in Nat
  PROVE  Max({m, Max({m, n})}) = Max({m, n})
<1> DEFINE x == Max({m, n})
<1>1. x \in Nat /\ x >= m
  BY MaxOfTwo
<1> HIDE DEF x
<1>2. {m, x} \subseteq 0..x /\ \A y \in {m, x} : y <= x
  BY <1>1
<1>3. Max({m, x}) = x
  BY <1>1, <1>2, GreatestIsMax
<1>4. QED
  BY <1>3 DEF x

\* The completed batches have landed or were listed.
LEMMA CompletedLanded ==
  ASSUME TypeOK, CompletedIsWitnessed
  PROVE  State.completed \subseteq Batches
         /\ \A d \in State.completed : d \in Landed \/ ListedByAll(d)
<1>1. State.completed \subseteq Batches
  BY StateType DEF Checkpoints
<1>2. QED
  BY <1>1 DEF CompletedIsWitnessed, Witnessed, Landed

\* Every step keeps the marks those of the completed batches.
LEMMA StepMarks ==
  ASSUME TypeOK, Scope, Alone, CompletedIsWitnessed, LateInvariant, [Next]_vars, ~ overlap
  PROVE  MarksAreSeen'
<1>1. MarksAreSeen /\ \A c \in Lanes : InHand(c)
  BY DEF LateInvariant
<1>2. legacy' = legacy
  BY NothingTakenBack
<1>3. State \in Checkpoints
  BY StateType
<1>4. \A t \in Tables, bs \in SUBSET Batches :
        (\A d \in bs : d \in Landed \/ ListedByAll(d)) => Seen(t, bs)' = Seen(t, bs)
  BY SeenStays
<1>5. CASE checkpoint' = checkpoint
  <2>1. State' = State
    BY <1>5 DEF State
  <2>2. \A t \in Tables : Seen(t, State.completed)' = Seen(t, State.completed)
    BY <2>1, CompletedLanded, SeenStays
  <2>3. QED
    BY <1>1, <1>2, <1>5, <2>1, <2>2 DEF MarksAreSeen, Ready, Readable, LegacyCompleted
<1>6. ASSUME NEW c \in Lanes, Migrate(c) PROVE MarksAreSeen'
  <2>1. State' = Migrated
    BY <1>6, MigratedType, LegacyAssumption DEF Migrate, State
  <2>2. LegacyCompleted \subseteq Batches /\ LegacyCompleted' = LegacyCompleted
    BY <1>2 DEF LegacyCompleted, Readable
  <2>3. ASSUME NEW t \in Tables PROVE State'.hwm[t] = Seen(t, State.completed)'
    <3>1. \A d \in LegacyCompleted : ListedByAll(d)
      BY <2>3 DEF LegacyCompleted, ListedByAll, Readable
    <3>2. Seen(t, LegacyCompleted) = LegacyMark(t)
      BY <2>2, <3>1, SeenOneMore
    <3>3. Seen(t, LegacyCompleted)' = Seen(t, LegacyCompleted)
      BY <1>4, <2>2, <3>1
    <3>4. State'.hwm[t] = LegacyMark(t) /\ State'.completed = LegacyCompleted
      BY <2>1 DEF Migrated
    <3>5. QED
      BY <2>2, <3>2, <3>3, <3>4
  <2>4. State'.completed = LegacyCompleted'
    BY <2>1, <2>2 DEF Migrated
  <2>5. QED
    BY <2>3, <2>4 DEF MarksAreSeen
<1>7. ASSUME NEW c \in Lanes, SaveState(c) PROVE MarksAreSeen'
  <2> DEFINE b == batch[c]
             raised == [t \in Tables |-> Max({loaded[c].hwm[t], marks[c][t]})]
             new == [hwm |-> raised, completed |-> loaded[c].completed \cup {b}]
  <2>1. loaded[c] = State /\ marks[c] \in [Tables -> Nat] /\ b \in Landed /\ b \in Batches
    BY <1>7 DEF SaveState, Alone, TypeOK, Scope, Working, Landed
  <2>2. raised \in [Tables -> Nat]
    BY <2>1, <1>3, RaisedMarks DEF Checkpoints
  <2>3. State' = new
    <3>1. new \in Checkpoints
      BY <1>3, <2>1, <2>2 DEF Checkpoints
    <3>2. QED
      BY <1>7, <3>1, LegacyAssumption DEF SaveState, State
  <2>4. /\ Ready /\ b \notin State.completed
        /\ \A t \in Tables : marks[c][t] = NextMark(cdc[b][t], State.hwm[t])
    BY <1>1, <1>7 DEF SaveState, InHand, Working, Behind
  <2>5. ASSUME NEW t \in Tables PROVE State'.hwm[t] = Seen(t, State.completed)'
    <3>1. ~ ListedByAll(b)
      BY <1>1, <2>1, <2>4, <2>5 DEF MarksAreSeen, ListedByAll, LegacyCompleted, Readable
    <3>2. /\ State.completed \cup {b} \subseteq Batches
          /\ \A d \in State.completed \cup {b} : d \in Landed \/ ListedByAll(d)
      BY <2>1, CompletedLanded
    <3>3. Seen(t, State.completed \cup {b}) = Max({State.hwm[t], HighestSequence(cdc[b][t])})
      BY <1>1, <2>1, <2>4, <3>1, <3>2, SeenOneMore DEF MarksAreSeen
    <3>4. State'.hwm[t] = Max({State.hwm[t], marks[c][t]})
      BY <2>1, <2>3
    <3>5. State.hwm[t] \in Nat /\ HighestSequence(cdc[b][t]) \in Nat
      BY <1>3, <2>1, LandedFilesAreRecords, HighestSequenceType, BoundsAssumption DEF Checkpoints
    <3>6. State'.hwm[t] = Max({State.hwm[t], HighestSequence(cdc[b][t])})
      BY <2>4, <3>4, <3>5, MaxTwice DEF NextMark
    <3>7. State'.completed = State.completed \cup {b}
      BY <2>1, <2>3
    <3>8. Seen(t, State.completed)' = Seen(t, State.completed \cup {b})
      BY <1>4, <3>2, <3>7
    <3>9. QED
      BY <3>3, <3>6, <3>8
  <2>6. Readable # {} => LegacyCompleted \subseteq State'.completed
    BY <1>1, <2>1, <2>3, <2>4 DEF MarksAreSeen
  <2>7. QED
    BY <1>2, <2>5, <2>6 DEF MarksAreSeen, Readable, LegacyCompleted
<1>8. QED
  BY <1>5, <1>6, <1>7, CheckpointKept

\* A command that stays where it is keeps what it has in hand, if the checkpoint
\* does not move.
LEMMA HandUndisturbed ==
  ASSUME TypeOK, Scope, [Next]_vars, NEW c \in Lanes, InHand(c),
         pc'[c] = pc[c], batch'[c] = batch[c], pending'[c] = pending[c],
         todo'[c] \subseteq todo[c], marks'[c] = marks[c],
         checkpoint' = checkpoint \/ pc[c] = "idle"
  PROVE  InHand(c)'
<1>1. CASE pc[c] = "idle"
  BY <1>1 DEF InHand, Working
<1>2. CASE checkpoint' = checkpoint
  <2>1. State' = State /\ Ready' = Ready
    BY <1>2, NothingTakenBack DEF State, Ready, Readable
  <2>2. pc[c] \in Working => cdc'[batch[c]] = cdc[batch[c]]
    BY NothingTakenBack DEF Scope
  <2>3. Behind(c, "read")' = Behind(c, "read")
    BY DEF Behind
  <2>4. QED
    BY <2>1, <2>2, <2>3 DEF InHand
<1>3. QED
  BY <1>1, <1>2

\* A command that moves on within its batch, and has taken the marks, keeps it.
LEMMA HandMoves ==
  ASSUME TypeOK, Scope, [Next]_vars, NEW c \in Lanes, InHand(c),
         pc[c] \in Working, pc'[c] \in Working, batch' = batch, todo' = todo,
         checkpoint' = checkpoint,
         \A t \in Behind(c, "read")' :
           \/ t \in Behind(c, "read") /\ marks'[c][t] = marks[c][t]
           \/ marks'[c][t] = NextMark(cdc[batch[c]][t], State.hwm[t])
  PROVE  InHand(c)'
<1>1. State' = State /\ Ready' = Ready
  BY NothingTakenBack DEF State, Ready, Readable
<1>2. cdc'[batch[c]] = cdc[batch[c]]
  BY NothingTakenBack DEF Scope
<1>3. \A t \in Behind(c, "read")' : marks'[c][t] = NextMark(cdc[batch[c]][t], State.hwm[t])
  BY DEF InHand
<1>4. QED
  BY <1>1, <1>2, <1>3 DEF InHand, Working

\* Every step keeps what the commands have in hand new.
LEMMA StepInHand ==
  ASSUME TypeOK, Scope, Alone, LateInvariant, [Next]_vars, ~ overlap
  PROVE  \A c \in Lanes : InHand(c)'
<1> USE DEF Goto
<1> DEFINE Same(c) == /\ pc'[c] = pc[c] /\ batch'[c] = batch[c] /\ pending'[c] = pending[c]
                      /\ todo'[c] \subseteq todo[c] /\ marks'[c] = marks[c]
           Goal == \A c \in Lanes : InHand(c)'
<1>a. \A c \in Lanes : InHand(c)
  BY DEF LateInvariant
<1>b. ASSUME NEW c \in Lanes, Same(c), checkpoint' = checkpoint \/ pc[c] = "idle"
      PROVE  InHand(c)'
  BY <1>a, <1>b, HandUndisturbed
<1>c. ASSUME NEW c \in Lanes, pc'[c] = "idle" PROVE InHand(c)'
  BY <1>c DEF InHand, Working
<1>d. \A c, d \in Lanes : pc[c] # "idle" /\ pc[d] # "idle" => c = d
  BY DEF Alone
<1>e. checkpoint' = checkpoint => State' = State
  BY DEF State
<1>f. legacy' = legacy
  BY NothingTakenBack
<1>1. ASSUME NEW c \in Lanes, Start(c) PROVE Goal
  <2>1. InHand(c)'
    BY <1>1 DEF Start, InHand, Ready, Readable, Working, TypeOK, files
  <2>2. ASSUME NEW d \in Lanes, d # c PROVE InHand(d)'
    BY <1>1, <1>b, <2>2 DEF Start, TypeOK, files
  <2>3. QED
    BY <2>1, <2>2
<1>2. ASSUME NEW c \in Lanes, Migrate(c) PROVE Goal
  <2>1. InHand(c)'
    BY <1>2, MigratedType, LegacyAssumption DEF Migrate, InHand, Ready, Working, TypeOK
  <2>2. ASSUME NEW d \in Lanes, d # c PROVE InHand(d)'
    BY <1>2, <1>b, <1>d, <2>2 DEF Migrate, TypeOK
  <2>3. QED
    BY <2>1, <2>2
<1>3. ASSUME NEW c \in Lanes, Discover(c) PROVE Goal
  <2>1. Ready /\ Ready' = Ready /\ State' = State
    BY <1>3, <1>a, <1>e, <1>f DEF Discover, InHand, Ready, Readable, files
  <2>2. InHand(c)'
    BY <1>3, <2>1 DEF Discover, InHand, Working, TypeOK
  <2>3. ASSUME NEW d \in Lanes, d # c PROVE InHand(d)'
    BY <1>3, <1>b, <2>3 DEF Discover, TypeOK, files
  <2>4. QED
    BY <2>2, <2>3
<1>4. ASSUME NEW b \in Batches, Land(b) \/ SkipCompleted(b) PROVE Goal
  <2>1. \A c \in Lanes : Same(c) /\ checkpoint' = checkpoint
    BY <1>4 DEF Land, SkipCompleted, memory, files, TypeOK, Lanes
  <2>2. QED
    BY <2>1, <1>b
<1>5. ASSUME NEW c \in Lanes, NEW b \in Batches, BeginBatch(c, b) PROVE Goal
  <2>1. Ready /\ Ready' = Ready /\ State' = State
    BY <1>5, <1>a, <1>e, <1>f DEF BeginBatch, IsNext, InHand, Ready, Readable, files
  <2>2. /\ pc'[c] = "read" /\ batch'[c] = b /\ pending'[c] = Tables
        /\ todo'[c] = todo[c] \ {b} /\ b \in todo[c] /\ pc[c] = "next"
        /\ c = "process" => b \notin State.completed
    BY <1>5 DEF BeginBatch, IsNext, TypeOK
  <2>3. b \notin State.completed
    BY <1>a, <2>2 DEF InHand, Lanes
  <2>4. Behind(c, "read")' = {}
    BY <2>2 DEF Behind
  <2>5. c = "apply" => todo'[c] \cap State.completed = {}
    BY <1>a, <2>2 DEF InHand
  <2>6. InHand(c)'
    BY <2>1, <2>2, <2>3, <2>4, <2>5 DEF InHand
  <2>7. ASSUME NEW d \in Lanes, d # c PROVE InHand(d)'
    BY <1>5, <1>b, <2>7 DEF BeginBatch, TypeOK, files
  <2>8. QED
    BY <2>6, <2>7
<1>6. ASSUME NEW t \in Tables, ReadTable(t) PROVE Goal
  <2> DEFINE b == batch["process"]
  <2>1. /\ pc["process"] = "read" /\ batch' = batch /\ todo' = todo /\ checkpoint' = checkpoint
        /\ marks'["process"] = [marks["process"] EXCEPT ![t] = NextMark(cdc[b][t], State.hwm[t])]
        /\ \/ pc'["process"] = "read" /\ pending'["process"] = pending["process"] \ {t}
           \/ pc'["process"] = "write" /\ pending["process"] = {t}
    BY <1>6 DEF ReadTable, Visit, TypeOK, Lanes, files
  <2>2. marks["process"] \in [Tables -> Nat]
    BY DEF TypeOK, Lanes
  <2>3. \A u \in Tables : marks'["process"][u] =
          IF u = t THEN NextMark(cdc[b][t], State.hwm[t]) ELSE marks["process"][u]
    BY <2>1, <2>2
  <2>4. \A u \in Behind("process", "read")' : u = t \/ u \in Behind("process", "read")
    BY <2>1 DEF Behind
  <2>5. InHand("process")'
    BY <1>a, <2>1, <2>3, <2>4, HandMoves DEF Working, Lanes, Behind
  <2>6. InHand("apply")'
    BY <1>6, <1>b DEF ReadTable, Visit, TypeOK, Lanes, files
  <2>7. QED
    BY <2>5, <2>6 DEF Lanes
<1>7. ASSUME NEW t \in Tables, ApplyTable(t) PROVE Goal
  <2> DEFINE b == batch["apply"]
  <2>1. /\ pc["apply"] = "read" /\ batch' = batch /\ todo' = todo /\ checkpoint' = checkpoint
        /\ marks'["apply"] = [marks["apply"] EXCEPT ![t] = NextMark(cdc[b][t], State.hwm[t])]
        /\ \/ pc'["apply"] = "read" /\ pending'["apply"] = pending["apply"] \ {t}
           \/ pc'["apply"] = "commit" /\ pending["apply"] = {t}
    BY <1>7 DEF ApplyTable, Visit, TypeOK, Lanes
  <2>2. marks["apply"] \in [Tables -> Nat]
    BY DEF TypeOK, Lanes
  <2>3. \A u \in Tables : marks'["apply"][u] =
          IF u = t THEN NextMark(cdc[b][t], State.hwm[t]) ELSE marks["apply"][u]
    BY <2>1, <2>2
  <2>4. \A u \in Behind("apply", "read")' : u = t \/ u \in Behind("apply", "read")
    BY <2>1 DEF Behind
  <2>5. InHand("apply")'
    BY <1>a, <2>1, <2>3, <2>4, HandMoves DEF Working, Lanes, Behind
  <2>6. InHand("process")'
    BY <1>7, <1>b DEF ApplyTable, Visit, TypeOK, Lanes
  <2>7. QED
    BY <2>5, <2>6 DEF Lanes
<1>8. CASE WriteReport \/ \E t \in Tables : WriteTable(t)
  <2>1. /\ pc["process"] \in {"write", "report"} /\ pc'["process"] \in {"write", "report", "commit"}
        /\ batch' = batch /\ todo' = todo /\ marks' = marks /\ checkpoint' = checkpoint
        /\ pc'["apply"] = pc["apply"] /\ pending'["apply"] = pending["apply"]
    BY <1>8 DEF WriteReport, WriteTable, Visit, TypeOK, Lanes
  <2>2. Behind("process", "read") = Tables /\ Behind("process", "read")' = Tables
    BY <2>1 DEF Behind
  <2>3. InHand("process")'
    BY <1>a, <2>1, <2>2, HandMoves DEF Working, Lanes
  <2>4. InHand("apply")'
    BY <2>1, <1>b DEF Lanes
  <2>5. QED
    BY <2>3, <2>4 DEF Lanes
<1>9. ASSUME NEW c \in Lanes, LoadState(c) PROVE Goal
  <2>1. InHand(c)'
    <3>1. CASE pc'[c] = "idle"
      BY <3>1, <1>c
    <3>2. CASE pc'[c] # "idle"
      <4>1. /\ pc[c] = "commit" /\ pc'[c] = "save" /\ batch' = batch /\ todo' = todo
            /\ marks' = marks /\ checkpoint' = checkpoint
        BY <1>9, <3>2 DEF LoadState, Leave, TypeOK, files
      <4>2. Behind(c, "read") = Tables /\ Behind(c, "read")' = Tables
        BY <4>1 DEF Behind
      <4>3. QED
        BY <1>a, <4>1, <4>2, HandMoves DEF Working
    <3>3. QED
      BY <3>1, <3>2
  <2>2. ASSUME NEW d \in Lanes, d # c PROVE InHand(d)'
    BY <1>9, <1>b, <2>2 DEF LoadState, Leave, TypeOK, files
  <2>3. QED
    BY <2>1, <2>2
<1>10. ASSUME NEW c \in Lanes, SaveState(c) PROVE Goal
  <2>1. /\ pc[c] = "save" /\ pc'[c] = "next" /\ todo' = todo /\ loaded[c] = State
        /\ \A d \in Lanes : d # c => pc'[d] = pc[d] /\ pc[d] = "idle"
    BY <1>10, <1>d DEF SaveState, Alone, TypeOK
  <2>2. checkpoint' # NoFile /\ State'.completed = State.completed \cup {batch[c]}
    <3>1. batch[c] \in Batches /\ State \in Checkpoints /\ marks[c] \in [Tables -> Nat]
      BY <2>1, StateType DEF Scope, Working, Landed, TypeOK
    <3>2. checkpoint' = [hwm |-> [t \in Tables |-> Max({State.hwm[t], marks[c][t]})],
                         completed |-> State.completed \cup {batch[c]}]
      BY <1>10, <2>1 DEF SaveState
    <3>3. checkpoint' \in Checkpoints
      BY <3>1, <3>2, RaisedMarks DEF Checkpoints
    <3>4. QED
      BY <3>2, <3>3, LegacyAssumption DEF State
  <2>3. InHand(c)'
    <3>1. Ready'
      BY <2>2 DEF Ready
    <3>2. c = "apply" => todo'[c] \cap State'.completed = {}
      BY <1>a, <2>1, <2>2 DEF InHand, Working
    <3>3. QED
      BY <2>1, <3>1, <3>2 DEF InHand, Working
  <2>4. ASSUME NEW d \in Lanes, d # c PROVE InHand(d)'
    BY <2>1, <2>4, <1>c
  <2>5. QED
    BY <2>3, <2>4
<1>11. ASSUME NEW c \in Lanes, Finish(c) \/ Crash(c) PROVE Goal
  <2>1. InHand(c)'
    BY <1>11, <1>c DEF Finish, Crash, Leave, TypeOK
  <2>2. ASSUME NEW d \in Lanes, d # c PROVE InHand(d)'
    BY <1>11, <1>b, <2>2 DEF Finish, Crash, Leave, TypeOK, files
  <2>3. QED
    BY <2>1, <2>2
<1>12. CASE UNCHANGED vars
  <2>1. \A c \in Lanes : Same(c) /\ checkpoint' = checkpoint
    BY <1>12 DEF vars, memory, files
  <2>2. QED
    BY <2>1, <1>b
<1>13. QED
  BY <1>1, <1>2, <1>3, <1>4, <1>5, <1>6, <1>7, <1>8, <1>9, <1>10, <1>11, <1>12
     DEF Next, Process, Apply, Run, ProcessTable, Lanes

\* The file a table gets is what was staged for it: an earlier attempt has left
\* nothing that is not in it.
LEMMA WriteTableExact ==
  ASSUME TypeOK, Scope, Progress, LateLeftOver, LateStaged, NEW t \in Tables, WriteTable(t)
  PROVE  outputs'[batch["process"]][t] = staged[t]
<1> DEFINE b == batch["process"]
           old == outputs[b][t]
<1>1. b \in Batches /\ b \in Landed
  BY DEF WriteTable, Scope, Working, Lanes, Landed
<1>2. outputs'[b][t] =
        [valid |-> staged[t].valid,
         rejected |-> IF staged[t].rejected = {} THEN old.rejected ELSE staged[t].rejected,
         late |-> IF staged[t].late = {} THEN old.late ELSE staged[t].late]
  BY <1>1 DEF WriteTable, TypeOK
<1>3. staged[t] = Staged(cdc[b][t], State.hwm[t])
  BY DEF WriteTable, LateStaged, Working, Behind
<1>4. staged[t].late = LateEvents(cdc[b][t], State.hwm[t])
      /\ staged[t].rejected = Rejected(cdc[b][t])
  BY <1>3 DEF Staged
<1>5. staged[t].late = {} => old.late = {}
  BY <1>1, <1>4 DEF LateLeftOver
<1>6. staged[t].rejected = {} => old.rejected = {}
  BY <1>1, <1>4 DEF Progress, RejectionsExact
<1>7. outputs'[b][t] = [valid |-> staged[t].valid, rejected |-> staged[t].rejected,
                        late |-> staged[t].late]
  BY <1>2, <1>5, <1>6
<1>8. staged[t] \in Outputs
  BY DEF TypeOK
<1>9. QED
  BY <1>7, <1>8 DEF Outputs

\* Every step keeps what is staged, written and reported the same.
LEMMA StepLateStaged ==
  ASSUME TypeOK, Scope, Alone, Progress, LateInvariant, [Next]_vars, ~ overlap
  PROVE  LateStaged'
<1> USE DEF Goto
<1> DEFINE b == batch["process"]
           Same == /\ pc'["process"] = pc["process"] /\ batch'["process"] = batch["process"]
                   /\ pending'["process"] = pending["process"] /\ staged' = staged
                   /\ outputs' = outputs /\ report' = report
<1>a. LateStaged /\ LateLeftOver
  BY DEF LateInvariant
<1>b. pc'["process"] \notin Working => LateStaged'
  BY DEF LateStaged, Working
<1>c. pc["process"] \in Working => b \in Batches /\ cdc'[b] = cdc[b]
  BY NothingTakenBack DEF Scope, Landed, Lanes
<1>d. ASSUME Same, checkpoint' = checkpoint \/ pc["process"] = "idle" PROVE LateStaged'
  <2>1. CASE pc["process"] \notin Working
    BY <1>b, <1>d, <2>1
  <2>2. CASE pc["process"] \in Working
    <3>1. State' = State
      BY <1>d, <2>2 DEF State, Working
    <3>2. QED
      BY <1>a, <1>c, <1>d, <2>2, <3>1 DEF LateStaged, Behind
  <2>3. QED
    BY <2>1, <2>2
<1>e. \A c \in Lanes : pc[c] # "idle" /\ c # "process" => pc["process"] = "idle"
  BY DEF Alone, Lanes
<1>1. ASSUME NEW c \in Lanes, Start(c) \/ Migrate(c) \/ Discover(c) \/ Finish(c) \/ Crash(c)
      PROVE  LateStaged'
  <2>1. CASE c = "process"
    BY <1>1, <1>b, <2>1
       DEF Start, Migrate, Discover, Finish, Crash, Leave, TypeOK, Working, Lanes
  <2>2. CASE c = "apply"
    <3>1. Same
      BY <1>1, <2>2 DEF Start, Migrate, Discover, Finish, Crash, Leave, TypeOK, Lanes, files
    <3>2. checkpoint' = checkpoint \/ pc["process"] = "idle"
      BY <1>1, <1>e, <2>2 DEF Start, Migrate, Discover, Finish, Crash, files
    <3>3. QED
      BY <3>1, <3>2, <1>d
  <2>3. QED
    BY <2>1, <2>2 DEF Lanes
<1>2. ASSUME NEW d \in Batches, Land(d) \/ SkipCompleted(d) PROVE LateStaged'
  <2>1. Same /\ checkpoint' = checkpoint
    BY <1>2 DEF Land, SkipCompleted, memory, files
  <2>2. QED
    BY <2>1, <1>d
<1>3. ASSUME NEW c \in Lanes, NEW d \in Batches, BeginBatch(c, d) PROVE LateStaged'
  <2>1. CASE c = "process"
    <3>1. pc'["process"] = "read" /\ pending'["process"] = Tables
      BY <1>3, <2>1 DEF BeginBatch, TypeOK, Lanes
    <3>2. QED
      BY <3>1 DEF LateStaged, Behind
  <2>2. CASE c = "apply"
    <3>1. Same /\ checkpoint' = checkpoint
      BY <1>3, <2>2 DEF BeginBatch, TypeOK, Lanes, files
    <3>2. QED
      BY <3>1, <1>d
  <2>3. QED
    BY <2>1, <2>2 DEF Lanes
<1>4. ASSUME NEW t \in Tables, ReadTable(t) PROVE LateStaged'
  <2>1. /\ pc["process"] = "read" /\ batch' = batch /\ State' = State
        /\ \/ pc'["process"] = "read" /\ pending'["process"] = pending["process"] \ {t}
           \/ /\ pc'["process"] = "write" /\ pending'["process"] = Tables
              /\ pending["process"] = {t}
    BY <1>4 DEF ReadTable, Visit, TypeOK, Lanes, files, State
  <2>2. \A u \in Tables : staged'[u] =
          IF u = t THEN Staged(cdc[b][t], State.hwm[t]) ELSE staged[u]
    BY <1>4 DEF ReadTable, TypeOK
  <2>3. \A u \in Tables \ pending["process"] : staged[u] = Staged(cdc[b][u], State.hwm[u])
    BY <1>a, <2>1 DEF LateStaged, Behind, Working
  <2>4. \A u \in Behind("process", "read")' : staged'[u] = Staged(cdc[b][u], State.hwm[u])
    BY <2>1, <2>2, <2>3 DEF Behind
  <2>5. cdc'[b] = cdc[b]
    BY <1>c, <2>1 DEF Working
  <2>6. pc'["process"] = "write" => Behind("process", "write")' = {}
    BY <2>1 DEF Behind
  <2>7. QED
    BY <2>1, <2>4, <2>5, <2>6 DEF LateStaged
<1>5. ASSUME NEW t \in Tables, WriteTable(t) PROVE LateStaged'
  <2>1. /\ pc["process"] = "write" /\ batch' = batch /\ State' = State /\ staged' = staged
        /\ \/ pc'["process"] = "write" /\ pending'["process"] = pending["process"] \ {t}
           \/ pc'["process"] = "report" /\ pending["process"] = {t}
    BY <1>5 DEF WriteTable, Visit, TypeOK, Lanes, State
  <2>2. /\ outputs'[b][t] = staged[t]
        /\ \A u \in Tables : u # t => outputs'[b][u] = outputs[b][u]
    BY <1>5, <1>a, WriteTableExact, WriteTableInFull
  <2>3. /\ \A u \in Tables : staged[u] = Staged(cdc[b][u], State.hwm[u])
        /\ \A u \in Tables \ pending["process"] : outputs[b][u] = staged[u]
    BY <1>a, <2>1 DEF LateStaged, Behind, Working
  <2>4. \A u \in Behind("process", "write")' : outputs'[b][u] = staged[u]
    BY <2>1, <2>2, <2>3 DEF Behind
  <2>5. cdc'[b] = cdc[b]
    BY <1>c, <2>1 DEF Working
  <2>6. QED
    BY <2>1, <2>3, <2>4, <2>5 DEF LateStaged, Behind
<1>6. CASE WriteReport
  <2>1. /\ pc["process"] = "report" /\ pc'["process"] = "commit" /\ batch' = batch
        /\ State' = State /\ staged' = staged /\ outputs' = outputs
    BY <1>6 DEF WriteReport, TypeOK, Lanes, State
  <2>2. cdc'[b] = cdc[b] /\ b \in Batches
    BY <1>c, <2>1 DEF Working
  <2>3. report'[b] = staged
    BY <1>6, <2>2 DEF WriteReport, TypeOK
  <2>4. QED
    BY <1>a, <2>1, <2>2, <2>3 DEF LateStaged, Behind, Working
<1>7. ASSUME NEW t \in Tables, ApplyTable(t) PROVE LateStaged'
  <2>1. Same /\ checkpoint' = checkpoint
    BY <1>7 DEF ApplyTable, Visit, TypeOK, Lanes
  <2>2. QED
    BY <2>1, <1>d
<1>8. ASSUME NEW c \in Lanes, LoadState(c) \/ SaveState(c) PROVE LateStaged'
  <2>1. CASE c = "apply"
    <3>1. Same
      BY <1>8, <2>1 DEF LoadState, SaveState, Leave, TypeOK, Lanes, files
    <3>2. pc["process"] = "idle"
      BY <1>8, <1>e, <2>1 DEF LoadState, SaveState
    <3>3. QED
      BY <3>1, <3>2, <1>d
  <2>2. CASE c = "process"
    <3>1. \/ pc'["process"] \notin Working
          \/ /\ pc["process"] = "commit" /\ pc'["process"] = "save" /\ batch' = batch
             /\ staged' = staged /\ outputs' = outputs /\ report' = report /\ State' = State
      BY <1>8, <2>2 DEF LoadState, SaveState, Leave, TypeOK, Lanes, Working, files, State
    <3>2. pc["process"] = "commit" => cdc'[b] = cdc[b]
      BY <1>c DEF Working
    <3>3. QED
      BY <3>1, <3>2, <1>a, <1>b DEF LateStaged, Behind, Working
  <2>3. QED
    BY <2>1, <2>2 DEF Lanes
<1>9. CASE UNCHANGED vars
  BY <1>9, <1>d DEF vars, memory, files
<1>10. QED
  BY <1>1, <1>2, <1>3, <1>4, <1>5, <1>6, <1>7, <1>8, <1>9
     DEF Next, Process, Apply, Run, ProcessTable, Lanes

\* Every step leaves in late files only what is late by then.
LEMMA StepLeftOver ==
  ASSUME TypeOK, Scope, Alone, Progress, LateInvariant, [Next]_vars, ~ overlap
  PROVE  LateLeftOver'
<1> SUFFICES ASSUME NEW b \in Batches, NEW t \in Tables, outputs'[b][t].late # {}
             PROVE  /\ cdc'[b] # NoFile
                    /\ outputs'[b][t].late \subseteq LateEvents(cdc'[b][t], State'.hwm[t])
  BY DEF LateLeftOver
<1>1. State.hwm[t] \in Nat /\ State'.hwm[t] \in Nat /\ State.hwm[t] <= State'.hwm[t]
  <2>1. TypeOK'
    BY StepTyped
  <2>2. State' \in Checkpoints
    BY <2>1, LegacyAssumption DEF TypeOK, State, Checkpoints, Fresh, NoMarks
  <2>3. QED
    BY <2>2, StateGrows, StateType DEF Checkpoints
<1>2. b \in Landed => b \in Landed' /\ cdc'[b] = cdc[b]
  BY NothingTakenBack
<1>3. b \in Landed =>
        LateEvents(cdc[b][t], State.hwm[t]) \subseteq LateEvents(cdc'[b][t], State'.hwm[t])
  <2> SUFFICES ASSUME b \in Landed, NEW r \in Deduplicated(cdc[b][t]),
                      State.hwm[t] > 0, r.seq <= State.hwm[t]
               PROVE  State'.hwm[t] > 0 /\ r.seq <= State'.hwm[t]
    BY <1>2 DEF LateEvents
  <2>1. r.seq \in Nat
    BY LandedFilesAreRecords, RecordsAssumption, BoundsAssumption
       DEF Deduplicated, Accepted, Record
  <2>2. QED
    BY <1>1, <2>1
<1>4. CASE outputs'[b][t] = outputs[b][t]
  <2>1. b \in Landed /\ outputs[b][t].late \subseteq LateEvents(cdc[b][t], State.hwm[t])
    BY <1>4 DEF LateInvariant, LateLeftOver, Landed
  <2>2. QED
    BY <1>2, <1>3, <1>4, <2>1 DEF Landed
<1>5. ASSUME NEW u \in Tables, WriteTable(u), outputs'[b][t] # outputs[b][t]
      PROVE  /\ cdc'[b] # NoFile
             /\ outputs'[b][t].late \subseteq LateEvents(cdc'[b][t], State'.hwm[t])
  <2>1. b = batch["process"] /\ t = u /\ b \in Landed
    BY <1>5, WriteTableInFull
  <2>2. outputs'[b][t] = staged[t]
    BY <1>5, <2>1, WriteTableExact DEF LateInvariant
  <2>3. staged[t] = Staged(cdc[b][t], State.hwm[t])
    BY <1>5, <2>1 DEF WriteTable, LateInvariant, LateStaged, Working, Behind
  <2>4. outputs'[b][t].late = LateEvents(cdc[b][t], State.hwm[t])
    BY <2>2, <2>3 DEF Staged
  <2>5. QED
    BY <1>2, <1>3, <2>1, <2>4 DEF Landed
<1>6. QED
  BY <1>4, <1>5, OutputsKept

\* A commit records what was complete before the batch, and nothing else does.
LEMMA CommitsKept ==
  ASSUME [Next]_vars
  PROVE  committed' = committed \/ \E c \in Lanes : SaveState(c)
<1>1. (\E c \in Lanes : \/ Start(c) \/ Crash(c) \/ Migrate(c) \/ Discover(c) \/ LoadState(c)
                        \/ Finish(c) \/ \E b \in Batches : BeginBatch(c, b))
      => committed' = committed
  BY DEF Start, Crash, Migrate, Discover, LoadState, Finish, BeginBatch
<1>2. (\/ \E b \in Batches : SkipCompleted(b) \/ Land(b)
       \/ \E t \in Tables : ReadTable(t) \/ WriteTable(t) \/ ApplyTable(t)
       \/ WriteReport
       \/ UNCHANGED vars)
      => committed' = committed
  BY DEF SkipCompleted, Land, ReadTable, WriteTable, ApplyTable, WriteReport, vars
<1>3. QED
  BY <1>1, <1>2 DEF Next, Process, Apply, Run, ProcessTable, Lanes

\* What a commit adds to the checkpoint.
LEMMA CommitAdds ==
  ASSUME TypeOK, Scope, Alone, ~ overlap, NEW c \in Lanes, SaveState(c)
  PROVE  LET b == batch[c]
         IN /\ b \in Landed /\ b \in Batches
            /\ State'.completed = State.completed \cup {b}
            /\ committed' = [committed EXCEPT ![b] = [lane |-> c, before |-> State.completed]]
<1> DEFINE b == batch[c]
           new == [hwm |-> [t \in Tables |-> Max({State.hwm[t], marks[c][t]})],
                   completed |-> State.completed \cup {b}]
<1>1. loaded[c] = State /\ b \in Landed /\ b \in Batches /\ marks[c] \in [Tables -> Nat]
  BY DEF SaveState, Alone, TypeOK, Scope, Working, Landed
<1>2. new \in Checkpoints
  BY <1>1, StateType, RaisedMarks DEF Checkpoints
<1>3. State' = new
  BY <1>1, <1>2, LegacyAssumption DEF SaveState, State
<1>4. QED
  BY <1>1, <1>3 DEF SaveState

\* Every step leaves commits standing.
LEMMA StepCommits ==
  ASSUME TypeOK, Scope, Alone, LateInvariant, [Next]_vars, ~ overlap
  PROVE  CommitsStand'
<1>1. CommitsStand
  BY DEF LateInvariant
<1>2. \A b \in Landed : b \in Landed' /\ cdc'[b] = cdc[b]
  BY NothingTakenBack
<1>3. State.completed \subseteq State'.completed
  BY StateGrows
<1>4. CASE committed' = committed
  BY <1>1, <1>2, <1>3, <1>4 DEF CommitsStand, Landed
<1>5. ASSUME NEW c \in Lanes, SaveState(c) PROVE CommitsStand'
  <2>1. /\ batch[c] \in Landed /\ batch[c] \in Batches
        /\ State'.completed = State.completed \cup {batch[c]}
        /\ committed' = [committed EXCEPT ![batch[c]] = [lane |-> c, before |-> State.completed]]
    BY <1>5, CommitAdds
  <2>2. ASSUME NEW b \in Batches, committed'[b] # NoFile
        PROVE  cdc'[b] # NoFile /\ committed'[b].before \cup {b} \subseteq State'.completed
    <3>1. CASE b = batch[c]
      BY <1>2, <2>1, <3>1 DEF TypeOK, Landed
    <3>2. CASE b # batch[c]
      <4>1. committed'[b] = committed[b]
        BY <2>1, <3>2 DEF TypeOK
      <4>2. QED
        BY <1>1, <1>2, <1>3, <2>2, <4>1 DEF CommitsStand, Landed
    <3>3. QED
      BY <3>1, <3>2
  <2>3. QED
    BY <2>2 DEF CommitsStand
<1>6. QED
  BY <1>4, <1>5, CommitsKept

\* A completed batch is not touched again: its files and its report stay.
LEMMA CompletedUntouched ==
  ASSUME TypeOK, Scope, Alone, Progress, LateInvariant, [Next]_vars, ~ overlap,
         NEW b \in State.completed, b \in Batches
  PROVE  (\A t \in Tables : outputs'[b][t] = outputs[b][t]) /\ report'[b] = report[b]
<1>1. pc["process"] \in Working => batch["process"] # b
  BY DEF LateInvariant, InHand, Lanes
<1>2. \A t \in Tables : outputs'[b][t] = outputs[b][t]
  <2>1. ASSUME NEW u \in Tables, WriteTable(u) PROVE \A t \in Tables : outputs'[b][t] = outputs[b][t]
    BY <1>1, <2>1, WriteTableInFull DEF WriteTable, Working
  <2>2. QED
    BY <2>1, OutputsKept
<1>3. CASE WriteReport
  <2>1. report'[b] = report[b]
    BY <1>1, <1>3 DEF WriteReport, Working, TypeOK
  <2>2. QED
    BY <1>2, <2>1
<1>4. CASE report' = report
  BY <1>2, <1>4
<1>5. (\E c \in Lanes : \/ Start(c) \/ Crash(c) \/ Migrate(c) \/ Discover(c) \/ LoadState(c)
                        \/ SaveState(c) \/ Finish(c) \/ \E d \in Batches : BeginBatch(c, d))
      => report' = report
  BY DEF Start, Crash, Migrate, Discover, LoadState, SaveState, Finish, BeginBatch, files
<1>6. (\/ \E d \in Batches : SkipCompleted(d) \/ Land(d)
       \/ \E t \in Tables : ReadTable(t) \/ WriteTable(t) \/ ApplyTable(t)
       \/ UNCHANGED vars)
      => report' = report
  BY DEF SkipCompleted, Land, ReadTable, WriteTable, ApplyTable, files, vars
<1>7. QED
  BY <1>3, <1>4, <1>5, <1>6 DEF Next, Process, Apply, Run, ProcessTable, Lanes

\* What is late against the mark is what is at or below it: no mark is no
\* event, as sequences start at 1.
LEMMA LateIsAtOrBelow ==
  ASSUME NEW file, file \subseteq Records, NEW mark \in Nat
  PROVE  LateEvents(file, mark) = {r \in Deduplicated(file) : r.seq <= mark}
<1>1. \A r \in Deduplicated(file) : r.seq \in 1..MaxSeq
  BY RecordsAssumption DEF Deduplicated, Accepted, Record
<1>2. \A r \in Deduplicated(file) : r.seq <= mark => mark > 0
  BY <1>1, BoundsAssumption
<1>3. QED
  BY <1>2 DEF LateEvents

\* Every step keeps the late files of committed batches exact.
LEMMA StepLateFiles ==
  ASSUME TypeOK, Scope, Alone, Progress, CompletedIsWitnessed, LateInvariant, LateFileExact,
         [Next]_vars, ~ overlap
  PROVE  LateFileExact'
<1> SUFFICES ASSUME NEW b \in Batches, committed'[b] # NoFile, committed'[b].lane = "process",
                    NEW t \in Tables
             PROVE  /\ outputs'[b][t].late =
                         {r \in Deduplicated(cdc'[b][t]) :
                            r.seq <= Seen(t, committed[b].before)'}
                    /\ report'[b][t] = outputs'[b][t]
  BY DEF LateFileExact
<1>1. \A bs \in SUBSET State.completed : Seen(t, bs)' = Seen(t, bs)
  BY CompletedLanded, SeenStays
<1>2. CASE committed'[b] = committed[b]
  <2>1. /\ committed[b].before \subseteq State.completed /\ b \in State.completed
        /\ b \in Landed
    BY <1>2 DEF LateInvariant, CommitsStand, Landed
  <2>2. outputs'[b][t] = outputs[b][t] /\ report'[b] = report[b]
    BY <2>1, CompletedUntouched
  <2>3. cdc'[b] = cdc[b]
    BY <2>1, NothingTakenBack
  <2>4. Seen(t, committed[b].before)' = Seen(t, committed[b].before)
    BY <1>1, <1>2, <2>1
  <2>5. /\ outputs[b][t].late =
             {r \in Deduplicated(cdc[b][t]) : r.seq <= Seen(t, committed[b].before)}
        /\ report[b][t] = outputs[b][t]
    BY <1>2 DEF LateFileExact
  <2>6. QED
    BY <2>2, <2>3, <2>4, <2>5
<1>3. ASSUME NEW c \in Lanes, SaveState(c), committed'[b] # committed[b]
      PROVE  /\ outputs'[b][t].late =
                  {r \in Deduplicated(cdc'[b][t]) : r.seq <= Seen(t, committed[b].before)'}
             /\ report'[b][t] = outputs'[b][t]
  <2>1. /\ batch[c] \in Landed
        /\ committed' = [committed EXCEPT ![batch[c]] = [lane |-> c, before |-> State.completed]]
    BY <1>3, CommitAdds
  <2>2. b = batch[c] /\ committed'[b] = [lane |-> c, before |-> State.completed]
    BY <1>3, <2>1 DEF TypeOK
  <2>3. c = "process"
    BY <2>2
  <2>4. outputs[b][t] = staged[t] /\ staged[t] = Staged(cdc[b][t], State.hwm[t])
        /\ report[b] = staged
    BY <1>3, <2>2, <2>3 DEF SaveState, LateInvariant, LateStaged, Working, Behind
  <2>5. outputs' = outputs /\ report' = report /\ cdc' = cdc
    BY <1>3 DEF SaveState
  <2>6. State.hwm[t] = Seen(t, State.completed) /\ State.hwm[t] \in Nat
    <3>1. Ready
      BY <1>3 DEF SaveState, LateInvariant, InHand
    <3>2. QED
      BY <3>1, StateType DEF LateInvariant, MarksAreSeen, Checkpoints
  <2>7. Seen(t, committed[b].before)' = Seen(t, State.completed)
    BY <1>1, <2>2
  <2>8. outputs[b][t].late = {r \in Deduplicated(cdc[b][t]) : r.seq <= State.hwm[t]}
    BY <2>1, <2>2, <2>4, <2>6, LandedFilesAreRecords, LateIsAtOrBelow DEF Staged
  <2>9. QED
    BY <2>4, <2>5, <2>6, <2>7, <2>8
<1>4. QED
  BY <1>2, <1>3, CommitsKept

\* Before any command runs nothing is late and nothing committed.
LEMMA InitLate == Init => LateInvariant /\ LateFileExact
<1> SUFFICES ASSUME Init PROVE LateInvariant /\ LateFileExact
  OBVIOUS
<1>1. State = Fresh
  BY DEF Init, State
<1>2. MarksAreSeen
  <2> SUFFICES ASSUME Readable = {}
               PROVE  \A t \in Tables : State.hwm[t] = Seen(t, State.completed)
    BY DEF Init, MarksAreSeen, Ready
  <2>1. ASSUME NEW t \in Tables PROVE 0 = Seen(t, {})
    <3>1. LegacyMark(t) = 0
      BY <2>1 DEF LegacyMark
    <3>2. QED
      BY <2>1, <3>1, InitTyped, SeenOneMore
  <2>2. QED
    BY <1>1, <2>1 DEF Fresh, NoMarks
<1>3. /\ \A c \in Lanes : pc[c] = "idle"
      /\ \A b \in Batches : committed[b] = NoFile
      /\ \A b \in Batches, t \in Tables : outputs[b][t].late = {}
  BY DEF Init, NoOutputs, NoOutput
<1>4. QED
  BY <1>2, <1>3
     DEF LateInvariant, InHand, Working, LateStaged, LateLeftOver, CommitsStand, LateFileExact,
         Lanes

\* Commands that do not overlap start that way and stay that way.
LEMMA OverlapStays == [Next]_vars => overlap' = overlap
  BY DEF Next, Process, Apply, Run, ProcessTable, Land, Start, Crash, Migrate, Discover,
         BeginBatch, LoadState, SaveState, Finish, SkipCompleted, ReadTable, WriteTable,
         WriteReport, ApplyTable, vars

\* One command at a time: what the marks are, what is staged at them and what
\* earlier attempts may have left behind.
THEOREM LateOnes == Spec => [](LateInvariant /\ LateFileExact)
<1>1. Init => LateInvariant /\ LateFileExact
  BY InitLate
<1>2. /\ TypeOK /\ Scope /\ Alone /\ InductiveInvariant
      /\ LateInvariant /\ LateFileExact /\ [Next]_vars
      => (LateInvariant /\ LateFileExact)'
  <2> SUFFICES ASSUME TypeOK, Scope, Alone, InductiveInvariant, LateInvariant, LateFileExact,
                      [Next]_vars
               PROVE  LateInvariant' /\ LateFileExact'
    OBVIOUS
  <2>1. overlap' = overlap
    BY OverlapStays
  <2>2. CASE overlap
    BY <2>1, <2>2 DEF LateInvariant, LateFileExact
  <2>3. CASE ~ overlap
    <3>1. Progress /\ CompletedIsWitnessed
      BY DEF InductiveInvariant
    <3>2. LateInvariant'
      BY <2>3, <3>1, StepMarks, StepInHand, StepLateStaged, StepLeftOver, StepCommits
         DEF LateInvariant
    <3>3. LateFileExact'
      BY <2>3, <3>1, StepLateFiles
    <3>4. QED
      BY <3>2, <3>3
  <2>4. QED
    BY <2>2, <2>3
<1>3. Init => InductiveInvariant /\ Alone
  BY InitInductive, InitAlone
<1>4. TypeOK /\ Scope /\ InductiveInvariant /\ [Next]_vars => InductiveInvariant'
  BY StepInductive
<1>5. TypeOK /\ Alone /\ [Next]_vars => Alone'
  BY StepAlone
<1>6. QED
  BY <1>1, <1>2, <1>3, <1>4, <1>5, TypeCorrect, PTL DEF Spec

\* With one command at a time, the late file of a batch process-cdc committed
\* is what was at or below everything complete before it, whatever crashed
\* and however often it was attempted, and the report says the same.
THEOREM LateExact == Spec => []LateFileExact
  BY LateOnes, PTL
=============================================================================
