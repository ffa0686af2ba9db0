----------------------------- MODULE SourceFeed ------------------------------
(***************************************************************************)
(* From the source to its replica.  CDCGenerator plays an OLTP source that *)
(* starts from the snapshot of generate_initial_state, changes entities at *)
(* random, numbers every change, and writes the changes as batches: with   *)
(* some held back, repeated, made up or broken on purpose.  The forward    *)
(* lane merges the batches, each as one step (DeltaApply shows that it may *)
(* be seen so), into tables that started from the same snapshot.           *)
(*                                                                         *)
(* An entity is the number in its key.  An after-image is named by the     *)
(* sequence of the change that made it, so equal values are equal states.  *)
(***************************************************************************)
EXTENDS DeltaMerge, SequencesExt

CONSTANTS
  Accounts, Subscriptions, Invoices, Payments,  \* may coincide in a small instance
  TableOrder,  \* the order the tables are generated in
  Initial,     \* entities of each table in the snapshot
  Quota,       \* changes a batch makes in each table
  EventId,     \* generate_event_id of <<table, key, sequence, operation>>
  LateKey,     \* SUB-000005
  LateLag,     \* how far back a made-up late event is numbered (150)
  LateVal,     \* its made-up after-image
  MaxBatches   \* batches to generate (--batches)

ASSUME RolesAssumption == {Accounts, Subscriptions, Invoices, Payments} = Tables

ASSUME OrderAssumption ==
  /\ TableOrder \in Seq(Tables)
  /\ \A t \in Tables : \E i \in DOMAIN TableOrder : TableOrder[i] = t
  /\ \A i, j \in DOMAIN TableOrder : TableOrder[i] = TableOrder[j] => i = j

ASSUME ScaleAssumption ==
  /\ Initial \in [Tables -> Nat] /\ Quota \in [Tables -> Nat \ {0}]
  /\ Quota[Subscriptions] >= 2
  /\ Keys \subseteq Nat /\ LateKey \in Keys /\ LateLag \in Nat
  /\ 1..MaxSeq \subseteq Vals /\ LateVal \in Vals \ (1..MaxSeq)
  /\ MaxBatches \in Nat

VARIABLES
  current_sequence,  \* the last number given to a change
  alive,             \* entities of each table that exist at the source
  last,              \* sequence of an entity's last change, 0 if it never existed
  counter,           \* highest entity number of each table
  held,              \* held_events_for_out_of_order, by the table they go to
  table,             \* index of the table being generated, 0 between batches
  made,              \* changes made in it so far
  events             \* the batch being generated, in the order of generation

VARIABLES
  batches,  \* the batches written
  applied,  \* how many of them the forward lane has applied
  rows      \* current-state rows

source == <<current_sequence, alive, last, counter, held, table, made, events>>
vars == <<source, batches, applied, rows>>

Deletable == {Accounts, Subscriptions}

\* An event of the change numbered s; one that leaves after-image v.
Event(t, k, op, s, v, arrival) ==
  [id |-> EventId[<<t, k, s, op>>], table |-> t, key |-> k, seq |-> s, op |-> op, val |-> v,
   arrival |-> arrival, ok |-> TRUE]

Change(t, k, op, s) == Event(t, k, op, s, s, 1)

\* A line that validation rejects: unknown operation, no key, broken payload.
Broken(t, s) == [Change(t, LateKey, "INSERT", s) EXCEPT !.ok = FALSE]

\* generate_initial_state numbers the entities table after table.
Before[i \in 0..Len(TableOrder)] == IF i = 0 THEN 0 ELSE Before[i - 1] + Initial[TableOrder[i]]

Place(t) == CHOOSE i \in DOMAIN TableOrder : TableOrder[i] = t

SnapshotSequence(t, k) == Before[Place(t) - 1] + k

SnapshotTotal == Before[Len(TableOrder)]

ASSUME SnapshotAssumption ==
  /\ SnapshotTotal <= MaxSeq
  /\ \A t \in Tables : 1..Initial[t] \subseteq Keys

\* What the generator may write are lines of a feed.
ASSUME LinesAssumption ==
  /\ \A t \in Tables, s \in 1..MaxSeq :
       Broken(t, s) \in Records /\ \A k \in Keys, op \in Operations : Change(t, k, op, s) \in Records
  /\ \A s \in 1..MaxSeq, arrival \in {0, 2} :
       Event(Subscriptions, LateKey, "UPDATE", s, LateVal, arrival) \in Records

\* The source starts from the snapshot, the tables are initialised with it.
Snapshot(t, k) ==
  IF k \notin 1..Initial[t] THEN NoRow
  ELSE [seq |-> SnapshotSequence(t, k), id |-> SnapshotId, batch |-> SnapshotBatch,
        deleted |-> FALSE, val |-> SnapshotSequence(t, k)]

TypeOK ==
  /\ current_sequence \in 0..MaxSeq
  /\ alive \in [Tables -> SUBSET Keys]
  /\ last \in [Tables -> [Keys -> 0..MaxSeq]]
  /\ counter \in [Tables -> Keys \cup {0}]
  /\ held \in [Tables -> Seq(Records)]
  /\ table \in 0..Len(TableOrder)
  /\ made \in IF table = 0 THEN {0} ELSE 0..Quota[TableOrder[table]]
  /\ events \in [Tables -> Seq(Records)]
  /\ batches \in Seq(BatchFiles)
  /\ Len(batches) <= IF table = 0 THEN MaxBatches ELSE MaxBatches - 1
  /\ applied \in 0..Len(batches)
  /\ rows \in [Tables -> Rows]

NoEvents == [t \in Tables |-> << >>]

Init ==
  /\ current_sequence = SnapshotTotal
  /\ alive = [t \in Tables |-> 1..Initial[t]]
  /\ last = [t \in Tables |-> [k \in Keys |-> IF k \in 1..Initial[t] THEN SnapshotSequence(t, k) ELSE 0]]
  /\ counter = Initial
  /\ held = NoEvents /\ table = 0 /\ made = 0 /\ events = NoEvents
  /\ batches = << >> /\ applied = 0
  /\ rows = [t \in Tables |-> [k \in Keys |-> Snapshot(t, k)]]

-----------------------------------------------------------------------------
\* Faulty variants of Released: held events are not forgotten; they are
\* numbered again when they are released.
ReleasedAgain == events' = held /\ UNCHANGED <<held, current_sequence>>

ReleasedRenumbered ==
  /\ events' = [t \in Tables |-> [i \in DOMAIN held[t] |->
       LET r == held[t][i] IN Event(t, r.key, r.op, current_sequence + 1, r.val, 1)]]
  /\ held' = NoEvents
  /\ current_sequence' = current_sequence + 1

\* Events held back from an earlier batch come first in this one.
Released == events' = held /\ held' = NoEvents /\ UNCHANGED current_sequence

OpenBatch ==
  /\ table = 0
  /\ Len(batches) < MaxBatches
  /\ table' = 1
  /\ Released
  /\ UNCHANGED <<alive, last, counter, made, batches, applied, rows>>

\* Faulty variant of Generating: one change too many.
GeneratingOneMore(t) == table # 0 /\ TableOrder[table] = t /\ made <= Quota[t]

Generating(t) == table # 0 /\ TableOrder[table] = t /\ made < Quota[t]

\* The change is made at the source, numbered and written down.
Make(t, k, op) ==
  LET s == current_sequence + 1
  IN /\ s <= MaxSeq
     /\ current_sequence' = s
     /\ last' = [last EXCEPT ![t][k] = s]
     /\ events' = [events EXCEPT ![t] = Append(@, Change(t, k, op, s))]
     /\ made' = made + 1
     /\ UNCHANGED <<held, table, batches, applied, rows>>

\* The first two changes of a batch to subscriptions update one entity, if
\* there is one.
Twice(t) ==
  /\ t = Subscriptions
  /\ \/ made = 0 /\ alive[t] # {}
     \/ made = 1 /\ Last(events[t]).op = "UPDATE"

InsertEntity(t) ==
  /\ Generating(t)
  /\ ~ Twice(t)
  /\ counter[t] + 1 \in Keys
  /\ Make(t, counter[t] + 1, "INSERT")
  /\ counter' = [counter EXCEPT ![t] = @ + 1]
  /\ alive' = [alive EXCEPT ![t] = @ \cup {counter[t] + 1}]

UpdateEntity(t, k) ==
  /\ Generating(t)
  /\ k \in alive[t]
  /\ Twice(t) /\ made = 1 => k = Last(events[t]).key
  /\ Make(t, k, "UPDATE")
  /\ UNCHANGED <<alive, counter>>

DeleteEntity(t, k) ==
  /\ Generating(t)
  /\ t \in Deletable
  /\ k \in alive[t]
  /\ ~ Twice(t)
  /\ Make(t, k, "DELETE")
  /\ alive' = [alive EXCEPT ![t] = @ \ {k}]
  /\ UNCHANGED counter

NextTable ==
  /\ table \in 1..(Len(TableOrder) - 1)
  /\ made = Quota[TableOrder[table]]
  /\ table' = table + 1
  /\ made' = 0
  /\ UNCHANGED <<current_sequence, alive, last, counter, held, events, batches, applied, rows>>

\* _inject_batch_defects.  The invoice change that batch 1 holds back:
Hold(b) == b = 1 /\ Len(events[Invoices]) > 2

\* A late event that nothing happened for, from the second batch on:
Late(b, arrival) ==
  IF b < 2 THEN {}
  ELSE LET s == Max({1, current_sequence - LateLag})
       IN {Event(Subscriptions, LateKey, "UPDATE", s, LateVal, arrival)}

\* Lines that will be rejected; they use up sequence numbers.
BrokenLines(b) ==
  CASE b % 2 = 1 -> {Broken(Accounts, current_sequence + 1)}
    [] b = 2 -> {Broken(Payments, current_sequence + 1), Broken(Invoices, current_sequence + 2)}
    [] b % 2 = 0 /\ b # 2 -> {Broken(Payments, current_sequence + 1)}

\* The batch gets its defects and is written.  Repeated lines and the order
\* of lines do not show in a set of lines; the late event may come before or
\* after an event it shares its id with.
CloseBatch ==
  LET b    == Len(batches) + 1
      kept == IF Hold(b) THEN [events EXCEPT ![Invoices] = RemoveAt(@, 2)] ELSE events
  IN /\ table = Len(TableOrder)
     /\ made = Quota[TableOrder[table]]
     /\ \E arrival \in {0, 2} :
          batches' = Append(batches, [t \in Tables |->
            ToSet(kept[t]) \cup {r \in Late(b, arrival) \cup BrokenLines(b) : r.table = t}])
     /\ held' = IF Hold(b) THEN [held EXCEPT ![Invoices] = Append(@, events[Invoices][2])] ELSE held
     /\ current_sequence' = current_sequence + Cardinality(BrokenLines(b))
     /\ current_sequence' <= MaxSeq
     /\ table' = 0 /\ made' = 0 /\ events' = NoEvents
     /\ UNCHANGED <<alive, last, counter, applied, rows>>

\* The forward lane applies the next batch.
ApplyBatch ==
  /\ table = 0
  /\ applied < Len(batches)
  /\ applied' = applied + 1
  /\ rows' = [t \in Tables |-> Merge(rows[t], Parsed(batches[applied'][t], t), applied')]
  /\ UNCHANGED <<source, batches>>

-----------------------------------------------------------------------------
Next ==
  \/ OpenBatch
  \/ \E t \in Tables : InsertEntity(t) \/ \E k \in Keys : UpdateEntity(t, k) \/ DeleteEntity(t, k)
  \/ NextTable
  \/ CloseBatch
  \/ ApplyBatch

Spec == Init /\ [][Next]_vars

-----------------------------------------------------------------------------
\* Made-up events the batches hold.
MadeUp == {r \in UNION {batches[b][Subscriptions] : b \in DOMAIN batches} : r.val = LateVal}

\* The newest change of an entity is on its way, or a made-up event is numbered
\* at or above it.
InDoubt(t, k) ==
  \/ \E r \in ToSet(held[t]) : r.seq = last[t][k]
  \/ \E r \in MadeUp : r.table = t /\ r.key = k /\ r.seq >= last[t][k]

(***************************************************************************)
(* When every batch is applied, the replica is the source: an entity that  *)
(* exists has the after-image of its last change, one that was deleted has *)
(* a tombstone of that sequence, one that never existed has no row.  Held  *)
(* back, repeated, late and broken events make no difference, except to an *)
(* entity whose newest change is still held back or is outnumbered by the  *)
(* made-up late event.                                                     *)
(***************************************************************************)
ReplicaMatchesSource ==
  table = 0 /\ applied = Len(batches) =>
    \A t \in Tables, k \in Keys : ~ InDoubt(t, k) =>
      LET row == rows[t][k]
      IN /\ row = NoRow <=> last[t][k] = 0
         /\ row # NoRow => /\ row.seq = last[t][k]
                           /\ row.deleted <=> k \notin alive[t]
                           /\ ~ row.deleted => row.val = last[t][k]

\* Where the line numbered s is.
Places(s) ==
  {b \in DOMAIN batches : \E t \in Tables : \E r \in batches[b][t] : r.seq = s /\ r.val # LateVal}
  \cup {"events" : t \in {u \in Tables : \E r \in ToSet(events[u]) : r.seq = s}}
  \cup {"held" : t \in {u \in Tables : \E r \in ToSet(held[u]) : r.seq = s}}

\* Every number given out since the snapshot names one line, which is in one
\* place: no change is lost or delivered in two batches by being held back.
EveryChangeInOnePlace ==
  \A s \in (SnapshotTotal + 1)..current_sequence : Cardinality(Places(s)) = 1

-----------------------------------------------------------------------------
(***************************************************************************)
(* Why these hold.                                                         *)
(***************************************************************************)
\* The lines that were not made up: in written batch b, in the one in work,
\* and held back.
Written(b) == {r \in UNION {batches[b][t] : t \in Tables} : r.val # LateVal}

InWork == UNION {ToSet(events[t]) : t \in Tables}

HeldBack == UNION {ToSet(held[t]) : t \in Tables}

Lines == (UNION {Written(b) : b \in DOMAIN batches}) \cup InWork \cup HeldBack

\* A line is in the file of its table, and valid until the batch is closed;
\* between batches none is in work.
LinesFiled ==
  /\ table = 0 => events = NoEvents
  /\ \A t \in Tables :
       /\ \A r \in ToSet(events[t]) \cup ToSet(held[t]) : r.table = t /\ r.ok
       /\ \A b \in DOMAIN batches : \A r \in batches[b][t] :
            r.table = t /\ (r.val = LateVal => t = Subscriptions)

\* A line has a number given out since the snapshot, and is a change if it
\* is valid.
LinesNumbered ==
  /\ SnapshotTotal <= current_sequence
  /\ \A r \in Lines : /\ r.seq \in (SnapshotTotal + 1)..current_sequence
                      /\ r.ok => r = Change(r.table, r.key, r.op, r.seq)

\* A number is that of one line, in one place, and there once.
LinesDiffer ==
  /\ \A r, s \in Lines : r.seq = s.seq => r = s
  /\ (SnapshotTotal + 1)..current_sequence \subseteq {r.seq : r \in Lines}
  /\ \A b, c \in DOMAIN batches : b # c => Written(b) \cap Written(c) = {}
  /\ \A b \in DOMAIN batches : Written(b) \cap (InWork \cup HeldBack) = {}
  /\ InWork \cap HeldBack = {}
  /\ \A t \in Tables : \A f \in {events[t], held[t]} :
       \A i, j \in DOMAIN f : f[i] = f[j] => i = j

\* The last change of an entity is the highest line of its key, or there was
\* none since the snapshot; it tells whether the entity exists.
LastIsLine ==
  /\ \A r \in Lines : r.ok => r.seq <= last[r.table][r.key]
  /\ LET lines == Lines
     IN \A t \in Tables, k \in Keys :
       \/ /\ last[t][k] = IF k \in 1..Initial[t] THEN SnapshotSequence(t, k) ELSE 0
          /\ k \in alive[t] <=> k \in 1..Initial[t]
       \/ \E r \in lines : /\ r.ok /\ r.table = t /\ r.key = k /\ r.seq = last[t][k]
                           /\ r.op = "DELETE" <=> k \notin alive[t]

\* What the forward lane has seen of key k.
Delivered(t, k) == {r \in UNION {Parsed(batches[b][t], t) : b \in 1..applied} : r.key = k}

\* The row shows event r.
Shows(row, r) ==
  /\ row.seq = r.seq /\ row.deleted = (r.op = "DELETE")
  /\ r.op # "DELETE" => row.val = r.val

\* A row is that of the snapshot or shows an event delivered, whichever is the
\* newest.
RowsFollow ==
  \A t \in Tables, k \in Keys :
    LET row  == rows[t][k]
        base == Snapshot(t, k)
    IN /\ row = NoRow <=> base = NoRow /\ Delivered(t, k) = {}
       /\ row # NoRow =>
            /\ \A r \in Delivered(t, k) : r.seq <= row.seq
            /\ base # NoRow => base.seq <= row.seq
            /\ row = base \/ \E r \in Delivered(t, k) : Shows(row, r)

SourceInvariant ==
  TypeOK /\ LinesFiled /\ LinesNumbered /\ LinesDiffer /\ LastIsLine /\ RowsFollow
=============================================================================
