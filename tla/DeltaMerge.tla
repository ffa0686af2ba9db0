----------------------------- MODULE DeltaMerge ------------------------------
(***************************************************************************)
(* The MERGE of one table: a batch is collapsed to one candidate per key,  *)
(* every candidate is classified against the row it meets and the ledger,  *)
(* and the candidates classified as applied are merged into the rows.      *)
(***************************************************************************)
EXTENDS CdcFeed

CONSTANTS
  NoRow,    \* the key has no row in the Delta table
  NoEntry   \* the event has no record in the ledger, or none is staged

SnapshotId == 0      \* the SNAPSHOT_INIT sentinel, never the id of an event

SnapshotBatch == 0   \* _last_batch_id of a row that came from the snapshot

Row == [seq : 1..MaxSeq, id : 0..MaxId, batch : Nat, deleted : BOOLEAN, val : Vals \cup {Null}]

Rows == [Keys -> Row \cup {NoRow}]

AppliedOutcomes == {"APPLIED_INSERT", "APPLIED_UPDATE", "APPLIED_DELETE"}

Outcomes == AppliedOutcomes \cup
  {"ALREADY_APPLIED", "RECOVERED_AFTER_PARTIAL_COMMIT", "STALE_NOOP", "SUPERSEDED_WITHIN_BATCH"}

Entries == [EventIds -> Outcomes \cup {NoEntry}]

NoEntries == [i \in EventIds |-> NoEntry]

ASSUME NoRowAssumption == NoRow \notin Row

ASSUME NoEntryAssumption == NoEntry \notin Outcomes

-----------------------------------------------------------------------------
\* Faulty variant of Outranks: ascending order.
OutranksAscending(r, s) == r.seq < s.seq \/ (r.seq = s.seq /\ r.id >= s.id)

\* source_sequence descending, then event_id descending.
Outranks(r, s) == r.seq > s.seq \/ (r.seq = s.seq /\ r.id >= s.id)

\* The candidate of each key (_batch_rank = 1).
Winners(events) == {r \in events : \A s \in events : s.key = r.key => Outranks(r, s)}

Superseded(events) == events \ Winners(events)

\* The row already carries this very event: a retry, or a redelivery.
Carries(row, r) == row # NoRow /\ row.id = r.id /\ row.seq = r.seq

\* Faulty variant of Newer: an equal sequence passes the guard.
NewerOrEqual(r, row) == row = NoRow \/ r.seq >= row.seq

\* The sequence guard of the MERGE.
Newer(r, row) == row = NoRow \/ r.seq > row.seq

AppliedOutcome(r) ==
  CASE r.op = "INSERT" -> "APPLIED_INSERT"
    [] r.op = "UPDATE" -> "APPLIED_UPDATE"
    [] r.op = "DELETE" -> "APPLIED_DELETE"

\* Faulty variants of Classify: a candidate is never compared with the event
\* the row carries; the ledger is tested the wrong way round.
ClassifyBySequence(r, row, entries) ==
  IF Newer(r, row) THEN AppliedOutcome(r) ELSE "STALE_NOOP"

ClassifySwapped(r, row, entries) ==
  CASE Carries(row, r) /\ entries[r.id] # NoEntry -> "RECOVERED_AFTER_PARTIAL_COMMIT"
    [] Carries(row, r) /\ entries[r.id] = NoEntry -> "ALREADY_APPLIED"
    [] ~ Carries(row, r) /\ ~ Newer(r, row) -> "STALE_NOOP"
    [] ~ Carries(row, r) /\ Newer(r, row) -> AppliedOutcome(r)

\* The outcome of candidate r, given the row it meets and the ledger.
Classify(r, row, entries) ==
  CASE Carries(row, r) /\ entries[r.id] # NoEntry -> "ALREADY_APPLIED"
    [] Carries(row, r) /\ entries[r.id] = NoEntry -> "RECOVERED_AFTER_PARTIAL_COMMIT"
    [] ~ Carries(row, r) /\ ~ Newer(r, row) -> "STALE_NOOP"
    [] ~ Carries(row, r) /\ Newer(r, row) -> AppliedOutcome(r)

\* INSERT and UPDATE write the after-image and clear the tombstone; DELETE
\* sets it, keeps the attributes of an existing row and has none otherwise.
MergedRow(row, r, b) ==
  [seq |-> r.seq, id |-> r.id, batch |-> b, deleted |-> r.op = "DELETE",
   val |-> IF r.op # "DELETE" THEN r.val ELSE IF row = NoRow THEN Null ELSE row.val]

\* The candidate the MERGE applies to key k: no two match one key.
Applied(rows, events, k) == {r \in Winners(events) : r.key = k /\ Newer(r, rows[k])}

Merge(rows, events, b) ==
  [k \in Keys |-> IF Applied(rows, events, k) = {} THEN rows[k]
                  ELSE MergedRow(rows[k], CHOOSE r \in Applied(rows, events, k) : TRUE, b)]

\* The audit records the MERGE of a batch stages, keyed by event id.
Audit(rows, entries, events) ==
  [i \in EventIds |->
     IF \A r \in events : r.id # i THEN NoEntry
     ELSE LET r == CHOOSE e \in events : e.id = i
          IN IF r \in Superseded(events) THEN "SUPERSEDED_WITHIN_BATCH"
             ELSE Classify(r, rows[r.key], entries)]

\* Faulty variant of Upsert: matched entries are left untouched.
InsertMissing(entries, new) ==
  [i \in EventIds |-> IF entries[i] # NoEntry THEN entries[i] ELSE new[i]]

\* MERGE on event_id of staged records into recorded ones: matched entries
\* are overwritten, missing ones inserted.
Upsert(entries, new) == [i \in EventIds |-> IF new[i] # NoEntry THEN new[i] ELSE entries[i]]
=============================================================================
