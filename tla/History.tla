------------------------------- MODULE History -------------------------------
(***************************************************************************)
(* The SCD2 timeline of one subscription, as the rebuilder computes it     *)
(* from the snapshot row and every stored event of the key, and the        *)
(* invariants it is validated against before it may replace the history.   *)
(*                                                                         *)
(* An after-image is a record: the schema version it was written under,    *)
(* one V1 attribute that a valid payload may omit (monthly_amount), and    *)
(* the V2 attributes (billing_cycle and currency, taken as one).  Null is  *)
(* an attribute that is missing or NULL.                                   *)
(***************************************************************************)
EXTENDS DeltaMerge, SequencesExt

CONSTANTS
  Amounts,   \* values of monthly_amount
  Cycles,    \* values of the V2 attributes
  Open       \* the NULL valid_to_sequence of the current version

Attributes == [version : {1, 2}, amount : Amounts \cup {Null}, cycle : Cycles \cup {Null}]

\* What an event may carry: a V1 after-image knows no V2 attribute.
Payload == {v \in Attributes : v.version = 1 => v.cycle = Null}

ASSUME PayloadAssumption == Vals = Payload

ASSUME OpenAssumption == Open \notin Nat

Version == [from : 1..MaxSeq, to : (1..MaxSeq) \cup {Open}, current : BOOLEAN,
            deleted : BOOLEAN, id : 0..MaxId, val : Attributes]

\* The store holds one event per id.
OnePerId(events) == \A r, s \in events : r.id = s.id => r = s

\* Events of one key that share a sequence but not an id.
Collision(events) == \E r, s \in events : r.seq = s.seq /\ r.id # s.id

\* Rows of the snapshot, which knows the V1 attributes only.
SnapshotRow == {row \in Row : row.id = SnapshotId /\ row.batch = SnapshotBatch /\ ~ row.deleted
                              /\ row.val \in Payload /\ row.val.version = 1}

\* The version a row of the snapshot starts the timeline with.
BaseVersion(row) ==
  [from |-> row.seq, to |-> Open, current |-> TRUE, deleted |-> FALSE, id |-> SnapshotId,
   val |-> row.val]

\* Faulty variant of Carried: a V1 event erases the V2 attributes.
CarriedErasing(prev, r) ==
  [version |-> r.val.version,
   amount |-> IF r.op = "DELETE" \/ r.val.amount = Null THEN prev.amount ELSE r.val.amount,
   cycle |-> IF r.op = "DELETE" THEN prev.cycle ELSE r.val.cycle]

\* The attributes event r leaves, prev being those before it: a DELETE keeps
\* them, an amount that is not given is kept, a V1 event keeps the V2 ones.
Carried(prev, r) ==
  [version |-> r.val.version,
   amount |-> IF r.op = "DELETE" \/ r.val.amount = Null THEN prev.amount ELSE r.val.amount,
   cycle |-> IF r.op = "DELETE" \/ r.val.version = 1 THEN prev.cycle ELSE r.val.cycle]

\* The loop body: close the newest version and append the one of r.
Extend(timeline, r) ==
  LET last == Len(timeline)
  IN Append([timeline EXCEPT ![last].to = r.seq, ![last].current = FALSE],
            [from |-> r.seq, to |-> Open, current |-> TRUE, deleted |-> r.op = "DELETE",
             id |-> r.id, val |-> Carried(timeline[last].val, r)])

\* The loop over a sequence of events.
Replayed(row, sorted) ==
  LET after[n \in 0..Len(sorted)] ==
        IF n = 0 THEN <<BaseVersion(row)>> ELSE Extend(after[n - 1], sorted[n])
  IN after[Len(sorted)]

Earlier(r, s) == r.seq < s.seq \/ (r.seq = s.seq /\ r.id < s.id)

\* The events sorted by a total order.
Sorted(events, Before(_, _)) ==
  [i \in 1..Cardinality(events) |->
     CHOOSE r \in events : Cardinality({s \in events : Before(s, r)}) = i - 1]

\* Faulty variant of Timeline: events in the order of their ids.
TimelineById(row, events) ==
  Replayed(row, Sorted(events, LAMBDA r, s : r.id < s.id))

Timeline(row, events) == Replayed(row, Sorted(events, Earlier))

\* validate_subscription_history_invariants, 1 to 8.
Valid(timeline) ==
  LET last == Len(timeline)
  IN \A i \in 1..last :
       /\ \A j \in 1..(i - 1) : timeline[j].from < timeline[i].from
       /\ timeline[i].current <=> i = last
       /\ i = last => timeline[i].to = Open
       /\ i < last => /\ timeline[i].to # Open
                      /\ timeline[i].to > timeline[i].from
                      /\ timeline[i].to = timeline[i + 1].from

\* Invariants 9 to 11: the newest version against the current-state row;
\* cycle is its V2 column, known tells whether the table has that column.
Aligned(timeline, row, known, cycle) ==
  LET newest == Last(timeline)
  IN /\ newest.from = row.seq
     /\ newest.deleted = row.deleted
     /\ ~ row.deleted => newest.val.amount = row.val.amount
     /\ ~ row.deleted /\ known => newest.val.cycle = cycle

-----------------------------------------------------------------------------
(***************************************************************************)
(* What a timeline is for, stated without the loop.                        *)
(***************************************************************************)
\* The events at or before sequence s that satisfy P, and the last of them.
UpTo(events, s, P(_)) == {r \in events : r.seq <= s /\ P(r)}

Newest(events) == CHOOSE r \in events : \A s \in events : r.seq >= s.seq

Gives(r) == r.op # "DELETE" /\ r.val.amount # Null

GivesCycle(r) == r.op # "DELETE" /\ r.val.version = 2

\* What version v says is what the events up to its sequence say: it is the
\* last of them, and each attribute is from the last one that gave it.
Truthful(v, row, events) ==
  LET all == UpTo(events, v.from, LAMBDA r : TRUE)
      amounts == UpTo(events, v.from, Gives)
      cycles == UpTo(events, v.from, GivesCycle)
  IN /\ v.id = IF all = {} THEN SnapshotId ELSE Newest(all).id
     /\ v.deleted = (all # {} /\ Newest(all).op = "DELETE")
     /\ v.val.amount = IF amounts = {} THEN row.val.amount ELSE Newest(amounts).val.amount
     /\ v.val.cycle = IF cycles = {} THEN Null ELSE Newest(cycles).val.cycle

\* The half-open intervals of the versions cover every sequence from the
\* first one on, once: "what was the state at sequence s" has one answer.
Tiles(versions, first) ==
  \A s \in first..MaxSeq :
    \E v \in versions : \A u \in versions :
      (u.from <= s /\ (u.to = Open \/ s < u.to)) <=> u = v
=============================================================================
