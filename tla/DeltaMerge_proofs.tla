-------------------------- MODULE DeltaMerge_proofs --------------------------
(***************************************************************************)
(* What collapsing, classification and MERGE do to any events and any      *)
(* rows: the lemmas the proofs about the pipeline rest on.                 *)
(***************************************************************************)
EXTENDS DeltaMerge, CdcFeed_proofs

\* Among the events of a key there is a winner, of the highest sequence.
LEMMA WinnerExists ==
  ASSUME NEW events, events \subseteq Record, NEW r \in events
  PROVE  \E w \in Winners(events) : w.key = r.key /\ w.seq >= r.seq
<1> DEFINE Rivals == {s \in events : s.key = r.key}
           Seqs == {s.seq : s \in Rivals}
<1>1. Seqs \subseteq 0..MaxSeq /\ Seqs # {}
  BY BoundsAssumption DEF Record
<1>2. PICK m \in Seqs : \A n \in Seqs : n <= m
  BY <1>1, BoundsAssumption, BoundedHasMaximum
<1> DEFINE Top == {s \in Rivals : s.seq = m}
           Ids == {s.id : s \in Top}
<1>3. Ids \subseteq 0..MaxId /\ Ids # {}
  BY BoundsAssumption DEF Record
<1>4. PICK i \in Ids : \A j \in Ids : j <= i
  BY <1>3, BoundsAssumption, BoundedHasMaximum
<1>5. PICK w \in Top : w.id = i
  OBVIOUS
<1>6. ASSUME NEW s \in events, s.key = w.key PROVE Outranks(w, s)
  <2>1. s \in Rivals /\ s.seq <= m /\ w.seq = m
    BY <1>2, <1>6
  <2>2. s.seq = m => s.id <= w.id
    BY <1>4, <1>5, <2>1
  <2>3. s.seq \in Nat /\ w.seq \in Nat
    BY DEF Record
  <2>4. QED
    BY <2>1, <2>2, <2>3 DEF Outranks
<1>7. w \in Winners(events) /\ w.key = r.key
  BY <1>6 DEF Winners
<1>8. r.seq <= w.seq
  BY <1>2
<1>9. QED
  BY <1>7, <1>8 DEF Record

\* In a deduplicated set of valid records of one table, a key has one winner.
LEMMA WinnerUnique ==
  ASSUME NEW file, file \subseteq Records, NEW t,
         NEW w \in Winners(Parsed(file, t)), NEW x \in Winners(Parsed(file, t)), w.key = x.key
  PROVE  w = x
<1>1. w \in Parsed(file, t) /\ x \in Parsed(file, t)
  BY DEF Winners
<1>2. w \in Record /\ x \in Record
  BY <1>1, ParsedType
<1>3. Outranks(w, x) /\ Outranks(x, w)
  BY <1>1 DEF Winners
<1>4. w.id = x.id
  BY <1>2, <1>3, BoundsAssumption DEF Outranks, Record
<1>5. QED
  BY <1>1, <1>4, DeduplicatedIdsDiffer DEF Parsed

-----------------------------------------------------------------------------
(***************************************************************************)
(* MERGE.                                                                  *)
(***************************************************************************)

\* The row a winner leaves is a row of its sequence.
LEMMA MergedRowType ==
  ASSUME NEW row \in Row \cup {NoRow}, NEW r \in Record, NEW b \in Nat
  PROVE  /\ MergedRow(row, r, b) \in Row
         /\ MergedRow(row, r, b) # NoRow
         /\ MergedRow(row, r, b).seq = r.seq
<1> DEFINE v == IF r.op # "DELETE" THEN r.val ELSE IF row = NoRow THEN Null ELSE row.val
<1>1. v \in Vals \cup {Null}
  BY DEF Row, Record
<1>2. /\ r.seq \in 1..MaxSeq
      /\ r.id \in 0..MaxId
  BY BoundsAssumption DEF Record
<1>3. MergedRow(row, r, b) =
        [seq |-> r.seq, id |-> r.id, batch |-> b, deleted |-> r.op = "DELETE", val |-> v]
  BY DEF MergedRow
<1> HIDE DEF v
<1>4. (r.op = "DELETE") \in BOOLEAN
  OBVIOUS
<1>5. MergedRow(row, r, b) \in Row
  BY <1>1, <1>2, <1>3, <1>4 DEF Row
<1>6. MergedRow(row, r, b).seq = r.seq
  BY <1>3
<1>7. QED
  BY <1>5, <1>6, NoRowAssumption

\* Key by key, MERGE leaves the row or writes one applied candidate.
LEMMA MergeAt ==
  ASSUME NEW rows, NEW events, NEW b, NEW k \in Keys
  PROVE  \/ Applied(rows, events, k) = {} /\ Merge(rows, events, b)[k] = rows[k]
         \/ \E w \in Applied(rows, events, k) :
              Merge(rows, events, b)[k] = MergedRow(rows[k], w, b)
<1> DEFINE w == CHOOSE r \in Applied(rows, events, k) : TRUE
<1>1. Merge(rows, events, b)[k] = IF Applied(rows, events, k) = {} THEN rows[k]
                                  ELSE MergedRow(rows[k], w, b)
  BY DEF Merge
<1>2. CASE Applied(rows, events, k) # {}
  <2>1. w \in Applied(rows, events, k)
    BY <1>2
  <2>2. QED
    BY <1>1, <1>2, <2>1
<1>3. QED
  BY <1>1, <1>2

\* MERGE maps rows to rows.
LEMMA MergeType ==
  ASSUME NEW rows \in Rows, NEW events, events \subseteq Record, NEW b \in Nat
  PROVE  Merge(rows, events, b) \in Rows
<1>1. ASSUME NEW k \in Keys PROVE Merge(rows, events, b)[k] \in Row \cup {NoRow}
  <2>1. rows[k] \in Row \cup {NoRow}
    BY DEF Rows
  <2>2. \A w \in Applied(rows, events, k) : w \in Record
    BY DEF Applied, Winners
  <2>3. QED
    BY <2>1, <2>2, MergeAt, MergedRowType
<1>2. Merge(rows, events, b) = [k \in Keys |-> Merge(rows, events, b)[k]]
  BY DEF Merge
<1>3. QED
  BY <1>1, <1>2 DEF Rows

\* After MERGE every event of the batch is in the row of its key, or behind it.
LEMMA MergeCovers ==
  ASSUME NEW rows \in Rows, NEW events, events \subseteq Record, NEW b \in Nat,
         NEW r \in events
  PROVE  LET new == Merge(rows, events, b)[r.key]
         IN  new # NoRow /\ r.seq <= new.seq
<1> DEFINE k == r.key
           old == rows[k]
           new == Merge(rows, events, b)[k]
<1>1. PICK w \in Winners(events) : w.key = k /\ w.seq >= r.seq
  BY WinnerExists
<1>2. k \in Keys /\ old \in Row \cup {NoRow} /\ w \in Record /\ r \in Record
  BY DEF Record, Rows, Winners
<1>3. CASE Applied(rows, events, k) = {}
  <2>1. ~ Newer(w, old)
    BY <1>1, <1>3 DEF Applied
  <2>2. new = old
    BY <1>2, <1>3, MergeAt
  <2>3. old \in Row /\ ~ (w.seq > old.seq)
    BY <1>2, <2>1 DEF Newer
  <2>4. QED
    BY <1>1, <1>2, <2>2, <2>3, NoRowAssumption, BoundsAssumption DEF Row, Record
<1>4. CASE Applied(rows, events, k) # {}
  <2>1. PICK x \in Applied(rows, events, k) : new = MergedRow(old, x, b)
    BY <1>2, <1>4, MergeAt
  <2>2. x \in Winners(events) /\ x \in Record /\ x.key = k
    BY DEF Applied, Winners
  <2>3. Outranks(x, w) /\ w \in events
    BY <1>1, <2>2 DEF Winners
  <2>4. x.seq >= w.seq
    BY <1>2, <2>2, <2>3, BoundsAssumption DEF Outranks, Record
  <2>5. /\ MergedRow(old, x, b) # NoRow
        /\ MergedRow(old, x, b).seq = x.seq
    BY <1>2, <2>2, MergedRowType
  <2>6. QED
    BY <1>1, <1>2, <2>1, <2>2, <2>4, <2>5, BoundsAssumption DEF Record
<1>5. QED
  BY <1>3, <1>4

\* MERGE removes no row and changes a row only to one of a higher sequence.
LEMMA MergeAdvances ==
  ASSUME NEW rows \in Rows, NEW events, events \subseteq Record, NEW b \in Nat,
         NEW k \in Keys, rows[k] # NoRow
  PROVE  LET new == Merge(rows, events, b)[k]
         IN  new # NoRow /\ (new = rows[k] \/ new.seq > rows[k].seq)
<1>1. \A w \in Applied(rows, events, k) : w \in Record /\ w.seq > rows[k].seq
  BY DEF Applied, Winners, Newer
<1>2. rows[k] \in Row \cup {NoRow}
  BY DEF Rows
<1>3. QED
  BY <1>1, <1>2, MergeAt, MergedRowType

\* MERGE of events the rows already cover changes nothing: a retry is a no-op.
LEMMA MergeIdempotent ==
  ASSUME NEW rows \in Rows, NEW events, events \subseteq Record, NEW b \in Nat,
         \A r \in events : rows[r.key] # NoRow /\ r.seq <= rows[r.key].seq
  PROVE  Merge(rows, events, b) = rows
<1>1. ASSUME NEW k \in Keys PROVE Applied(rows, events, k) = {}
  <2>1. ASSUME NEW w \in Applied(rows, events, k) PROVE FALSE
    <3>1. w \in events /\ w.key = k /\ Newer(w, rows[k])
      BY DEF Applied, Winners
    <3>2. rows[k] \in Row \cup {NoRow}
      BY DEF Rows
    <3>3. QED
      BY <3>1, <3>2, BoundsAssumption DEF Newer, Row, Record
  <2>2. QED
    BY <2>1
<1>2. Merge(rows, events, b) = [k \in Keys |-> rows[k]]
  BY <1>1 DEF Merge
<1>3. QED
  BY <1>2 DEF Rows

-----------------------------------------------------------------------------
(***************************************************************************)
(* Audit records.                                                          *)
(***************************************************************************)

\* Every candidate gets one of the outcomes.
LEMMA ClassifyType ==
  ASSUME NEW r \in Record, NEW row, NEW entries
  PROVE  Classify(r, row, entries) \in Outcomes
<1>1. AppliedOutcome(r) \in AppliedOutcomes
  BY DEF AppliedOutcome, AppliedOutcomes, Record, Operations
<1>2. QED
  BY <1>1 DEF Classify, Outcomes

\* A batch stages an audit record for each of its events and no other.
LEMMA AuditAt ==
  ASSUME NEW rows, NEW entries, NEW events, events \subseteq Record, NEW i \in EventIds
  PROVE  IF \E r \in events : r.id = i
         THEN Audit(rows, entries, events)[i] \in Outcomes
         ELSE Audit(rows, entries, events)[i] = NoEntry
<1>1. CASE \E r \in events : r.id = i
  <2> DEFINE r == CHOOSE e \in events : e.id = i
  <2>1. r \in events
    BY <1>1
  <2>2. r \in Record
    BY <2>1
  <2>3. Audit(rows, entries, events)[i] =
          IF r \in Superseded(events) THEN "SUPERSEDED_WITHIN_BATCH"
          ELSE Classify(r, rows[r.key], entries)
    BY <1>1 DEF Audit
  <2>4. QED
    BY <1>1, <2>2, <2>3, ClassifyType DEF Outcomes
<1>2. CASE \A r \in events : r.id # i
  BY <1>2 DEF Audit
<1>3. QED
  BY <1>1, <1>2

\* Audit records are entries.
LEMMA AuditType ==
  ASSUME NEW rows, NEW entries, NEW events, events \subseteq Record
  PROVE  Audit(rows, entries, events) \in Entries
<1>1. \A i \in EventIds : Audit(rows, entries, events)[i] \in Outcomes \cup {NoEntry}
  BY AuditAt
<1>2. Audit(rows, entries, events) = [i \in EventIds |-> Audit(rows, entries, events)[i]]
  BY DEF Audit
<1>3. QED
  BY <1>1, <1>2 DEF Entries

\* What is staged for an event is what its classification says: it lost to a
\* winner of its key, or it is one and meets the row and the ledger as they are.
LEMMA AuditSays ==
  ASSUME NEW rows, NEW entries, NEW events, events \subseteq Record, NEW i \in EventIds,
         Audit(rows, entries, events)[i] # NoEntry
  PROVE  \E r \in events :
           /\ r.id = i
           /\ \/ /\ r \notin Winners(events)
                 /\ Audit(rows, entries, events)[i] = "SUPERSEDED_WITHIN_BATCH"
              \/ /\ r \in Winners(events)
                 /\ Audit(rows, entries, events)[i] = Classify(r, rows[r.key], entries)
<1> DEFINE r == CHOOSE e \in events : e.id = i
<1>1. \E e \in events : e.id = i
  BY AuditAt
<1>2. r \in events /\ r.id = i
  BY <1>1
<1>3. Audit(rows, entries, events)[i] =
        IF r \in Superseded(events) THEN "SUPERSEDED_WITHIN_BATCH"
        ELSE Classify(r, rows[r.key], entries)
  BY <1>1 DEF Audit
<1> HIDE DEF r
<1>4. QED
  BY <1>2, <1>3 DEF Superseded

\* A recovery is staged only for an event that a row carries and the ledger
\* lacks.
LEMMA RecoveryIsBehind ==
  ASSUME NEW rows, NEW entries, NEW events, events \subseteq Record, NEW i \in EventIds,
         Audit(rows, entries, events)[i] = "RECOVERED_AFTER_PARTIAL_COMMIT"
  PROVE  \E r \in events : r.id = i /\ Carries(rows[r.key], r) /\ entries[i] = NoEntry
<1>1. PICK r \in events :
        /\ r.id = i
        /\ Audit(rows, entries, events)[i] = Classify(r, rows[r.key], entries)
  BY AuditSays, NoEntryAssumption DEF Outcomes
<1>2. AppliedOutcome(r) \in AppliedOutcomes
  BY DEF AppliedOutcome, AppliedOutcomes, Record, Operations
<1>3. QED
  BY <1>1, <1>2 DEF Classify, AppliedOutcomes

\* A candidate the row carries is found again; one that is newer is applied.
LEMMA ClassifyExplains ==
  ASSUME NEW r \in Record, NEW row \in Row \cup {NoRow}, NEW entries,
         Carries(row, r) \/ Newer(r, row)
  PROVE  Classify(r, row, entries) \in
           AppliedOutcomes \cup {"ALREADY_APPLIED", "RECOVERED_AFTER_PARTIAL_COMMIT"}
<1>1. AppliedOutcome(r) \in AppliedOutcomes
  BY DEF AppliedOutcome, AppliedOutcomes, Record, Operations
<1>2. QED
  BY <1>1 DEF Classify

\* Upsert keeps every entry there is and adds the new ones.
LEMMA UpsertKeeps ==
  ASSUME NEW entries \in Entries, NEW new \in Entries
  PROVE  /\ Upsert(entries, new) \in Entries
         /\ \A i \in EventIds : entries[i] # NoEntry \/ new[i] # NoEntry
                                => Upsert(entries, new)[i] # NoEntry
  BY DEF Upsert, Entries
=============================================================================
