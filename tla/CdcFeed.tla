------------------------------- MODULE CdcFeed -------------------------------
(***************************************************************************)
(* The change feed of the pipeline and what one table file of a batch      *)
(* becomes on its way to a Delta MERGE: validated, deduplicated, routed to *)
(* its table and bounded by its sequence numbers.                          *)
(*                                                                         *)
(* A record stands for one JSONL line.  Its id is the SHA-256 event_id,    *)
(* taken as the number its hex digits spell because MERGE breaks ties by   *)
(* comparing ids; val is the parsed after-image; arrival is its place in   *)
(* the order deduplication prefers copies in (ingested_timestamp with      *)
(* nulls last, source_sequence, canonical hash); ok is the verdict of      *)
(* validate_event_row.  The fields of a record that is not ok are whatever *)
(* the line held and are never read.                                       *)
(***************************************************************************)
EXTENDS Integers, Sequences, FiniteSetsExt

CONSTANTS
  Tables,     \* SUPPORTED_TABLES
  TableRank,  \* the place of a table in sorted(SUPPORTED_TABLES)
  Keys,       \* business keys
  Vals,       \* after-images of a row's business attributes
  Null,       \* the all-NULL attributes of a protective tombstone
  Records,    \* the lines a feed may hold
  MaxSeq,     \* largest source_sequence (a signed 64-bit long in the code)
  MaxId       \* largest event id (a 256-bit hash in the code)

Operations == {"INSERT", "UPDATE", "DELETE"}

Record == [id : 1..MaxId, table : Tables, key : Keys, seq : 1..MaxSeq,
           op : Operations, val : Vals, arrival : Nat, ok : BOOLEAN]

\* The files of one batch directory; a missing file and an empty one are
\* treated alike, so both are the empty set.
BatchFiles == [Tables -> SUBSET Records]

EventIds == {r.id : r \in Records}

ASSUME BoundsAssumption == MaxSeq \in Nat /\ MaxId \in Nat

ASSUME TablesAssumption ==
  /\ TableRank \in [Tables -> Nat]
  /\ \A t, u \in Tables : TableRank[t] = TableRank[u] => t = u

ASSUME RecordsAssumption == Records \subseteq Record

\* event_id is the hash of (table, key, sequence, operation) and validation
\* recomputes it: valid records share an id exactly when they agree on these.
ASSUME IdentityAssumption ==
  \A r, s \in Records : r.ok /\ s.ok =>
    (r.id = s.id <=> <<r.table, r.key, r.seq, r.op>> = <<s.table, s.key, s.seq, s.op>>)

\* Copies of one event that are not byte-identical differ in their hash.
ASSUME CopiesAssumption ==
  \A r, s \in Records : r.ok /\ s.ok /\ r.id = s.id /\ r.arrival = s.arrival => r = s

-----------------------------------------------------------------------------
Rejected(file) == {r \in file : ~ r.ok}

Accepted(file) == {r \in file : r.ok}

\* One record per event_id, the first in the deduplication order.
Deduplicated(file) ==
  {r \in Accepted(file) : \A s \in Accepted(file) : s.id = r.id => r.arrival <= s.arrival}

\* What reaches the MERGE of table t: rows of another source_table are
\* filtered out here, after they were validated and deduplicated.
Parsed(file, t) == {r \in Deduplicated(file) : r.table = t}

\* The max_seq of the batch, taken over every deduplicated record; 0 if none.
HighestSequence(file) == Max({0} \cup {r.seq : r \in Deduplicated(file)})

\* The table of S the pipeline's sorted loops visit first.
IsFirst(t, S) == t \in S /\ \A u \in S : TableRank[t] <= TableRank[u]
=============================================================================
