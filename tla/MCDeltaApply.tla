--------------------------- MODULE MCDeltaApply ------------------------------
(***************************************************************************)
(* Instances of DeltaApply for TLC.                                        *)
(***************************************************************************)
EXTENDS DeltaApply, TLC

CONSTANTS t1, t2, k1, k2, v0, v1, v2

\* A record that passed validation.
Line(id, table, key, seq, op, val, arrival) ==
  [id |-> id, table |-> table, key |-> key, seq |-> seq, op |-> op, val |-> val,
   arrival |-> arrival, ok |-> TRUE]

BadLine(id, table) ==
  [id |-> id, table |-> table, key |-> k1, seq |-> 1, op |-> "INSERT", val |-> v1,
   arrival |-> 0, ok |-> FALSE]

OneTable == [t \in {t1} |-> 1]
TwoTables == [t \in {t1, t2} |-> IF t = t1 THEN 1 ELSE 2]

SnapshotRow == [seq |-> 1, id |-> SnapshotId, batch |-> SnapshotBatch, deleted |-> FALSE, val |-> v0]

\* Of the first table, k1 is in the snapshot; no other key is.
MCSnapshot == [t \in Tables |-> [k \in Keys |-> IF t = t1 /\ k = k1 THEN SnapshotRow ELSE NoRow]]

\* One table: an update and a differing copy of it, a delete and an update of
\* the same sequence, a re-insert, the delete of an unknown key and its late
\* insert.
Update     == Line(7, t1, k1, 2, "UPDATE", v1, 1)
UpdateCopy == Line(7, t1, k1, 2, "UPDATE", v2, 0)
Delete     == Line(3, t1, k1, 3, "DELETE", v1, 0)
Tied       == Line(5, t1, k1, 3, "UPDATE", v2, 0)
Reinsert   == Line(2, t1, k1, 4, "INSERT", v1, 0)
Orphan     == Line(6, t1, k2, 2, "DELETE", v1, 0)
LateInsert == Line(4, t1, k2, 1, "INSERT", v1, 0)

OneTableRecords == {Update, UpdateCopy, Delete, Tied, Reinsert, Orphan, LateInsert}

OneTableContents ==
  {[t \in {t1} |-> f] :
     f \in {{r} : r \in OneTableRecords} \cup
           {{Update, UpdateCopy}, {Update, Delete}, {Delete, Tied}, {Delete, Reinsert},
            {Tied, Orphan}}}

\* Two tables, each with two events of a key; a rejected line, and an event
\* of the second table that may also turn up in the file of the first.
Update1 == Line(4, t1, k1, 2, "UPDATE", v1, 0)
Delete1 == Line(2, t1, k1, 3, "DELETE", v1, 0)
Bad1    == BadLine(1, t1)
Insert2 == Line(5, t2, k1, 2, "INSERT", v1, 0)
Update2 == Line(3, t2, k1, 3, "UPDATE", v2, 0)

TwoTablesRecords == {Update1, Delete1, Bad1, Insert2, Update2}

TwoTablesContents ==
  {[t \in {t1, t2} |-> IF t = t1 THEN f ELSE g] :
     f \in {{}, {Update1}, {Delete1}, {Update1, Delete1}, {Update1, Bad1}, {Bad1}, {Update2}},
     g \in {{}, {Insert2, Update2}}}
=============================================================================
