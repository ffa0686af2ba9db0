------------------------------ MODULE MCHistory ------------------------------
(***************************************************************************)
(* The timeline of every set of events one key may have in the store.      *)
(***************************************************************************)
EXTENDS Timelines

CONSTANTS t1, k1, a0, a1, a2, c1, c2

Event(id, seq, op, version, amount, cycle) ==
  [id |-> id, table |-> t1, key |-> k1, seq |-> seq, op |-> op,
   val |-> [version |-> version, amount |-> amount, cycle |-> cycle], arrival |-> 0, ok |-> TRUE]

\* V1 and V2 events, with and without an amount, a delete between others,
\* ids in no order; id 8 has the sequence of the snapshot, id 9 that of id 2.
Pool == {Event(6, 2, "UPDATE", 1, a1, Null), Event(2, 3, "UPDATE", 2, a2, c1),
         Event(7, 4, "UPDATE", 1, Null, Null), Event(1, 5, "DELETE", 1, Null, Null),
         Event(5, 6, "INSERT", 1, a0, Null), Event(4, 7, "UPDATE", 2, a1, c2),
         Event(3, 8, "UPDATE", 2, a0, Null), Event(8, 1, "UPDATE", 1, a1, Null),
         Event(9, 3, "DELETE", 1, Null, Null)}

OneTable == [t \in {t1} |-> 1]

MCBase == [seq |-> 1, id |-> SnapshotId, batch |-> SnapshotBatch, deleted |-> FALSE,
           val |-> [version |-> 1, amount |-> a0, cycle |-> Null]]
=============================================================================
