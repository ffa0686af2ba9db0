------------------------------ MODULE MCReplay -------------------------------
(***************************************************************************)
(* Instances of Replay for TLC.                                            *)
(***************************************************************************)
EXTENDS Replay

CONSTANTS subs, other, k1, k2, a0, a1, a2, c1

Line(id, key, seq, op, val, arrival) ==
  [id |-> id, table |-> subs, key |-> key, seq |-> seq, op |-> op, val |-> val,
   arrival |-> arrival, ok |-> TRUE]

Image(version, amount, cycle) == [version |-> version, amount |-> amount, cycle |-> cycle]

TablesRank == [t \in {subs, other} |-> IF t = other THEN 1 ELSE 2]

\* k1 is in the snapshot, k2 is not.
MCBaseline ==
  [k \in Keys |-> IF k = k1
     THEN [seq |-> 1, id |-> SnapshotId, batch |-> SnapshotBatch, deleted |-> FALSE,
           val |-> Image(1, a0, Null)]
     ELSE NoRow]

\* An update and a differing copy, a V2 update, a delete, an event that shares
\* the sequence of the delete, two
\* events of the key without a baseline, and a V1 re-insert.
Update     == Line(6, k1, 2, "UPDATE", Image(1, a1, Null), 1)
UpdateCopy == Line(6, k1, 2, "UPDATE", Image(1, a2, Null), 0)
UpdateV2   == Line(3, k1, 3, "UPDATE", Image(2, a2, c1), 0)
Delete     == Line(4, k1, 4, "DELETE", Image(1, Null, Null), 0)
Tied       == Line(5, k1, 4, "UPDATE", Image(1, a2, Null), 0)
Unknown    == Line(2, k2, 2, "INSERT", Image(1, a1, Null), 0)
Unknown2   == Line(1, k2, 3, "UPDATE", Image(1, a2, Null), 0)

Reinsert   == Line(7, k1, 5, "INSERT", Image(1, a1, Null), 0)

MCRecords == {Update, UpdateCopy, UpdateV2, Delete, Tied, Unknown, Unknown2, Reinsert}

File(f) == [t \in Tables |-> IF t = subs THEN f ELSE {}]

\* A batch with the event of a key in the file of the other table.
Misrouted(f) == [t \in Tables |-> IF t = other THEN f ELSE {}]

LaneContents ==
  {File({Update, Delete}), File({UpdateV2}), File({Reinsert}), File({UpdateCopy}), Misrouted({Update})}

\* One late event that can be replayed and one that cannot.
FewContents == {File({Update, UpdateV2}), File({Unknown, Unknown2})}

MixedContents ==
  {File({Update}), File({UpdateV2}), File({Delete, Update}), File({UpdateCopy}), File({Tied}),
   File({Unknown, Unknown2}), Misrouted({Update})}
=============================================================================
