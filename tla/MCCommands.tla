----------------------------- MODULE MCCommands ------------------------------
(***************************************************************************)
(* Instances of Commands for TLC.                                          *)
(***************************************************************************)
EXTENDS Commands, TLC

CONSTANTS t1, t2, k1, v1

TwoTables == [t \in {t1, t2} |-> IF t = t1 THEN 1 ELSE 2]

Line(id, table, seq, ok) ==
  [id |-> id, table |-> table, key |-> k1, seq |-> seq, op |-> "UPDATE", val |-> v1,
   arrival |-> 0, ok |-> ok]

A1  == Line(1, t1, 1, TRUE)
A2  == Line(2, t1, 2, TRUE)
A3  == Line(3, t1, 3, TRUE)
Bad == Line(4, t1, 1, FALSE)
B1  == Line(5, t2, 1, TRUE)

MCRecords == {A1, A2, A3, Bad, B1}

\* Of the first table: events on both sides of each other's marks, a rejected
\* line; of the second one event or none.
MCContents ==
  {[t \in {t1, t2} |-> IF t = t1 THEN f ELSE g] :
     f \in {{A1, A3}, {A2, Bad}}, g \in {{B1}}}

NoLegacy == [t \in {t1, t2} |-> NoFile]

Legacy(f, g) == [t \in {t1, t2} |-> IF t = t1 THEN f ELSE g]

\* Batch 1 was done: not at all, by the first table only (the other file is
\* missing, or does not list it), by both.
Done(mark) == [hwm |-> mark, completed |-> {1}]
Begun == [hwm |-> 0, completed |-> {}]
MCLegacy == {NoLegacy, Legacy(Done(2), NoFile), Legacy(Done(2), Done(1))}
NoLegacyFiles == {NoLegacy}
=============================================================================
