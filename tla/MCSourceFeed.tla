---------------------------- MODULE MCSourceFeed -----------------------------
(***************************************************************************)
(* An instance of SourceFeed for TLC: two tables, the first in the roles   *)
(* of accounts and subscriptions (deletes, two updates of one entity, the  *)
(* late event), the second in those of invoices and payments (the change   *)
(* that is held back).                                                     *)
(***************************************************************************)
EXTENDS SourceFeed, TLC

CONSTANTS t1, t2

TwoTables == [t \in {t1, t2} |-> IF t = t1 THEN 1 ELSE 2]
MCOrder == <<t1, t2>>

MCInitial == [t \in {t1, t2} |-> 1]
MCQuota == [t \in {t1, t2} |-> 3]

OpRank(op) == CASE op = "INSERT" -> 0 [] op = "UPDATE" -> 1 [] op = "DELETE" -> 2

MCKeys == 1..7
MCVals == 0..MaxSeq

Ids ==
  [t \in {t1, t2}, k \in MCKeys, s \in 1..MaxSeq, op \in Operations |->
     1 + OpRank(op) + 3 * ((s - 1) + MaxSeq * ((k - 1) + 7 * (TwoTables[t] - 1)))]

\* A definition of its own, because TLC evaluates it once.
MCEventId == Ids

\* Any change, any rejected line, and the made-up update.
FeedLines ==
  {Change(t, k, op, s) : t \in Tables, k \in MCKeys, op \in Operations, s \in 1..MaxSeq}
  \cup {Broken(t, s) : t \in Tables, s \in 1..MaxSeq}
  \cup {Event(Subscriptions, LateKey, "UPDATE", s, LateVal, a) : s \in 1..MaxSeq, a \in {0, 2}}

MCRecords == FeedLines
=============================================================================
