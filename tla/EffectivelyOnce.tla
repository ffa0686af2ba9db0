--------------------------- MODULE EffectivelyOnce ---------------------------
(***************************************************************************)
(* What the apply pipeline promises about the current-state tables: every  *)
(* batch takes effect on every table exactly once, in batch order, and its *)
(* effect on a key is that of one of the newest valid events the batch has *)
(* for the key, if it is newer than the row.  Processes, crashes, retries, *)
(* checkpoints and ledgers do not appear.                                  *)
(***************************************************************************)
EXTENDS CdcFeed

CONSTANTS NoRow, Snapshot, BatchContents, MaxBatches

VARIABLES cdc, created, rows, applied

onceVars == <<cdc, created, rows, applied>>

Init ==
  /\ cdc = << >>
  /\ created = {}
  /\ rows = [t \in Tables |-> [k \in Keys |-> NoRow]]
  /\ applied = [t \in Tables |-> {}]

Land ==
  /\ \E files \in BatchContents : cdc' = Append(cdc, files)
  /\ UNCHANGED <<created, rows, applied>>

Create(t) ==
  /\ t \notin created
  /\ created' = created \cup {t}
  /\ rows' = [rows EXCEPT ![t] = Snapshot[t]]
  /\ UNCHANGED <<cdc, applied>>

\* The row an event leaves behind.
Written(old, r, b) ==
  [seq |-> r.seq, id |-> r.id, batch |-> b, deleted |-> r.op = "DELETE",
   val |-> IF r.op # "DELETE" THEN r.val ELSE IF old = NoRow THEN Null ELSE old.val]

\* new is what old becomes when events happen to it in batch b.
LatestWins(old, new, events, b) ==
  LET newer == {r \in events : old = NoRow \/ r.seq > old.seq}
  IN \/ newer = {} /\ new = old
     \/ \E r \in newer : (\A s \in newer : s.seq <= r.seq) /\ new = Written(old, r, b)

Apply(t, b) ==
  /\ created = Tables
  /\ b \notin applied[t] /\ \A c \in 1..(b - 1) : c \in applied[t]
  /\ applied' = [applied EXCEPT ![t] = @ \cup {b}]
  /\ \A u \in Tables \ {t} : rows'[u] = rows[u]
  /\ \A k \in Keys : LatestWins(rows[t][k], rows'[t][k],
                                {r \in Accepted(cdc[b][t]) : r.table = t /\ r.key = k}, b)
  /\ UNCHANGED <<cdc, created>>

Next ==
  \/ Land
  \/ \E t \in Tables : Create(t) \/ \E b \in 1..Len(cdc) : Apply(t, b)

Spec == Init /\ [][Next]_onceVars
=============================================================================
