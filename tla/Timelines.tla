------------------------------ MODULE Timelines ------------------------------
(***************************************************************************)
(* The timeline of one key while the event store gathers its events: they  *)
(* come in any order, one per event id, and every set of them must give a  *)
(* timeline that is true or that the validator refuses.                    *)
(***************************************************************************)
EXTENDS History

CONSTANT Base    \* the row of the key in the snapshot

ASSUME BaseAssumption == Base \in SnapshotRow

VARIABLE events  \* the stored events of the key

Init == events = {}

\* upsert_to_event_store inserts an event whose id is not stored yet.
Store(r) ==
  /\ \A s \in events : s.id # r.id /\ s.table = r.table /\ s.key = r.key
  /\ events' = events \cup {r}

Next == \E r \in Records : Store(r)

Spec == Init /\ [][Next]_events

(***************************************************************************)
(* A timeline the validator accepts is true: each version is what the      *)
(* events up to its sequence say, attribute by attribute, V1 and V2 and    *)
(* deletes in any order (reconstruct_subscription_timeline_for_key).       *)
(***************************************************************************)
TimelineTruthful ==
  LET t == Timeline(Base, events)
  IN Valid(t) => \A i \in 1..Len(t) : Truthful(t[i], Base, events)

(***************************************************************************)
(* The validator accepts exactly the timelines of events with sequences of *)
(* their own, above that of the snapshot, and these answer every question  *)
(* once (validate_subscription_history_invariants, 1 to 8).                *)
(***************************************************************************)
ValidatorExact ==
  LET t == Timeline(Base, events)
  IN /\ Valid(t) <=> ~ Collision(events) /\ \A r \in events : r.seq > Base.seq
     /\ Valid(t) => Tiles(ToSet(t), Base.seq)
=============================================================================
