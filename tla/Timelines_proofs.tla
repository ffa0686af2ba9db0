-------------------------- MODULE Timelines_proofs ---------------------------
(***************************************************************************)
(* What the rebuilder's loop and validator make of any set of events the   *)
(* store may hold of a key, for every feed.                                *)
(***************************************************************************)
EXTENDS Timelines, History_proofs

\* The stored events are events of the feed, one per id.
StoredOnce == events \subseteq Records /\ OnePerId(events)

\* The store stays like that, in whatever order the events come.
LEMMA StoreKeepsOne == Spec => []StoredOnce
<1>1. Init => StoredOnce
  BY DEF Init, StoredOnce, OnePerId
<1>2. StoredOnce /\ [Next]_events => StoredOnce'
  BY DEF StoredOnce, OnePerId, Next, Store
<1>3. QED
  BY <1>1, <1>2, PTL DEF Spec

\* A timeline the validator accepts is true.
THEOREM Truth == Spec => []TimelineTruthful
<1>1. StoredOnce => TimelineTruthful
  BY BaseAssumption, RecordsAssumption, TimelineTells DEF StoredOnce, TimelineTruthful
<1>2. QED
  BY <1>1, StoreKeepsOne, PTL

\* The validator accepts the timelines of events with sequences of their own
\* above the snapshot's, and no other, and what it accepts has no gap.
THEOREM Exactness == Spec => []ValidatorExact
<1>1. ASSUME StoredOnce PROVE ValidatorExact
  <2> DEFINE t == Timeline(Base, events)
  <2>1. events \subseteq Record /\ OnePerId(events)
    BY <1>1, RecordsAssumption DEF StoredOnce
  <2>2. Valid(t) <=> ~ Collision(events) /\ \A r \in events : r.seq > Base.seq
    BY <2>1, BaseAssumption, ValidExactly
  <2>3. t \in Seq(Version) /\ Len(t) \in Nat /\ Len(t) >= 1 /\ t[1].from = Base.seq
    BY <2>1, BaseAssumption, TimelineHolds
  <2>4. Valid(t) => Tiles(ToSet(t), Base.seq)
    <3> HIDE DEF t
    <3>1. QED
      BY <2>3, ValidTiles
  <2>5. QED
    BY <2>2, <2>4 DEF ValidatorExact
<1>2. QED
  BY <1>1, StoreKeepsOne, PTL
=============================================================================
