--------------------------- MODULE History_proofs ----------------------------
(***************************************************************************)
(* What the rebuilder's loop makes of any set of stored events of a key:   *)
(* the sorted list of them, the version each leaves, and what the          *)
(* validator's first eight invariants say about the result.                *)
(***************************************************************************)
EXTENDS History, DeltaMerge_proofs, FiniteSetTheorems, SequenceTheorems

-----------------------------------------------------------------------------
(***************************************************************************)
(* The loop.  A LET function is a CHOOSE: that a function satisfies the    *)
(* recursion is shown by the least number of events for which none does.   *)
(***************************************************************************)
\* The recursion of the loop, over the first n events.
Follows(after, row, sorted, n) ==
  after = [i \in 0..n |-> IF i = 0 THEN <<BaseVersion(row)>> ELSE Extend(after[i - 1], sorted[i])]

\* The loop can be run over any number of events.
LEMMA LoopRuns ==
  ASSUME NEW row, NEW sorted, NEW n \in Nat
  PROVE  \E after : Follows(after, row, sorted, n)
<1> DEFINE Bad == {m \in Nat : ~ \E after : Follows(after, row, sorted, m)}
<1>1. SUFFICES ASSUME Bad # {} PROVE FALSE
  OBVIOUS
<1>2. PICK m \in Bad : \A b \in Bad : m <= b
  BY <1>1, NatHasMinimum
<1>3. CASE m = 0
  <2> DEFINE after == [i \in 0..0 |-> <<BaseVersion(row)>>]
  <2>1. Follows(after, row, sorted, 0)
    BY DEF Follows
  <2>2. QED
    BY <2>1, <1>3, <1>2
<1>4. CASE m # 0
  <2>1. m - 1 \in Nat /\ m - 1 \notin Bad
    BY <1>2, <1>4
  <2>2. PICK before : Follows(before, row, sorted, m - 1)
    BY <2>1
  <2> DEFINE after == [i \in 0..m |-> IF i = m THEN Extend(before[m - 1], sorted[m]) ELSE before[i]]
  <2>3. before = [i \in 0..(m - 1) |-> IF i = 0 THEN <<BaseVersion(row)>>
                                       ELSE Extend(before[i - 1], sorted[i])]
    BY <2>2 DEF Follows
  <2>4. ASSUME NEW i \in 0..m
        PROVE  after[i] = IF i = 0 THEN <<BaseVersion(row)>> ELSE Extend(after[i - 1], sorted[i])
    <3>1. CASE i = m
      BY <3>1, <1>4, <2>1
    <3>2. CASE i # m
      <4>1. i \in 0..(m - 1) /\ (i # 0 => i - 1 \in 0..(m - 1) /\ i - 1 # m)
        BY <3>2, <2>1
      <4>2. before[i] = IF i = 0 THEN <<BaseVersion(row)>> ELSE Extend(before[i - 1], sorted[i])
        BY <4>1, <2>3
      <4>3. after[i] = before[i] /\ (i # 0 => after[i - 1] = before[i - 1])
        BY <4>1, <3>2, <2>1
      <4>4. QED
        BY <4>2, <4>3
    <3>3. QED
      BY <3>1, <3>2
  <2> HIDE DEF after
  <2>5. after = [i \in 0..m |-> after[i]]
    BY DEF after
  <2>6. Follows(after, row, sorted, m)
    BY <2>4, <2>5 DEF Follows
  <2>7. QED
    BY <2>6, <1>2
<1>5. QED
  BY <1>3, <1>4

\* The result of the loop is what it has after the last event.
LEMMA ReplayedUnfolds ==
  ASSUME NEW row, NEW sorted, Len(sorted) \in Nat
  PROVE  \E after : Follows(after, row, sorted, Len(sorted)) /\ Replayed(row, sorted) = after[Len(sorted)]
<1> DEFINE after == CHOOSE after : after = [n \in 0..Len(sorted) |->
                      IF n = 0 THEN <<BaseVersion(row)>> ELSE Extend(after[n - 1], sorted[n])]
<1>1. \E f : f = [n \in 0..Len(sorted) |->
                      IF n = 0 THEN <<BaseVersion(row)>> ELSE Extend(f[n - 1], sorted[n])]
  <2>1. PICK f : Follows(f, row, sorted, Len(sorted))
    BY LoopRuns
  <2>2. f = [n \in 0..Len(sorted) |->
               IF n = 0 THEN <<BaseVersion(row)>> ELSE Extend(f[n - 1], sorted[n])]
    BY <2>1 DEF Follows
  <2>3. QED
    BY <2>2
<1>2. Follows(after, row, sorted, Len(sorted))
  BY <1>1 DEF Follows
<1>3. Replayed(row, sorted) = after[Len(sorted)]
  BY DEF Replayed
<1>4. QED
  BY <1>2, <1>3

\* What the loop has after n events: a version for the snapshot and one for
\* each event, each closed by the next, its attributes carried over.
Looped(t, row, sorted, n) ==
  /\ t \in Seq(Version) /\ Len(t) = n + 1
  /\ t[1].from = row.seq /\ t[1].id = SnapshotId /\ t[1].deleted = FALSE /\ t[1].val = row.val
  /\ \A i \in 1..n :
       /\ t[i].to = sorted[i].seq /\ t[i].current = FALSE
       /\ t[i + 1].from = sorted[i].seq /\ t[i + 1].id = sorted[i].id
       /\ t[i + 1].deleted = (sorted[i].op = "DELETE")
       /\ t[i + 1].val = Carried(t[i].val, sorted[i])
  /\ t[n + 1].to = Open /\ t[n + 1].current = TRUE

\* The attributes carried to a version are attributes.
LEMMA CarriedType ==
  ASSUME NEW prev \in Attributes, NEW r \in Record
  PROVE  Carried(prev, r) \in Attributes
<1>1. r.val \in Attributes
  BY PayloadAssumption DEF Record, Payload
<1>2. QED
  BY <1>1 DEF Carried, Attributes

\* The version of the snapshot is a version.
LEMMA BaseVersionType ==
  ASSUME NEW row \in SnapshotRow
  PROVE  BaseVersion(row) \in Version
<1>1. row \in Row /\ row.val \in Attributes
  BY DEF SnapshotRow, Payload
<1>2. QED
  BY <1>1, BoundsAssumption DEF Row, BaseVersion, Version, SnapshotId

\* One pass of the loop.
LEMMA ExtendLoops ==
  ASSUME NEW row, NEW sorted, NEW n \in Nat, NEW t, Looped(t, row, sorted, n),
         sorted[n + 1] \in Record
  PROVE  Looped(Extend(t, sorted[n + 1]), row, sorted, n + 1)
<1> DEFINE r == sorted[n + 1]
           new == [from |-> r.seq, to |-> Open, current |-> TRUE, deleted |-> r.op = "DELETE",
                   id |-> r.id, val |-> Carried(t[n + 1].val, r)]
           closed == [t EXCEPT ![n + 1].to = r.seq, ![n + 1].current = FALSE]
           u == Extend(t, r)
<1>1. t \in Seq(Version) /\ Len(t) = n + 1 /\ t[n + 1] \in Version
  BY DEF Looped
<1>2. r.seq \in 1..MaxSeq /\ r.id \in 1..MaxId
  BY DEF Record
<1>3. new \in Version
  BY <1>1, <1>2, CarriedType DEF Version
<1>4. /\ closed \in Seq(Version) /\ Len(closed) = n + 1
      /\ \A i \in 1..n : closed[i] = t[i]
      /\ closed[n + 1] = [t[n + 1] EXCEPT !.to = r.seq, !.current = FALSE]
  <2> DEFINE v == [t[n + 1] EXCEPT !.to = r.seq, !.current = FALSE]
  <2>1. v \in Version
    BY <1>1, <1>2 DEF Version
  <2>2. closed = [t EXCEPT ![n + 1] = v]
    BY <1>1
  <2> HIDE DEF v
  <2>3. n + 1 \in 1..Len(t)
    BY <1>1
  <2>4. /\ closed \in Seq(Version) /\ Len(closed) = n + 1
        /\ closed[n + 1] = v /\ \A i \in 1..n : closed[i] = t[i]
    <3> DEFINE w == [t EXCEPT ![n + 1] = v]
    <3>1. /\ w \in Seq(Version) /\ Len(w) = Len(t)
          /\ \A j \in 1..Len(t) : w[j] = IF j = n + 1 THEN v ELSE t[j]
      BY <1>1, <2>1, <2>3, ExceptSeq
    <3>2. closed = w
      BY <2>2
    <3> HIDE DEF w, closed
    <3>3. \A i \in 1..n : i \in 1..Len(t) /\ i # n + 1
      BY <1>1
    <3>4. QED
      BY <1>1, <2>3, <3>1, <3>2, <3>3
  <2>5. QED
    BY <2>4 DEF v
<1>5. u = Append(closed, new)
  BY <1>1 DEF Extend
<1> HIDE DEF u, closed, new
<1>6. /\ u \in Seq(Version) /\ Len(u) = n + 2
      /\ \A i \in 1..n : u[i] = t[i]
      /\ u[n + 1] = [t[n + 1] EXCEPT !.to = r.seq, !.current = FALSE]
      /\ u[n + 2] = new
  BY <1>3, <1>4, <1>5
<1>7. /\ u[n + 1].to = r.seq /\ u[n + 1].current = FALSE
      /\ u[n + 1].from = t[n + 1].from /\ u[n + 1].id = t[n + 1].id
      /\ u[n + 1].deleted = t[n + 1].deleted /\ u[n + 1].val = t[n + 1].val
  BY <1>1, <1>6 DEF Version
<1>8. /\ u[n + 2].from = r.seq /\ u[n + 2].to = Open /\ u[n + 2].current = TRUE
      /\ u[n + 2].deleted = (r.op = "DELETE") /\ u[n + 2].id = r.id
      /\ u[n + 2].val = Carried(u[n + 1].val, r)
  BY <1>6, <1>7 DEF new
<1>9. u[1].from = t[1].from /\ u[1].id = t[1].id /\ u[1].deleted = t[1].deleted /\ u[1].val = t[1].val
  <2>1. CASE n = 0
    BY <2>1, <1>7
  <2>2. CASE n # 0
    <3>1. 1 \in 1..n
      BY <2>2
    <3>2. QED
      BY <3>1, <1>6
  <2>3. QED
    BY <2>1, <2>2
<1>10. ASSUME NEW i \in 1..(n + 1)
       PROVE  /\ u[i].to = sorted[i].seq /\ u[i].current = FALSE
              /\ u[i + 1].from = sorted[i].seq /\ u[i + 1].id = sorted[i].id
              /\ u[i + 1].deleted = (sorted[i].op = "DELETE")
              /\ u[i + 1].val = Carried(u[i].val, sorted[i])
  <2>1. CASE i = n + 1
    BY <2>1, <1>7, <1>8
  <2>2. CASE i # n + 1
    <3>1. i \in 1..n /\ u[i] = t[i]
      BY <2>2, <1>6
    <3>2. /\ t[i].to = sorted[i].seq /\ t[i].current = FALSE
          /\ t[i + 1].from = sorted[i].seq /\ t[i + 1].id = sorted[i].id
          /\ t[i + 1].deleted = (sorted[i].op = "DELETE")
          /\ t[i + 1].val = Carried(t[i].val, sorted[i])
      BY <3>1 DEF Looped
    <3>3. /\ u[i + 1].from = t[i + 1].from /\ u[i + 1].id = t[i + 1].id
          /\ u[i + 1].deleted = t[i + 1].deleted /\ u[i + 1].val = t[i + 1].val
      <4>1. CASE i = n
        BY <4>1, <1>7
      <4>2. CASE i # n
        BY <4>2, <3>1, <1>6
      <4>3. QED
        BY <4>1, <4>2
    <3>4. QED
      BY <3>1, <3>2, <3>3
  <2>3. QED
    BY <2>1, <2>2
<1>11. /\ t[1].from = row.seq /\ t[1].id = SnapshotId /\ t[1].deleted = FALSE /\ t[1].val = row.val
  BY DEF Looped
<1>12. Looped(u, row, sorted, n + 1)
  <2>1. (n + 1) + 1 = n + 2
    OBVIOUS
  <2>2. /\ u[(n + 1) + 1].to = Open /\ u[(n + 1) + 1].current = TRUE
        /\ Len(u) = (n + 1) + 1
    BY <1>6, <1>8, <2>1
  <2>3. u[1].from = row.seq /\ u[1].id = SnapshotId /\ u[1].deleted = FALSE /\ u[1].val = row.val
    BY <1>9, <1>11
  <2>4. QED
    BY <1>6, <1>10, <2>2, <2>3 DEF Looped
<1>13. QED
  BY <1>12 DEF u

\* What the loop makes of a sequence of events.
LEMMA ReplayedLoops ==
  ASSUME NEW row \in SnapshotRow, NEW sorted \in Seq(Record)
  PROVE  Looped(Replayed(row, sorted), row, sorted, Len(sorted))
<1> DEFINE N == Len(sorted)
<1>1. PICK after : Follows(after, row, sorted, N) /\ Replayed(row, sorted) = after[N]
  BY ReplayedUnfolds
<1>2. /\ after[0] = <<BaseVersion(row)>>
      /\ \A n \in 1..N : after[n] = Extend(after[n - 1], sorted[n])
  <2>1. \A n \in 0..N : after[n] = IF n = 0 THEN <<BaseVersion(row)>>
                                   ELSE Extend(after[n - 1], sorted[n])
    BY <1>1 DEF Follows
  <2>2. QED
    BY <2>1
<1> DEFINE Bad == {n \in 0..N : ~ Looped(after[n], row, sorted, n)}
<1>3. ASSUME Bad # {} PROVE FALSE
  <2>0. N \in Nat /\ Bad \subseteq Nat
    OBVIOUS
  <2>1. PICK m \in Bad : \A b \in Bad : m <= b
    BY <1>3, <2>0, NatHasMinimum
  <2>2. CASE m = 0
    <3>1. Looped(<<BaseVersion(row)>>, row, sorted, 0)
      BY BaseVersionType DEF Looped, BaseVersion
    <3>2. QED
      BY <2>1, <2>2, <3>1, <1>2
  <2>3. CASE m # 0
    <3>1. m - 1 \in Nat /\ m - 1 \in 0..N /\ m - 1 \notin Bad /\ m \in 1..N
      BY <2>1, <2>3
    <3>2. Looped(after[m - 1], row, sorted, m - 1) /\ sorted[(m - 1) + 1] \in Record
      BY <3>1
    <3>3. Looped(Extend(after[m - 1], sorted[(m - 1) + 1]), row, sorted, (m - 1) + 1)
      BY <3>1, <3>2, ExtendLoops
    <3>4. (m - 1) + 1 = m
      BY <3>1
    <3>5. QED
      BY <1>2, <3>1, <3>3, <3>4, <2>1
  <2>4. QED
    BY <2>2, <2>3
<1>4. QED
  BY <1>1, <1>3

-----------------------------------------------------------------------------
(***************************************************************************)
(* The order of the events: Sorted puts an event at its rank, the number   *)
(* of events before it, and every rank is taken once.                      *)
(***************************************************************************)
\* The events the loop takes before r, and how many they are.
Before(events, r) == {s \in events : Earlier(s, r)}

Rank(events, r) == Cardinality(Before(events, r))

\* Such a set of events is finite: it has no more of them than there are ids.
LEMMA EventsFinite ==
  ASSUME NEW events, events \subseteq Record, OnePerId(events)
  PROVE  IsFiniteSet(events) /\ Cardinality(events) \in Nat
<1> DEFINE f == [r \in events |-> r.id]
<1>1. f \in Injection(events, 1..MaxId)
  BY DEF Injection, IsInjective, OnePerId, Record
<1>2. IsFiniteSet(1..MaxId)
  BY BoundsAssumption, FS_Interval
<1>3. IsFiniteSet(events)
  BY <1>1, <1>2, FS_Injection
<1>4. QED
  BY <1>3, FS_CardinalityType

\* Earlier is a strict total order of them.
LEMMA EarlierOrders ==
  ASSUME NEW events, events \subseteq Record, OnePerId(events)
  PROVE  /\ \A r \in events : ~ Earlier(r, r)
         /\ \A r, s \in events : r = s \/ Earlier(r, s) \/ Earlier(s, r)
         /\ \A r, s, u \in events : Earlier(r, s) /\ Earlier(s, u) => Earlier(r, u)
         /\ \A r, s \in events : ~ (Earlier(r, s) /\ Earlier(s, r))
<1>1. \A r \in events : r.seq \in Nat /\ r.id \in Nat
  BY BoundsAssumption DEF Record
<1>2. \A r, s \in events : r.id = s.id => r = s
  BY DEF OnePerId
<1>3. QED
  BY <1>1, <1>2 DEF Earlier

\* A rank counts fewer events than there are.
LEMMA RankType ==
  ASSUME NEW events, events \subseteq Record, OnePerId(events), NEW r \in events
  PROVE  Rank(events, r) \in 0..(Cardinality(events) - 1)
<1>1. IsFiniteSet(events) /\ Cardinality(events) \in Nat
  BY EventsFinite
<1>2. Before(events, r) \subseteq events \ {r}
  BY EarlierOrders DEF Before
<1>3. /\ IsFiniteSet(events \ {r})
      /\ Cardinality(events \ {r}) = Cardinality(events) - 1
  BY <1>1, FS_RemoveElement
<1>4. IsFiniteSet(Before(events, r)) /\ Rank(events, r) <= Cardinality(events \ {r})
  BY <1>2, <1>3, FS_Subset DEF Rank
<1>5. Rank(events, r) \in Nat
  BY <1>4, FS_CardinalityType DEF Rank
<1>6. QED
  BY <1>1, <1>3, <1>4, <1>5

\* An earlier event has a lower rank.
LEMMA RankRises ==
  ASSUME NEW events, events \subseteq Record, OnePerId(events),
         NEW r \in events, NEW s \in events, Earlier(r, s)
  PROVE  Rank(events, r) < Rank(events, s)
<1>1. IsFiniteSet(events)
  BY EventsFinite
<1>2. Before(events, r) \subseteq Before(events, s) /\ r \in Before(events, s) /\ r \notin Before(events, r)
  BY EarlierOrders DEF Before
<1>3. IsFiniteSet(Before(events, s))
  <2>1. Before(events, s) \subseteq events
    BY DEF Before
  <2>2. QED
    BY <1>1, <2>1, FS_Subset
<1>4. /\ Rank(events, r) <= Rank(events, s)
      /\ Rank(events, s) = Rank(events, r) => Before(events, s) = Before(events, r)
  BY <1>2, <1>3, FS_Subset DEF Rank
<1>5. Rank(events, r) \in Nat /\ Rank(events, s) \in Nat
  BY RankType, EventsFinite
<1>6. QED
  BY <1>2, <1>4, <1>5

\* Every rank is the rank of one event.
LEMMA RanksTaken ==
  ASSUME NEW events, events \subseteq Record, OnePerId(events),
         NEW n \in 0..(Cardinality(events) - 1)
  PROVE  \E r \in events : Rank(events, r) = n
<1> DEFINE N == Cardinality(events)
           f == [r \in events |-> Rank(events, r)]
<1>1. N \in Nat /\ IsFiniteSet(events)
  BY EventsFinite
<1>2. f \in [events -> 0..(N - 1)]
  BY RankType
<1>3. ASSUME NEW r \in events, NEW s \in events, Rank(events, r) = Rank(events, s) PROVE r = s
  <2>1. Rank(events, r) \in Nat /\ Rank(events, s) \in Nat
    BY RankType, <1>1
  <2>2. ~ Earlier(r, s) /\ ~ Earlier(s, r)
    BY <1>3, <2>1, RankRises
  <2>3. QED
    BY <2>2, EarlierOrders
<1>4. f \in Injection(events, 0..(N - 1))
  BY <1>2, <1>3 DEF Injection, IsInjective
<1>5. IsFiniteSet(0..(N - 1)) /\ Cardinality(0..(N - 1)) = N
  <2> DEFINE M == N - 1
  <2>1. M \in Int /\ 0 \in Int
    BY <1>1
  <2>2. /\ IsFiniteSet(0..M)
        /\ Cardinality(0..M) = IF 0 > M THEN 0 ELSE M - 0 + 1
    <3> HIDE DEF M
    <3>1. QED
      BY <2>1, FS_Interval
  <2>3. QED
    BY <1>1, <2>2
<1>6. f \in Surjection(events, 0..(N - 1))
  BY <1>4, <1>5, FS_Injection
<1>7. QED
  BY <1>6 DEF Surjection

\* The loop meets every event once, earlier ones first.
LEMMA SortedOrders ==
  ASSUME NEW events, events \subseteq Record, OnePerId(events)
  PROVE  LET sorted == Sorted(events, Earlier)
         IN  /\ sorted \in Seq(events) /\ Len(sorted) = Cardinality(events)
             /\ \A r \in events : \E i \in 1..Len(sorted) : sorted[i] = r
             /\ \A i, j \in 1..Len(sorted) : i < j => Earlier(sorted[i], sorted[j])
<1> DEFINE N == Cardinality(events)
           sorted == Sorted(events, Earlier)
<1>1. N \in Nat
  BY EventsFinite
<1>2. sorted = [i \in 1..N |-> CHOOSE r \in events : Rank(events, r) = i - 1]
  BY DEF Sorted, Rank, Before
<1> HIDE DEF sorted
<1>3. ASSUME NEW i \in 1..N PROVE sorted[i] \in events /\ Rank(events, sorted[i]) = i - 1
  <2>1. i - 1 \in 0..(N - 1)
    BY <1>1
  <2>2. \E r \in events : Rank(events, r) = i - 1
    BY <2>1, RanksTaken
  <2>3. sorted[i] = CHOOSE r \in events : Rank(events, r) = i - 1
    BY <1>2
  <2>4. QED
    BY <2>2, <2>3
<1>4. sorted \in Seq(events) /\ Len(sorted) = N
  <2>1. sorted \in [1..N -> events]
    BY <1>2, <1>3
  <2>2. QED
    BY <1>1, <2>1
<1>5. ASSUME NEW i \in 1..N, NEW j \in 1..N, i < j PROVE Earlier(sorted[i], sorted[j])
  <2>1. sorted[i] \in events /\ sorted[j] \in events /\ Rank(events, sorted[i]) < Rank(events, sorted[j])
    BY <1>1, <1>3, <1>5
  <2>2. sorted[i] # sorted[j]
    BY <2>1, <1>3, <1>1, <1>5
  <2>3. ~ Earlier(sorted[j], sorted[i])
    <3>1. ASSUME Earlier(sorted[j], sorted[i]) PROVE FALSE
      <4>1. Rank(events, sorted[j]) < Rank(events, sorted[i])
        BY <2>1, <3>1, RankRises
      <4>2. QED
        BY <4>1, <1>3, <1>1, <1>5
    <3>2. QED
      BY <3>1
  <2>4. QED
    BY <2>1, <2>2, <2>3, EarlierOrders
<1>6. ASSUME NEW r \in events PROVE \E i \in 1..N : sorted[i] = r
  <2> DEFINE i == Rank(events, r) + 1
  <2>1. i \in 1..N /\ Rank(events, r) = i - 1
    BY <1>1, RankType
  <2>2. sorted[i] \in events /\ Rank(events, sorted[i]) = Rank(events, r)
    BY <1>3, <2>1
  <2>3. Rank(events, r) \in Nat
    BY RankType, <1>1
  <2>4. ~ Earlier(r, sorted[i]) /\ ~ Earlier(sorted[i], r)
    BY <2>2, <2>3, RankRises
  <2>5. sorted[i] = r
    BY <2>2, <2>4, EarlierOrders
  <2>6. QED
    BY <2>1, <2>5
<1>7. QED
  BY <1>4, <1>5, <1>6 DEF sorted

-----------------------------------------------------------------------------
(***************************************************************************)
(* The timeline of a set of events.                                        *)
(***************************************************************************)
\* It is the snapshot's version and one for each event, in their order.
LEMMA TimelineLoops ==
  ASSUME NEW row \in SnapshotRow, NEW events, events \subseteq Record, OnePerId(events)
  PROVE  LET sorted == Sorted(events, Earlier)
         IN  Looped(Timeline(row, events), row, sorted, Len(sorted))
<1> DEFINE sorted == Sorted(events, Earlier)
<1>1. sorted \in Seq(Record)
  <2>1. sorted \in Seq(events)
    BY SortedOrders
  <2>2. QED
    BY <2>1, SeqMonotonic
<1>2. Timeline(row, events) = Replayed(row, sorted)
  BY DEF Timeline
<1> HIDE DEF sorted
<1>3. Looped(Timeline(row, events), row, sorted, Len(sorted))
  BY <1>1, <1>2, ReplayedLoops
<1>4. QED
  BY <1>3 DEF sorted

\* No event is left out of it, and nothing else is in it.
LEMMA TimelineHolds ==
  ASSUME NEW row \in SnapshotRow, NEW events, events \subseteq Record, OnePerId(events)
  PROVE  LET t == Timeline(row, events)
         IN  /\ t \in Seq(Version) /\ Len(t) \in Nat /\ Len(t) >= 1
             /\ t[1].from = row.seq
             /\ \A r \in events : \E i \in 2..Len(t) : t[i].from = r.seq /\ t[i].id = r.id
             /\ \A i \in 2..Len(t) : \E r \in events : t[i].from = r.seq /\ t[i].id = r.id
<1> DEFINE sorted == Sorted(events, Earlier)
           N == Len(sorted)
           t == Timeline(row, events)
<1>1. Looped(t, row, sorted, N)
  BY TimelineLoops
<1>2. /\ sorted \in Seq(events) /\ N \in Nat
      /\ \A r \in events : \E i \in 1..N : sorted[i] = r
  BY SortedOrders, EventsFinite
<1> HIDE DEF sorted, t
<1>3. t \in Seq(Version) /\ Len(t) = N + 1 /\ t[1].from = row.seq
  BY <1>1 DEF Looped
<1>4. \A i \in 1..N : t[i + 1].from = sorted[i].seq /\ t[i + 1].id = sorted[i].id
  BY <1>1 DEF Looped
<1>5. ASSUME NEW r \in events PROVE \E i \in 2..Len(t) : t[i].from = r.seq /\ t[i].id = r.id
  <2>1. PICK i \in 1..N : sorted[i] = r
    BY <1>2
  <2>2. i + 1 \in 2..Len(t)
    BY <1>2, <1>3
  <2>3. QED
    BY <1>4, <2>1, <2>2
<1>6. ASSUME NEW i \in 2..Len(t) PROVE \E r \in events : t[i].from = r.seq /\ t[i].id = r.id
  <2>1. i - 1 \in 1..N /\ (i - 1) + 1 = i
    BY <1>2, <1>3
  <2>2. sorted[i - 1] \in events
    BY <1>2, <2>1, ElementOfSeq
  <2>3. t[i].from = sorted[i - 1].seq /\ t[i].id = sorted[i - 1].id
    BY <1>4, <2>1
  <2>4. QED
    BY <2>2, <2>3
<1>7. Len(t) \in Nat /\ Len(t) >= 1
  BY <1>2, <1>3
<1>8. QED
  BY <1>3, <1>5, <1>6, <1>7 DEF t

\* The newest version of a timeline the validator accepts is the last one.
LEMMA ValidEndsLast ==
  ASSUME NEW t, t \in Seq(Version), Len(t) \in Nat, Len(t) >= 1, Valid(t)
  PROVE  \A i \in 1..Len(t) : t[i].from <= Last(t).from
<1>1. \A i \in 1..Len(t) : t[i].from \in Nat
  <2>1. \A i \in 1..Len(t) : t[i] \in Version
    BY ElementOfSeq
  <2>2. QED
    BY <2>1, BoundsAssumption DEF Version
<1>2. Last(t) = t[Len(t)] /\ Len(t) \in 1..Len(t)
  BY DEF Last
<1>3. ASSUME NEW i \in 1..Len(t) PROVE t[i].from <= t[Len(t)].from
  <2>1. CASE i = Len(t)
    BY <2>1, <1>1
  <2>2. CASE i # Len(t)
    <3>1. i \in 1..(Len(t) - 1)
      BY <2>2
    <3>2. t[i].from < t[Len(t)].from
      BY <1>2, <3>1 DEF Valid
    <3>3. QED
      BY <1>1, <1>2, <3>2
  <2>3. QED
    BY <2>1, <2>2
<1>4. QED
  BY <1>2, <1>3

\* A timeline the validator accepts answers "what was the state at sequence
\* s" once for every s from its first version on.
LEMMA ValidTiles ==
  ASSUME NEW t, t \in Seq(Version), Len(t) \in Nat, Len(t) >= 1, Valid(t)
  PROVE  Tiles(ToSet(t), t[1].from)
<1> DEFINE L == Len(t)
<1>1. \A i \in 1..L : /\ t[i].from \in 1..MaxSeq /\ t[i].from \in Nat
                      /\ t[i].to = Open \/ t[i].to \in Nat
  <2>1. \A i \in 1..L : t[i] \in Version
    BY ElementOfSeq
  <2>2. QED
    BY <2>1, BoundsAssumption DEF Version
<1>2. /\ \A i \in 1..L : \A j \in 1..(i - 1) : t[j].from < t[i].from
      /\ t[L].to = Open
      /\ \A i \in 1..(L - 1) : t[i].to # Open /\ t[i].to = t[i + 1].from
  BY DEF Valid
<1>3. ToSet(t) = {t[i] : i \in 1..L}
  BY DEF ToSet
<1>4. ASSUME NEW s \in t[1].from..MaxSeq
      PROVE  \E v \in ToSet(t) : \A u \in ToSet(t) :
               (u.from <= s /\ (u.to = Open \/ s < u.to)) <=> u = v
  <2> DEFINE Begun == {i \in 1..L : t[i].from <= s}
  <2>1. s \in Nat /\ t[1].from <= s
    BY <1>1, BoundsAssumption
  <2>2. Begun \subseteq 0..L /\ 1 \in Begun
    BY <2>1
  <2>3. PICK m \in Begun : \A i \in Begun : i <= m
    BY <2>2, BoundedHasMaximum
  <2>4. m \in 1..L /\ t[m].from <= s
    BY <2>3
  <2>5. t[m].to = Open \/ s < t[m].to
    <3>1. CASE m = L
      BY <3>1, <1>2
    <3>2. CASE m # L
      <4>1. m + 1 \in 1..L /\ m \in 1..(L - 1) /\ m + 1 \notin Begun
        BY <3>2, <2>3, <2>4
      <4>2. s < t[m + 1].from
        BY <4>1, <1>1, <2>1
      <4>3. QED
        BY <4>1, <4>2, <1>2
    <3>3. QED
      BY <3>1, <3>2
  <2>6. ASSUME NEW j \in 1..L, t[j].from <= s, t[j].to = Open \/ s < t[j].to PROVE j = m
    <3>1. j \in Begun /\ j <= m
      BY <2>3, <2>6
    <3>2. ASSUME j < m PROVE FALSE
      <4>1. j \in 1..(L - 1) /\ j + 1 \in 1..L /\ j + 1 <= m
        BY <2>4, <3>2
      <4>2. t[j].to # Open /\ t[j].to = t[j + 1].from
        BY <1>2, <4>1
      <4>3. t[j + 1].from <= t[m].from
        <5>1. CASE j + 1 = m
          BY <5>1, <1>1, <2>4
        <5>2. CASE j + 1 # m
          <6>1. j + 1 \in 1..(m - 1)
            BY <4>1, <5>2, <2>4
          <6>2. t[j + 1].from < t[m].from
            BY <1>2, <2>4, <6>1
          <6>3. QED
            BY <6>2, <1>1, <4>1, <2>4
        <5>3. QED
          BY <5>1, <5>2
      <4>4. QED
        BY <4>1, <4>2, <4>3, <2>6, <2>4, <2>1, <1>1
    <3>3. QED
      BY <3>1, <3>2, <2>4
  <2>7. ASSUME NEW u \in ToSet(t)
        PROVE  (u.from <= s /\ (u.to = Open \/ s < u.to)) <=> u = t[m]
    <3>1. PICK j \in 1..L : u = t[j]
      BY <1>3
    <3>2. QED
      BY <3>1, <2>4, <2>5, <2>6
  <2>8. t[m] \in ToSet(t)
    BY <1>3, <2>4
  <2>9. QED
    BY <2>7, <2>8
<1>5. QED
  BY <1>4 DEF Tiles

\* The validator refuses events that share a sequence, or that are not above
\* the snapshot's, and nothing else.
LEMMA ValidExactly ==
  ASSUME NEW row \in SnapshotRow, NEW events, events \subseteq Record, OnePerId(events)
  PROVE  Valid(Timeline(row, events)) <=>
           ~ Collision(events) /\ \A r \in events : r.seq > row.seq
<1> DEFINE sorted == Sorted(events, Earlier)
           N == Len(sorted)
           t == Timeline(row, events)
<1>1. Looped(t, row, sorted, N)
  BY TimelineLoops
<1>2. /\ sorted \in Seq(events) /\ N \in Nat
      /\ \A r \in events : \E i \in 1..N : sorted[i] = r
      /\ \A i, j \in 1..N : i < j => Earlier(sorted[i], sorted[j])
  BY SortedOrders, EventsFinite
<1> HIDE DEF sorted, t
<1>3. /\ Len(t) = N + 1 /\ t[1].from = row.seq
      /\ \A i \in 1..N : /\ t[i].to = sorted[i].seq /\ t[i].current = FALSE
                        /\ t[i + 1].from = sorted[i].seq
      /\ t[N + 1].to = Open /\ t[N + 1].current = TRUE
  BY <1>1 DEF Looped
<1>4. \A r \in events : r.seq \in Nat /\ r.id \in Nat /\ row.seq \in Nat
  BY BoundsAssumption DEF Record, SnapshotRow, Row
<1>5. \A i \in 1..N : sorted[i] \in events
  BY <1>2, ElementOfSeq
<1>6. ASSUME Valid(t) PROVE ~ Collision(events) /\ \A r \in events : r.seq > row.seq
  <2>1. \A i, j \in 1..(N + 1) : j < i => t[j].from < t[i].from
    <3>1. \A i \in 1..(N + 1) : \A j \in 1..(i - 1) : t[j].from < t[i].from
      BY <1>6, <1>3 DEF Valid
    <3>2. QED
      BY <3>1, <1>2
  <2>2. ASSUME NEW r \in events PROVE r.seq > row.seq
    <3>1. PICK i \in 1..N : sorted[i] = r
      BY <1>2
    <3>2. 1 \in 1..(N + 1) /\ i + 1 \in 1..(N + 1) /\ 1 < i + 1
      BY <1>2
    <3>3. t[1].from < t[i + 1].from
      BY <2>1, <3>2
    <3>4. QED
      BY <1>3, <1>4, <3>1, <3>3
  <2>3. ASSUME NEW r \in events, NEW s \in events, r.seq = s.seq, r.id # s.id PROVE FALSE
    <3>1. PICK i \in 1..N : sorted[i] = r
      BY <1>2
    <3>2. PICK j \in 1..N : sorted[j] = s
      BY <1>2
    <3>3. i # j /\ i + 1 \in 1..(N + 1) /\ j + 1 \in 1..(N + 1)
      <4>1. i # j
        BY <2>3, <3>1, <3>2
      <4>2. i + 1 \in 1..(N + 1) /\ j + 1 \in 1..(N + 1)
        BY <1>2
      <4>3. QED
        BY <4>1, <4>2
    <3>4. t[i + 1].from < t[j + 1].from \/ t[j + 1].from < t[i + 1].from
      BY <2>1, <3>3
    <3>5. QED
      BY <1>3, <1>4, <2>3, <3>1, <3>2, <3>4
  <2>4. QED
    BY <2>2, <2>3 DEF Collision
<1>7. ASSUME ~ Collision(events), \A r \in events : r.seq > row.seq PROVE Valid(t)
  <2>1. ASSUME NEW i \in 1..(N + 1), NEW j \in 1..(i - 1) PROVE t[j].from < t[i].from
    <3>1. i - 1 \in 1..N /\ t[i].from = sorted[i - 1].seq /\ sorted[i - 1] \in events
      <4>1. i - 1 \in 1..N /\ (i - 1) + 1 = i
        BY <1>2
      <4>2. QED
        BY <4>1, <1>3, <1>5
    <3>2. CASE j = 1
      BY <1>3, <1>7, <3>1, <3>2, <1>4
    <3>3. CASE j # 1
      <4>1. j - 1 \in 1..N /\ (j - 1) + 1 = j /\ j - 1 < i - 1
        BY <1>2, <3>3
      <4>2. t[j].from = sorted[j - 1].seq /\ sorted[j - 1] \in events
        BY <4>1, <1>3, <1>5
      <4>3. Earlier(sorted[j - 1], sorted[i - 1])
        BY <1>2, <3>1, <4>1
      <4>4. sorted[j - 1].seq # sorted[i - 1].seq
        BY <1>7, <3>1, <4>2, <4>3, <1>4 DEF Collision, Earlier
      <4>5. QED
        BY <3>1, <4>2, <4>3, <4>4 DEF Earlier
    <3>4. QED
      BY <3>2, <3>3
  <2>2. ASSUME NEW i \in 1..(N + 1)
        PROVE  /\ t[i].current <=> i = N + 1
               /\ i = N + 1 => t[i].to = Open
               /\ i < N + 1 => t[i].to # Open /\ t[i].to > t[i].from /\ t[i].to = t[i + 1].from
    <3>1. CASE i = N + 1
      BY <3>1, <1>3, <1>2
    <3>2. CASE i # N + 1
      <4>1. i \in 1..N /\ i + 1 \in 1..(N + 1) /\ i \in 1..((i + 1) - 1)
        BY <3>2, <1>2
      <4>2. t[i].to = sorted[i].seq /\ t[i].to = t[i + 1].from /\ t[i].current = FALSE
        BY <4>1, <1>3
      <4>3. t[i].to \in Nat
        BY <4>1, <4>2, <1>4, <1>5
      <4>4. t[i].from < t[i + 1].from
        BY <2>1, <4>1
      <4>5. t[i].from \in Nat
        <5>1. CASE i = 1
          <6>1. row.seq \in Nat
            BY <1>4, <4>1, <1>5
          <6>2. QED
            BY <5>1, <6>1, <1>3
        <5>2. CASE i # 1
          <6>1. i - 1 \in 1..N /\ (i - 1) + 1 = i
            BY <5>2, <4>1
          <6>2. t[i].from = sorted[i - 1].seq
            BY <6>1, <1>3
          <6>3. QED
            BY <6>1, <6>2, <1>4, <1>5
        <5>3. QED
          BY <5>1, <5>2
      <4>6. QED
        BY <3>2, <4>2, <4>3, <4>4, <4>5, OpenAssumption
    <3>3. QED
      BY <3>1, <3>2
  <2>3. QED
    BY <2>1, <2>2, <1>3 DEF Valid
<1>8. QED
  BY <1>6, <1>7 DEF t

-----------------------------------------------------------------------------
(***************************************************************************)
(* What the attributes of a version are.                                   *)
(***************************************************************************)
\* There is a newest among some events.
LEMMA NewestExists ==
  ASSUME NEW S, S \subseteq Record, S # {}
  PROVE  Newest(S) \in S /\ \A s \in S : Newest(S).seq >= s.seq
<1> DEFINE Seqs == {r.seq : r \in S}
<1>1. Seqs \subseteq 0..MaxSeq /\ Seqs # {}
  BY BoundsAssumption DEF Record
<1>2. PICK m \in Seqs : \A n \in Seqs : n <= m
  BY <1>1, BoundsAssumption, BoundedHasMaximum
<1>3. \E n \in S : \A s \in S : n.seq >= s.seq
  BY <1>2
<1>4. QED
  BY <1>3 DEF Newest

\* The newest of some events that have sequences of their own.
LEMMA NewestIs ==
  ASSUME NEW S, S \subseteq Record, ~ Collision(S), OnePerId(S),
         NEW r \in S, \A s \in S : s.seq <= r.seq
  PROVE  Newest(S) = r
<1>1. \A s \in S : s.seq \in Nat
  BY BoundsAssumption DEF Record
<1>2. \E n \in S : \A s \in S : n.seq >= s.seq
  BY <1>1
<1>3. Newest(S) \in S /\ \A s \in S : Newest(S).seq >= s.seq
  BY <1>2 DEF Newest
<1>4. Newest(S).seq = r.seq
  BY <1>1, <1>3
<1>5. QED
  BY <1>3, <1>4 DEF Collision, OnePerId

\* What the loop relies on of its list of events.
InOrder(sorted, events) ==
  /\ sorted \in Seq(events) /\ Len(sorted) \in Nat
  /\ \A r \in events : \E i \in 1..Len(sorted) : sorted[i] = r
  /\ \A i, j \in 1..Len(sorted) : i < j => Earlier(sorted[i], sorted[j])

\* f is a value that the events of writers write and the others leave alone.
Written(f, written, writers, sorted) ==
  \A i \in 1..Len(sorted) :
    f[i + 1] = IF sorted[i] \in writers THEN written[sorted[i]] ELSE f[i]

\* The events of S up to a sequence.
Till(S, sequence) == {r \in S : r.seq <= sequence}

\* After an event it is what the newest writer up to there wrote.
FromLastWriter(f, written, writers, sorted) ==
  \A i \in 1..Len(sorted) :
    f[i + 1] = IF Till(writers, sorted[i].seq) = {} THEN f[1]
               ELSE written[Newest(Till(writers, sorted[i].seq))]

\* The sequences of a list without collisions rise, and are numbers.
LEMMA SequencesRise ==
  ASSUME NEW events, events \subseteq Record, ~ Collision(events),
         NEW sorted, InOrder(sorted, events)
  PROVE  /\ \A i \in 1..Len(sorted) : sorted[i] \in events /\ sorted[i].seq \in Nat
         /\ \A i, j \in 1..Len(sorted) : i < j => sorted[i].seq < sorted[j].seq
<1>1. \A r \in events : r.seq \in Nat /\ r.id \in Nat
  BY BoundsAssumption DEF Record
<1>2. \A i \in 1..Len(sorted) : sorted[i] \in events
  BY ElementOfSeq DEF InOrder
<1>3. \A i, j \in 1..Len(sorted) : i < j => Earlier(sorted[i], sorted[j])
  BY DEF InOrder
<1>4. ASSUME NEW i \in 1..Len(sorted), NEW j \in 1..Len(sorted), i < j
      PROVE  sorted[i].seq < sorted[j].seq
  <2>1. Earlier(sorted[i], sorted[j]) /\ sorted[i] \in events /\ sorted[j] \in events
    BY <1>2, <1>3, <1>4
  <2>2. sorted[i].seq # sorted[j].seq
    BY <2>1, <1>1 DEF Collision, Earlier
  <2>3. QED
    BY <2>1, <2>2 DEF Earlier
<1>5. QED
  BY <1>1, <1>2, <1>4

\* A value some events write and the others leave alone is, after the loop
\* has passed an event, what the newest writer up to it wrote.
LEMMA LastWriter ==
  ASSUME NEW events, events \subseteq Record, OnePerId(events), ~ Collision(events),
         NEW sorted, InOrder(sorted, events), NEW writers, writers \subseteq events,
         NEW written, NEW f, Written(f, written, writers, sorted)
  PROVE  FromLastWriter(f, written, writers, sorted)
<1> DEFINE N == Len(sorted)
           UpToHere(i) == {r \in writers : r.seq <= sorted[i].seq}
           Right(i) == f[i + 1] = IF UpToHere(i) = {} THEN f[1] ELSE written[Newest(UpToHere(i))]
           Bad == {i \in 1..N : ~ Right(i)}
<1>1. \A i \in 1..N : sorted[i] \in events /\ sorted[i].seq \in Nat
  BY SequencesRise
<1>2. \A r \in events : r.seq \in Nat
  BY BoundsAssumption DEF Record
<1>3. \A i, j \in 1..N : i < j => sorted[i].seq < sorted[j].seq
  BY SequencesRise
<1>4. ASSUME Bad # {} PROVE FALSE
  <2>1. Bad \subseteq Nat
    OBVIOUS
  <2>2. PICK m \in Bad : \A b \in Bad : m <= b
    BY <1>4, <2>1, NatHasMinimum
  <2>3. m \in 1..N /\ ~ Right(m) /\ sorted[m] \in events
    BY <2>2, <1>1
  <2>4. CASE sorted[m] \in writers
    <3>1. sorted[m] \in UpToHere(m) /\ \A r \in UpToHere(m) : r.seq <= sorted[m].seq
      BY <2>3, <2>4, <1>2
    <3>2. UpToHere(m) \subseteq Record /\ ~ Collision(UpToHere(m)) /\ OnePerId(UpToHere(m))
      BY DEF Collision, OnePerId
    <3>3. Newest(UpToHere(m)) = sorted[m]
      <4> HIDE DEF UpToHere
      <4>1. QED
        BY <3>1, <3>2, NewestIs
    <3>4. f[m + 1] = written[sorted[m]]
      BY <2>3, <2>4 DEF Written
    <3>5. QED
      BY <2>3, <3>1, <3>3, <3>4
  <2>5. CASE sorted[m] \notin writers
    <3>1. f[m + 1] = f[m]
      BY <2>3, <2>5 DEF Written
    <3>2. ASSUME NEW r \in UpToHere(m) PROVE \E j \in 1..N : j < m /\ sorted[j] = r
      <4>1. PICK j \in 1..N : sorted[j] = r
        BY <3>2 DEF InOrder
      <4>2. j # m /\ ~ m < j
        BY <4>1, <3>2, <2>3, <2>5, <1>3, <1>2
      <4>3. QED
        BY <4>1, <4>2, <2>3
    <3>3. CASE m = 1
      <4>1. UpToHere(m) = {}
        BY <3>2, <3>3
      <4>2. QED
        BY <4>1, <3>1, <3>3, <2>3
    <3>4. CASE m # 1
      <4>1. m - 1 \in 1..N /\ (m - 1) + 1 = m /\ m - 1 \notin Bad
        <5>1. N \in Nat
          BY DEF InOrder
        <5>2. m - 1 \in 1..N /\ (m - 1) + 1 = m /\ ~ m <= m - 1
          BY <5>1, <2>3, <3>4
        <5>3. QED
          BY <5>2, <2>2
      <4>2. Right(m - 1)
        BY <4>1
      <4>3. UpToHere(m) = UpToHere(m - 1)
        <5>1. ASSUME NEW r \in UpToHere(m) PROVE r.seq <= sorted[m - 1].seq
          <6>1. PICK j \in 1..N : j < m /\ sorted[j] = r
            BY <3>2
          <6>2. j = m - 1 \/ j < m - 1
            BY <6>1, <2>3
          <6>3. QED
            BY <6>1, <6>2, <1>3, <4>1, <1>1, <1>2
        <5>2. ASSUME NEW r \in UpToHere(m - 1) PROVE r.seq <= sorted[m].seq
          <6>1. sorted[m - 1].seq < sorted[m].seq /\ sorted[m - 1] \in events
            BY <1>1, <1>3, <2>3, <4>1
          <6>2. QED
            BY <6>1, <1>2, <2>3
        <5>3. QED
          BY <5>1, <5>2
      <4>4. f[m] = IF UpToHere(m) = {} THEN f[1] ELSE written[Newest(UpToHere(m))]
        BY <4>1, <4>2, <4>3
      <4>5. QED
        BY <4>4, <3>1, <2>3
    <3>5. QED
      BY <3>3, <3>4
  <2>6. QED
    BY <2>4, <2>5
<1>5. \A i \in 1..N : Right(i)
  BY <1>4
<1>6. \A i \in 1..N : UpToHere(i) = Till(writers, sorted[i].seq)
  BY DEF Till
<1>7. QED
  BY <1>5, <1>6 DEF FromLastWriter

\* A timeline the validator accepts says what the events say.
LEMMA TimelineTells ==
  ASSUME NEW row \in SnapshotRow, NEW events, events \subseteq Record, OnePerId(events),
         Valid(Timeline(row, events))
  PROVE  \A i \in 1..Len(Timeline(row, events)) :
           Truthful(Timeline(row, events)[i], row, events)
<1> DEFINE sorted == Sorted(events, Earlier)
           N == Len(sorted)
           t == Timeline(row, events)
           Amounted == {r \in events : Gives(r)}
           Cycled == {r \in events : GivesCycle(r)}
<1>1. Looped(t, row, sorted, N)
  BY TimelineLoops
<1>2. InOrder(sorted, events) /\ N \in Nat
  BY SortedOrders, EventsFinite DEF InOrder
<1>3. ~ Collision(events) /\ \A r \in events : r.seq > row.seq
  BY ValidExactly
<1>4. /\ row.val \in Attributes /\ row.val.cycle = Null /\ row.seq \in Nat
      /\ \A r \in events : r.seq \in Nat
  BY BoundsAssumption DEF SnapshotRow, Payload, Row, Record
<1> HIDE DEF sorted, t
<1>5. /\ Len(t) = N + 1
      /\ t[1].from = row.seq /\ t[1].id = SnapshotId /\ t[1].deleted = FALSE /\ t[1].val = row.val
      /\ \A i \in 1..N :
           /\ t[i + 1].from = sorted[i].seq /\ t[i + 1].id = sorted[i].id
           /\ t[i + 1].deleted = (sorted[i].op = "DELETE")
           /\ t[i + 1].val = Carried(t[i].val, sorted[i])
  BY <1>1 DEF Looped
<1>6. /\ \A i \in 1..N : sorted[i] \in events /\ sorted[i].seq \in Nat
      /\ \A i, j \in 1..N : i < j => sorted[i].seq < sorted[j].seq
  BY <1>2, <1>3, SequencesRise
<1>7. ASSUME NEW i \in 1..N
      PROVE  t[i + 1].val.amount =
               LET S == Till(Amounted, sorted[i].seq)
               IN  IF S = {} THEN row.val.amount ELSE Newest(S).val.amount
  <2> DEFINE f == [j \in 1..(N + 1) |-> t[j].val.amount]
             written == [r \in events |-> r.val.amount]
             S == Till(Amounted, sorted[i].seq)
  <2>1. Written(f, written, Amounted, sorted)
    <3>1. ASSUME NEW j \in 1..N
          PROVE  f[j + 1] = IF sorted[j] \in Amounted THEN written[sorted[j]] ELSE f[j]
      <4>1. j \in 1..(N + 1) /\ j + 1 \in 1..(N + 1)
        BY <1>2
      <4>2. t[j + 1].val = Carried(t[j].val, sorted[j])
        BY <1>5
      <4>5. t[j + 1].val.amount = IF sorted[j].op = "DELETE" \/ sorted[j].val.amount = Null
                                  THEN t[j].val.amount ELSE sorted[j].val.amount
        BY <4>2 DEF Carried
      <4>3. QED
        BY <4>1, <4>5, <1>6 DEF Gives
    <3>2. QED
      BY <3>1 DEF Written
  <2>2. f[i + 1] = t[i + 1].val.amount /\ f[1] = row.val.amount
    BY <1>2, <1>5
  <2>3. \A r \in S : r \in events /\ written[r] = r.val.amount
    BY DEF Till
  <2>4. Amounted \subseteq events
    OBVIOUS
  <2> HIDE DEF f, written, Amounted
  <2>5. f[i + 1] = IF S = {} THEN f[1] ELSE written[Newest(S)]
    <3>1. InOrder(sorted, events) /\ ~ Collision(events)
      BY <1>2, <1>3
    <3>2. FromLastWriter(f, written, Amounted, sorted)
      BY <2>1, <2>4, <3>1, LastWriter
    <3>3. QED
      BY <3>2 DEF FromLastWriter
  <2>6. S \subseteq Record /\ (S # {} => Newest(S) \in S)
    BY <2>4, NewestExists DEF Till
  <2>7. QED
    BY <2>2, <2>3, <2>5, <2>6
<1>8. ASSUME NEW i \in 1..N
      PROVE  t[i + 1].val.cycle =
               LET S == Till(Cycled, sorted[i].seq)
               IN  IF S = {} THEN row.val.cycle ELSE Newest(S).val.cycle
  <2> DEFINE f == [j \in 1..(N + 1) |-> t[j].val.cycle]
             written == [r \in events |-> r.val.cycle]
             S == Till(Cycled, sorted[i].seq)
  <2>1. Written(f, written, Cycled, sorted)
    <3>1. ASSUME NEW j \in 1..N
          PROVE  f[j + 1] = IF sorted[j] \in Cycled THEN written[sorted[j]] ELSE f[j]
      <4>1. j \in 1..(N + 1) /\ j + 1 \in 1..(N + 1)
        BY <1>2
      <4>2. t[j + 1].val = Carried(t[j].val, sorted[j])
        BY <1>5
      <4>5. t[j + 1].val.cycle = IF sorted[j].op = "DELETE" \/ sorted[j].val.version = 1
                                  THEN t[j].val.cycle ELSE sorted[j].val.cycle
        BY <4>2 DEF Carried
      <4>3. sorted[j] \in events /\ (sorted[j].val.version # 1 <=> sorted[j].val.version = 2)
        BY <1>6, PayloadAssumption DEF Record, Payload, Attributes
      <4>4. QED
        BY <4>1, <4>3, <4>5 DEF GivesCycle
    <3>2. QED
      BY <3>1 DEF Written
  <2>2. f[i + 1] = t[i + 1].val.cycle /\ f[1] = row.val.cycle
    BY <1>2, <1>5
  <2>3. \A r \in S : r \in events /\ written[r] = r.val.cycle
    BY DEF Till
  <2>4. Cycled \subseteq events
    OBVIOUS
  <2> HIDE DEF f, written, Cycled
  <2>5. f[i + 1] = IF S = {} THEN f[1] ELSE written[Newest(S)]
    <3>1. InOrder(sorted, events) /\ ~ Collision(events)
      BY <1>2, <1>3
    <3>2. FromLastWriter(f, written, Cycled, sorted)
      BY <2>1, <2>4, <3>1, LastWriter
    <3>3. QED
      BY <3>2 DEF FromLastWriter
  <2>6. S \subseteq Record /\ (S # {} => Newest(S) \in S)
    BY <2>4, NewestExists DEF Till
  <2>7. QED
    BY <2>2, <2>3, <2>5, <2>6
<1>9. Truthful(t[1], row, events)
  <2>1. /\ UpTo(events, t[1].from, LAMBDA r : TRUE) = {}
        /\ UpTo(events, t[1].from, Gives) = {}
        /\ UpTo(events, t[1].from, GivesCycle) = {}
    BY <1>3, <1>4, <1>5 DEF UpTo
  <2>2. QED
    BY <2>1, <1>4, <1>5 DEF Truthful
<1>10. ASSUME NEW i \in 1..N PROVE Truthful(t[i + 1], row, events)
  <2> DEFINE All == {r \in events : r.seq <= sorted[i].seq}
             Am == Till(Amounted, sorted[i].seq)
             Cy == Till(Cycled, sorted[i].seq)
  <2>1. t[i + 1].from = sorted[i].seq
    BY <1>5
  <2>2. /\ UpTo(events, t[i + 1].from, LAMBDA r : TRUE) = All
        /\ UpTo(events, t[i + 1].from, Gives) = Am
        /\ UpTo(events, t[i + 1].from, GivesCycle) = Cy
    BY <2>1 DEF UpTo, Till
  <2>3. sorted[i] \in All /\ \A r \in All : r.seq <= sorted[i].seq
    BY <1>6
  <2>4. All \subseteq Record /\ ~ Collision(All) /\ OnePerId(All)
    BY <1>3 DEF Collision, OnePerId
  <2> HIDE DEF All, Am, Cy, Amounted, Cycled
  <2>5. Newest(All) = sorted[i] /\ All # {}
    BY <2>3, <2>4, NewestIs
  <2>6. /\ t[i + 1].id = sorted[i].id
        /\ t[i + 1].deleted = (sorted[i].op = "DELETE")
    BY <1>5
  <2>7. t[i + 1].val.amount = IF Am = {} THEN row.val.amount ELSE Newest(Am).val.amount
    BY <1>7 DEF Am
  <2>8. t[i + 1].val.cycle = IF Cy = {} THEN Null ELSE Newest(Cy).val.cycle
    BY <1>8, <1>4 DEF Cy
  <2>9. QED
    BY <2>2, <2>5, <2>6, <2>7, <2>8 DEF Truthful
<1>11. ASSUME NEW i \in 1..Len(t) PROVE Truthful(t[i], row, events)
  <2>1. CASE i = 1
    BY <2>1, <1>9
  <2>2. CASE i # 1
    <3>1. i - 1 \in 1..N /\ (i - 1) + 1 = i
      BY <1>2, <1>5, <2>2
    <3>2. Truthful(t[(i - 1) + 1], row, events)
      BY <3>1, <1>10
    <3>3. QED
      BY <3>1, <3>2
  <2>3. QED
    BY <2>1, <2>2
<1>12. QED
  BY <1>11 DEF t
=============================================================================
