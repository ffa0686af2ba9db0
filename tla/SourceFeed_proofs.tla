-------------------------- MODULE SourceFeed_proofs --------------------------
(***************************************************************************)
(* From the source to its replica: every number is that of one line in one *)
(* place, the last line of an entity tells its state, and the rows follow  *)
(* the lines delivered.                                                    *)
(***************************************************************************)
EXTENDS SourceFeed, DeltaMerge_proofs, FiniteSetTheorems, SequenceTheorems

-----------------------------------------------------------------------------
(***************************************************************************)
(* The numbers of the snapshot.  Before is a CHOOSE: that a function       *)
(* satisfies its recursion is shown by the least length for which none     *)
(* does.                                                                   *)
(***************************************************************************)
\* The recursion of Before, over the first n tables.
Counts(f, n) == f = [i \in 0..n |-> IF i = 0 THEN 0 ELSE f[i - 1] + Initial[TableOrder[i]]]

\* Entities can be counted over any number of tables.
LEMMA CountExists ==
  ASSUME NEW n \in Nat
  PROVE  \E f : Counts(f, n)
<1> DEFINE Bad == {m \in Nat : ~ \E f : Counts(f, m)}
<1>1. SUFFICES ASSUME Bad # {} PROVE FALSE
  OBVIOUS
<1>2. PICK m \in Bad : \A b \in Bad : m <= b
  BY <1>1, NatHasMinimum
<1>3. CASE m = 0
  <2> DEFINE f == [i \in 0..0 |-> 0]
  <2>1. Counts(f, 0)
    BY DEF Counts
  <2>2. QED
    BY <2>1, <1>3, <1>2
<1>4. CASE m # 0
  <2>1. m - 1 \in Nat /\ m - 1 \notin Bad
    BY <1>2, <1>4
  <2>2. PICK g : Counts(g, m - 1)
    BY <2>1
  <2> DEFINE f == [i \in 0..m |-> IF i = m THEN g[m - 1] + Initial[TableOrder[m]] ELSE g[i]]
  <2>3. g = [i \in 0..(m - 1) |-> IF i = 0 THEN 0 ELSE g[i - 1] + Initial[TableOrder[i]]]
    BY <2>2 DEF Counts
  <2>4. ASSUME NEW i \in 0..m
        PROVE  f[i] = IF i = 0 THEN 0 ELSE f[i - 1] + Initial[TableOrder[i]]
    <3>1. CASE i = m
      BY <3>1, <1>4, <2>1
    <3>2. CASE i # m
      <4>1. i \in 0..(m - 1) /\ (i # 0 => i - 1 \in 0..(m - 1) /\ i - 1 # m)
        BY <3>2, <2>1
      <4>2. g[i] = IF i = 0 THEN 0 ELSE g[i - 1] + Initial[TableOrder[i]]
        BY <4>1, <2>3
      <4>3. f[i] = g[i] /\ (i # 0 => f[i - 1] = g[i - 1])
        BY <4>1, <3>2, <2>1
      <4>4. QED
        BY <4>2, <4>3
    <3>3. QED
      BY <3>1, <3>2
  <2> HIDE DEF f
  <2>5. f = [i \in 0..m |-> f[i]]
    BY DEF f
  <2>6. Counts(f, m)
    BY <2>4, <2>5 DEF Counts
  <2>7. QED
    BY <2>6, <1>2
<1>5. QED
  BY <1>3, <1>4

\* Before counts the entities of the tables up to one.
LEMMA BeforeCounts ==
  /\ Len(TableOrder) \in Nat
  /\ \A i \in 0..Len(TableOrder) :
       Before[i] = IF i = 0 THEN 0 ELSE Before[i - 1] + Initial[TableOrder[i]]
<1> DEFINE N == Len(TableOrder)
           F == CHOOSE f : f = [i \in 0..N |-> IF i = 0 THEN 0 ELSE f[i - 1] + Initial[TableOrder[i]]]
<1>1. N \in Nat
  BY OrderAssumption
<1>2. \E f : f = [i \in 0..N |-> IF i = 0 THEN 0 ELSE f[i - 1] + Initial[TableOrder[i]]]
  <2>1. PICK f : Counts(f, N)
    BY <1>1, CountExists
  <2>2. f = [i \in 0..N |-> IF i = 0 THEN 0 ELSE f[i - 1] + Initial[TableOrder[i]]]
    BY <2>1 DEF Counts
  <2>3. QED
    BY <2>2
<1>3. F = [i \in 0..N |-> IF i = 0 THEN 0 ELSE F[i - 1] + Initial[TableOrder[i]]]
  BY <1>2
<1>4. Before = F
  BY DEF Before
<1> HIDE DEF F
<1>5. \A i \in 0..N : F[i] = IF i = 0 THEN 0 ELSE F[i - 1] + Initial[TableOrder[i]]
  BY <1>3
<1>6. QED
  BY <1>1, <1>4, <1>5

\* The counts are natural numbers and grow.
LEMMA BeforeGrows ==
  \A j \in 0..Len(TableOrder) : Before[j] \in Nat /\ \A i \in 0..j : Before[i] <= Before[j]
<1> DEFINE N == Len(TableOrder)
           Good(j) == Before[j] \in Nat /\ \A i \in 0..j : Before[i] <= Before[j]
           Bad == {j \in 0..N : ~ Good(j)}
<1>1. SUFFICES ASSUME Bad # {} PROVE FALSE
  OBVIOUS
<1>2. N \in Nat /\ \A i \in 0..N : Before[i] = IF i = 0 THEN 0 ELSE Before[i - 1] + Initial[TableOrder[i]]
  BY BeforeCounts
<1>3. PICK j \in Bad : \A b \in Bad : j <= b
  <2>1. Bad \subseteq Nat
    BY <1>2
  <2> HIDE DEF Bad
  <2>2. QED
    BY <1>1, <2>1, NatHasMinimum
<1>4. CASE j = 0
  <2>1. Before[0] = 0
    BY <1>2
  <2>2. QED
    BY <1>3, <1>4, <2>1
<1>5. CASE j # 0
  <2>1. j \in 0..N /\ j - 1 \in 0..N /\ j \in 1..N
    BY <1>2, <1>3, <1>5
  <2>2. Good(j - 1)
    BY <1>3, <2>1
  <2>3. Initial[TableOrder[j]] \in Nat
    BY <2>1, OrderAssumption, ScaleAssumption
  <2>4. Before[j] = Before[j - 1] + Initial[TableOrder[j]]
    BY <1>2, <1>5, <2>1
  <2>5. Before[j] \in Nat /\ Before[j - 1] <= Before[j] /\ Before[j - 1] \in Nat
    BY <2>2, <2>3, <2>4
  <2>6. ASSUME NEW i \in 0..j PROVE Before[i] <= Before[j]
    <3>1. CASE i = j
      BY <3>1, <2>5
    <3>2. CASE i # j
      <4>1. i \in 0..(j - 1) /\ i \in 0..N
        BY <3>2, <2>1
      <4>2. Before[i] <= Before[j - 1]
        BY <4>1, <2>2
      <4>3. Before[i] \in Nat
        <5>1. i \notin Bad
          BY <1>3, <4>1, <2>1
        <5>2. QED
          BY <4>1, <5>1
      <4>4. QED
        BY <2>5, <4>2, <4>3
    <3>3. QED
      BY <3>1, <3>2
  <2>7. QED
    BY <1>3, <2>5, <2>6
<1>6. QED
  BY <1>4, <1>5

\* The snapshot numbers its entities from 1 to SnapshotTotal.
LEMMA SnapshotNumbers ==
  /\ SnapshotTotal \in 0..MaxSeq
  /\ \A t \in Tables : \A k \in 1..Initial[t] : SnapshotSequence(t, k) \in 1..SnapshotTotal
<1> DEFINE N == Len(TableOrder)
<1>1. N \in Nat
  BY BeforeCounts
<1>2. SnapshotTotal \in 0..MaxSeq
  <2>1. Before[N] \in Nat
    BY <1>1, BeforeGrows
  <2>2. QED
    BY <2>1, SnapshotAssumption, BoundsAssumption DEF SnapshotTotal
<1>3. ASSUME NEW t \in Tables, NEW k \in 1..Initial[t]
      PROVE  SnapshotSequence(t, k) \in 1..SnapshotTotal
  <2>1. Place(t) \in DOMAIN TableOrder /\ TableOrder[Place(t)] = t
    BY OrderAssumption DEF Place
  <2> DEFINE i == Place(t)
  <2> HIDE DEF i
  <2>2. i \in 1..N /\ i \in 0..N /\ i - 1 \in 0..N /\ i # 0
    BY <1>1, <2>1, OrderAssumption DEF i
  <2>3. Before[i] = Before[i - 1] + Initial[t]
    BY <2>1, <2>2, BeforeCounts DEF i
  <2>4. Before[i - 1] \in Nat /\ Before[i] <= Before[N] /\ Before[N] \in Nat
    BY <1>1, <2>2, BeforeGrows
  <2>5. Initial[t] \in Nat
    BY ScaleAssumption
  <2>6. Before[i - 1] + k \in 1..Before[N]
    BY <2>3, <2>4, <2>5
  <2>7. QED
    BY <2>6 DEF i, SnapshotSequence, SnapshotTotal
<1>4. QED
  BY <1>2, <1>3

\* The rows the tables are initialised with are rows.
LEMMA SnapshotIsRow ==
  ASSUME NEW t \in Tables, NEW k \in Keys
  PROVE  /\ Snapshot(t, k) \in Row \cup {NoRow}
         /\ Snapshot(t, k) = NoRow <=> k \notin 1..Initial[t]
         /\ k \in 1..Initial[t] =>
              /\ Snapshot(t, k).seq = SnapshotSequence(t, k)
              /\ Snapshot(t, k).seq \in 1..SnapshotTotal
              /\ Snapshot(t, k).deleted = FALSE
              /\ Snapshot(t, k).val = SnapshotSequence(t, k)
<1>1. CASE k \notin 1..Initial[t]
  BY <1>1 DEF Snapshot
<1>2. CASE k \in 1..Initial[t]
  <2> DEFINE n == SnapshotSequence(t, k)
             row == [seq |-> n, id |-> SnapshotId, batch |-> SnapshotBatch, deleted |-> FALSE, val |-> n]
  <2>1. n \in 1..SnapshotTotal /\ n \in 1..MaxSeq
    BY <1>2, SnapshotNumbers, BoundsAssumption
  <2>2. Snapshot(t, k) = row
    BY <1>2 DEF Snapshot
  <2> HIDE DEF n
  <2>3. n \in Vals
    BY <2>1, ScaleAssumption
  <2>4. row \in Row
    BY <2>1, <2>3, BoundsAssumption DEF Row, SnapshotId, SnapshotBatch
  <2>5. row # NoRow
    BY <2>4, NoRowAssumption
  <2>6. row.seq = n /\ row.deleted = FALSE /\ row.val = n
    OBVIOUS
  <2> HIDE DEF row
  <2>7. QED
    BY <1>2, <2>1, <2>2, <2>4, <2>5, <2>6 DEF n
<1>3. QED
  BY <1>1, <1>2

-----------------------------------------------------------------------------
(***************************************************************************)
(* Sequences of lines.                                                     *)
(***************************************************************************)
\* What is in a sequence that got one more line.
LEMMA AppendAdds ==
  ASSUME NEW S, NEW s \in Seq(S), NEW x \in S
  PROVE  /\ Append(s, x) \in Seq(S)
         /\ ToSet(Append(s, x)) = ToSet(s) \cup {x}
         /\ Len(Append(s, x)) = Len(s) + 1
         /\ Append(s, x)[Len(s) + 1] = x
         /\ \A i \in 1..Len(s) : Append(s, x)[i] = s[i]
<1> DEFINE u == Append(s, x)
<1>1. /\ u \in Seq(S) /\ Len(u) = Len(s) + 1 /\ Len(s) \in Nat
      /\ u[Len(s) + 1] = x /\ \A i \in 1..Len(s) : u[i] = s[i]
  OBVIOUS
<1>2. DOMAIN u = 1..(Len(s) + 1) /\ DOMAIN s = 1..Len(s)
  BY <1>1
<1> HIDE DEF u
<1>3. ToSet(u) = ToSet(s) \cup {x}
  <2>1. \A i \in DOMAIN u : u[i] \in ToSet(s) \cup {x}
    <3>1. ASSUME NEW i \in DOMAIN u PROVE u[i] \in ToSet(s) \cup {x}
      <4>1. i \in 1..Len(s) \/ i = Len(s) + 1
        BY <1>1, <1>2
      <4>2. QED
        BY <4>1, <1>1, <1>2 DEF ToSet
    <3>2. QED
      BY <3>1
  <2>2. \A i \in DOMAIN s : s[i] \in ToSet(u)
    <3>1. ASSUME NEW i \in DOMAIN s PROVE s[i] \in ToSet(u)
      <4>1. i \in DOMAIN u /\ u[i] = s[i]
        BY <1>1, <1>2
      <4>2. QED
        BY <4>1 DEF ToSet
    <3>2. QED
      BY <3>1
  <2>3. x \in ToSet(u)
    <3>1. Len(s) + 1 \in DOMAIN u
      BY <1>1, <1>2
    <3>2. QED
      BY <3>1, <1>1 DEF ToSet
  <2>4. QED
    BY <2>1, <2>2, <2>3 DEF ToSet
<1>4. QED
  BY <1>1, <1>3 DEF u

\* What is left of a sequence without its second line.
LEMMA RemoveSecond ==
  ASSUME NEW S, NEW s \in Seq(S), Len(s) >= 2
  PROVE  /\ RemoveAt(s, 2) \in Seq(S)
         /\ ToSet(RemoveAt(s, 2)) = {s[i] : i \in (DOMAIN s) \ {2}}
<1> DEFINE N == Len(s)
           a == SubSeq(s, 1, 1)
           c == SubSeq(s, 3, N)
           u == RemoveAt(s, 2)
<1>1. N \in Nat /\ DOMAIN s = 1..N
  OBVIOUS
<1>2. a \in Seq(S) /\ Len(a) = 1 /\ a[1] = s[1]
  BY <1>1, SubSeqProperties
<1>3. c \in Seq(S) /\ Len(c) = N - 2 /\ \A i \in 1..(N - 2) : c[i] = s[i + 2]
  <2>1. \A i \in 3..N : i \in 1..N
    BY <1>1
  <2>2. c \in Seq(S) /\ Len(c) = IF 3 <= N THEN N - 3 + 1 ELSE 0
    BY <1>1, <2>1, SubSeqProperties
  <2>3. \A i \in 1..(N - 2) : c[i] = s[i + 2]
    <3>1. \A i \in 1..(N - 3 + 1) : c[i] = s[3 + i - 1]
      BY <1>1, <2>1, SubSeqProperties
    <3>2. \A i \in 1..(N - 2) : i \in 1..(N - 3 + 1) /\ 3 + i - 1 = i + 2
      BY <1>1
    <3>3. QED
      BY <3>1, <3>2
  <2>4. QED
    BY <1>1, <2>2, <2>3
<1>4. u = a \o c
  BY <1>1 DEF RemoveAt
<1> HIDE DEF a, c, u
<1>5. /\ u \in Seq(S) /\ Len(u) = N - 1 /\ u[1] = s[1]
      /\ \A i \in 2..(N - 1) : u[i] = s[i + 1]
  <2>1. u \in Seq(S) /\ Len(u) = Len(a) + Len(c)
        /\ \A i \in 1..(Len(a) + Len(c)) : u[i] = IF i <= Len(a) THEN a[i] ELSE c[i - Len(a)]
    BY <1>2, <1>3, <1>4, ConcatProperties
  <2>2. \A i \in 2..(N - 1) : i - 1 \in 1..(N - 2) /\ (i - 1) + 2 = i + 1 /\ i \in 1..(N - 1)
    BY <1>1
  <2>3. 1 \in 1..(N - 1)
    BY <1>1
  <2>4. QED
    BY <1>1, <1>2, <1>3, <2>1, <2>2, <2>3
<1>6. DOMAIN u = 1..(N - 1)
  BY <1>1, <1>5
<1>7. ASSUME NEW i \in DOMAIN u PROVE \E j \in (DOMAIN s) \ {2} : u[i] = s[j]
  <2>1. CASE i = 1
    BY <1>1, <1>5, <2>1
  <2>2. CASE i # 1
    <3>1. i \in 2..(N - 1) /\ i + 1 \in (DOMAIN s) \ {2}
      BY <1>1, <1>6, <2>2
    <3>2. QED
      BY <1>5, <3>1
  <2>3. QED
    BY <2>1, <2>2
<1>8. ASSUME NEW j \in (DOMAIN s) \ {2} PROVE \E i \in DOMAIN u : u[i] = s[j]
  <2>1. CASE j = 1
    BY <1>1, <1>5, <1>6, <2>1
  <2>2. CASE j # 1
    <3>1. j - 1 \in 2..(N - 1) /\ j - 1 \in DOMAIN u /\ (j - 1) + 1 = j
      BY <1>1, <1>6, <1>8, <2>2
    <3>2. QED
      BY <1>5, <3>1
  <2>3. QED
    BY <2>1, <2>2
<1>9. QED
  BY <1>5, <1>7, <1>8 DEF ToSet, u

-----------------------------------------------------------------------------
(***************************************************************************)
(* The lines the generator writes.                                         *)
(***************************************************************************)
\* A change is a valid line with the number of the change as after-image.
LEMMA ChangeIsLine ==
  ASSUME NEW t \in Tables, NEW k \in Keys, NEW op \in Operations, NEW s \in 1..MaxSeq
  PROVE  /\ Change(t, k, op, s) \in Records
         /\ Change(t, k, op, s).table = t /\ Change(t, k, op, s).key = k
         /\ Change(t, k, op, s).op = op /\ Change(t, k, op, s).seq = s
         /\ Change(t, k, op, s).val = s /\ Change(t, k, op, s).ok = TRUE
         /\ Change(t, k, op, s).val # LateVal
  BY LinesAssumption, ScaleAssumption DEF Change, Event

\* A rejected line has the number it used up.
LEMMA BrokenIsLine ==
  ASSUME NEW t \in Tables, NEW s \in 1..MaxSeq
  PROVE  /\ Broken(t, s) \in Records /\ Broken(t, s).table = t /\ Broken(t, s).seq = s
         /\ Broken(t, s).val = s /\ Broken(t, s).ok = FALSE /\ Broken(t, s).val # LateVal
  BY LinesAssumption, ScaleAssumption DEF Broken, Change, Event

\* The larger of 1 and a number.
LEMMA MaxOfOne ==
  ASSUME NEW m \in Int
  PROVE  Max({1, m}) = IF m <= 1 THEN 1 ELSE m
<1> DEFINE x == IF m <= 1 THEN 1 ELSE m
<1>1. x \in {1, m} /\ \A y \in {1, m} : x >= y
  OBVIOUS
<1>2. ASSUME NEW z \in {1, m}, \A y \in {1, m} : z >= y PROVE z = x
  BY <1>1, <1>2
<1> HIDE DEF x
<1>3. (CHOOSE z \in {1, m} : \A y \in {1, m} : z >= y) = x
  BY <1>1, <1>2
<1>4. QED
  BY <1>3 DEF x, Max

\* The made-up event of a batch is a line of the subscriptions.
LEMMA LateIsLine ==
  ASSUME TypeOK, MaxSeq >= 1, NEW b, NEW arrival \in {0, 2}, NEW r \in Late(b, arrival)
  PROVE  r \in Records /\ r.table = Subscriptions /\ r.val = LateVal /\ r.ok = TRUE
<1> DEFINE s == Max({1, current_sequence - LateLag})
<1>1. r = Event(Subscriptions, LateKey, "UPDATE", s, LateVal, arrival)
  BY DEF Late
<1>2. s \in 1..MaxSeq
  <2>1. current_sequence \in Nat /\ current_sequence <= MaxSeq /\ LateLag \in Nat /\ MaxSeq \in Nat
    BY ScaleAssumption, BoundsAssumption DEF TypeOK
  <2>2. current_sequence - LateLag \in Int /\ current_sequence - LateLag <= MaxSeq
    BY <2>1
  <2>3. QED
    BY <2>1, <2>2, MaxOfOne
<1> HIDE DEF s
<1>3. QED
  BY <1>1, <1>2, LinesAssumption DEF Event

\* The rejected lines of a batch take the next numbers, one each.
LEMMA BrokenNumbers ==
  ASSUME TypeOK, NEW b \in Nat \ {0},
         current_sequence + Cardinality(BrokenLines(b)) <= MaxSeq
  PROVE  /\ Cardinality(BrokenLines(b)) \in {1, 2}
         /\ MaxSeq >= 1
         /\ \A r \in BrokenLines(b) :
              /\ r \in Records /\ r.ok = FALSE /\ r.val # LateVal /\ r.table \in Tables
              /\ r.seq \in (current_sequence + 1)..(current_sequence + Cardinality(BrokenLines(b)))
         /\ \A n \in (current_sequence + 1)..(current_sequence + Cardinality(BrokenLines(b))) :
              \E r \in BrokenLines(b) : r.seq = n
         /\ \A r, s \in BrokenLines(b) : r.seq = s.seq => r = s
<1> DEFINE c == current_sequence
           C == Cardinality(BrokenLines(b))
<1>1. c \in Nat /\ MaxSeq \in Nat
  BY BoundsAssumption DEF TypeOK
<1>2. Accounts \in Tables /\ Payments \in Tables /\ Invoices \in Tables
  BY RolesAssumption
<1>3. ASSUME NEW t \in Tables, BrokenLines(b) = {Broken(t, c + 1)}
      PROVE  /\ C = 1 /\ MaxSeq >= 1
             /\ \A r \in BrokenLines(b) :
                  /\ r \in Records /\ r.ok = FALSE /\ r.val # LateVal /\ r.table \in Tables
                  /\ r.seq \in (c + 1)..(c + C)
             /\ \A n \in (c + 1)..(c + C) : \E r \in BrokenLines(b) : r.seq = n
             /\ \A r, s \in BrokenLines(b) : r.seq = s.seq => r = s
  <2>1. C = 1
    BY <1>3, FS_Singleton
  <2>2. c + 1 \in 1..MaxSeq /\ MaxSeq >= 1 /\ \A n \in (c + 1)..(c + C) : n = c + 1
    BY <1>1, <2>1
  <2> DEFINE r == Broken(t, c + 1)
  <2>3. /\ r \in Records /\ r.ok = FALSE /\ r.val # LateVal /\ r.table \in Tables
        /\ r.seq = c + 1
    BY <2>2, BrokenIsLine
  <2> HIDE DEF C, r
  <2>4. c + 1 \in (c + 1)..(c + C)
    BY <1>1, <2>1
  <2>5. BrokenLines(b) = {r}
    BY <1>3 DEF r
  <2>6. QED
    BY <2>1, <2>2, <2>3, <2>4, <2>5
<1>4. CASE b % 2 = 1
  <2>1. BrokenLines(b) = {Broken(Accounts, c + 1)}
    BY <1>4 DEF BrokenLines
  <2>2. QED
    BY <1>2, <1>3, <2>1
<1>5. CASE b % 2 = 0 /\ b # 2
  <2>1. BrokenLines(b) = {Broken(Payments, c + 1)}
    BY <1>5 DEF BrokenLines
  <2>2. QED
    BY <1>2, <1>3, <2>1
<1>6. CASE b = 2
  <2> DEFINE p == Broken(Payments, c + 1)
             q == Broken(Invoices, c + 2)
  <2>1. BrokenLines(b) = {p, q}
    BY <1>6 DEF BrokenLines
  <2>2. c + 1 # c + 2 /\ c + 1 \in Nat /\ c + 2 \in Nat
    BY <1>1
  <2>3. p.seq = c + 1 /\ q.seq = c + 2
    BY DEF Broken, Change, Event
  <2> HIDE DEF p, q
  <2>4. p # q
    BY <2>2, <2>3
  <2>5. Cardinality({p}) = 1 /\ IsFiniteSet({p})
    BY FS_Singleton
  <2>6. Cardinality({p} \cup {q}) = 1 + 1
    BY <2>4, <2>5, FS_AddElement
  <2>7. {p} \cup {q} = {p, q}
    OBVIOUS
  <2>8. C = 2
    BY <2>1, <2>6, <2>7
  <2>9. c + 1 \in 1..MaxSeq /\ c + 2 \in 1..MaxSeq /\ MaxSeq >= 1
    BY <1>1, <2>8
  <2>10. /\ p \in Records /\ p.ok = FALSE /\ p.val # LateVal /\ p.table \in Tables
         /\ q \in Records /\ q.ok = FALSE /\ q.val # LateVal /\ q.table \in Tables
    <3>1. /\ p \in Records /\ p.ok = FALSE /\ p.val # LateVal /\ p.table \in Tables
      BY <1>2, <2>9, BrokenIsLine DEF p
    <3>2. /\ q \in Records /\ q.ok = FALSE /\ q.val # LateVal /\ q.table \in Tables
      BY <1>2, <2>9, BrokenIsLine DEF q
    <3>3. QED
      BY <3>1, <3>2
  <2> HIDE DEF C
  <2>11. \A n \in (c + 1)..(c + C) : n = c + 1 \/ n = c + 2
    BY <1>1, <2>8
  <2>12. c + 1 \in (c + 1)..(c + C) /\ c + 2 \in (c + 1)..(c + C)
    BY <1>1, <2>8
  <2>13. QED
    <3>1. /\ C \in {1, 2}
          /\ \A r \in {p, q} :
               /\ r \in Records /\ r.ok = FALSE /\ r.val # LateVal /\ r.table \in Tables
               /\ r.seq \in (c + 1)..(c + C)
      BY <2>3, <2>8, <2>10, <2>12
    <3>2. \A n \in (c + 1)..(c + C) : \E r \in {p, q} : r.seq = n
      BY <2>3, <2>11
    <3>3. \A r, s \in {p, q} : r.seq = s.seq => r = s
      BY <2>2, <2>3
    <3>4. QED
      BY <2>1, <2>9, <3>1, <3>2, <3>3 DEF C
<1>7. b % 2 = 0 \/ b % 2 = 1
  OBVIOUS
<1>8. QED
  BY <1>4, <1>5, <1>6, <1>7

-----------------------------------------------------------------------------
(***************************************************************************)
(* Types.                                                                  *)
(***************************************************************************)
\* A batch number and a table in work are numbers.
LEMMA TypeFacts ==
  ASSUME TypeOK
  PROVE  /\ Len(TableOrder) \in Nat /\ Len(batches) \in Nat /\ DOMAIN batches = 1..Len(batches)
         /\ table \in Nat /\ applied \in Nat /\ current_sequence \in Nat /\ MaxSeq \in Nat
         /\ \A b \in DOMAIN batches : batches[b] \in BatchFiles
         /\ \A t \in Tables : events[t] \in Seq(Records) /\ held[t] \in Seq(Records)
         /\ Invoices \in Tables /\ Subscriptions \in Tables
<1>1. Len(TableOrder) \in Nat /\ Len(batches) \in Nat /\ DOMAIN batches = 1..Len(batches)
  BY BeforeCounts DEF TypeOK
<1>2. batches \in Seq(BatchFiles)
  BY DEF TypeOK
<1>3. \A b \in DOMAIN batches : batches[b] \in BatchFiles
  BY <1>2
<1>4. Invoices \in Tables /\ Subscriptions \in Tables
  BY RolesAssumption
<1>5. QED
  BY <1>1, <1>3, <1>4, BoundsAssumption DEF TypeOK

\* A sequence has in its set what a file may hold.
LEMMA ToSetType ==
  ASSUME NEW S, NEW s \in Seq(S)
  PROVE  ToSet(s) \subseteq S
  BY DEF ToSet

\* No line is in work between batches.
LEMMA NothingInEmpty ==
  /\ NoEvents \in [Tables -> Seq(Records)]
  /\ \A t \in Tables : NoEvents[t] = << >> /\ ToSet(NoEvents[t]) = {}
<1>1. << >> \in Seq(Records) /\ DOMAIN << >> = {}
  OBVIOUS
<1>2. ToSet(<< >>) = {}
  BY <1>1 DEF ToSet
<1>3. QED
  BY <1>1, <1>2 DEF NoEvents

\* The source starts in its types.
LEMMA InitType == Init => TypeOK
<1> SUFFICES ASSUME Init PROVE TypeOK
  OBVIOUS
<1>1. current_sequence \in 0..MaxSeq
  BY SnapshotNumbers DEF Init
<1>2. alive \in [Tables -> SUBSET Keys]
  BY SnapshotAssumption DEF Init
<1>3. last \in [Tables -> [Keys -> 0..MaxSeq]]
  <2>1. \A t \in Tables, k \in Keys :
          (IF k \in 1..Initial[t] THEN SnapshotSequence(t, k) ELSE 0) \in 0..MaxSeq
    BY SnapshotNumbers, BoundsAssumption
  <2>2. last = [t \in Tables |-> [k \in Keys |-> IF k \in 1..Initial[t] THEN SnapshotSequence(t, k) ELSE 0]]
    BY DEF Init
  <2>3. QED
    BY <2>1, <2>2
<1>4. counter \in [Tables -> Keys \cup {0}]
  <2>1. \A t \in Tables : Initial[t] \in Nat /\ 1..Initial[t] \subseteq Keys
    BY ScaleAssumption, SnapshotAssumption
  <2>2. \A t \in Tables : Initial[t] = 0 \/ Initial[t] \in 1..Initial[t]
    BY <2>1
  <2>3. QED
    BY <2>1, <2>2, ScaleAssumption DEF Init
<1>5. rows \in [Tables -> Rows]
  <2>1. \A t \in Tables : [k \in Keys |-> Snapshot(t, k)] \in Rows
    BY SnapshotIsRow DEF Rows
  <2>2. QED
    BY <2>1 DEF Init
<1>6. /\ batches \in Seq(BatchFiles) /\ applied \in 0..Len(batches)
      /\ Len(batches) <= IF table = 0 THEN MaxBatches ELSE MaxBatches - 1
  BY ScaleAssumption DEF Init
<1>7. held \in [Tables -> Seq(Records)] /\ events \in [Tables -> Seq(Records)]
  BY NothingInEmpty DEF Init
<1>8. table \in 0..Len(TableOrder) /\ made \in IF table = 0 THEN {0} ELSE 0..Quota[TableOrder[table]]
  BY BeforeCounts DEF Init
<1>9. QED
  BY <1>1, <1>2, <1>3, <1>4, <1>5, <1>6, <1>7, <1>8 DEF TypeOK

\* A change keeps the types of what it touches.
LEMMA MakeType ==
  ASSUME TypeOK, NEW t \in Tables, NEW k \in Keys, NEW op \in Operations,
         Generating(t), Make(t, k, op)
  PROVE  /\ current_sequence + 1 \in 1..MaxSeq
         /\ current_sequence' \in 0..MaxSeq
         /\ last' \in [Tables -> [Keys -> 0..MaxSeq]]
         /\ held' \in [Tables -> Seq(Records)]
         /\ table' \in 0..Len(TableOrder)
         /\ made' \in IF table' = 0 THEN {0} ELSE 0..Quota[TableOrder[table']]
         /\ events' \in [Tables -> Seq(Records)]
         /\ batches' \in Seq(BatchFiles)
         /\ Len(batches') <= IF table' = 0 THEN MaxBatches ELSE MaxBatches - 1
         /\ applied' \in 0..Len(batches')
         /\ rows' \in [Tables -> Rows]
<1> DEFINE s == current_sequence + 1
           c == Change(t, k, op, s)
<1>1. s \in 1..MaxSeq
  BY TypeFacts DEF Make
<1>2. c \in Records
  BY <1>1, ChangeIsLine
<1>3. events[t] \in Seq(Records) /\ events \in [Tables -> Seq(Records)]
  BY DEF TypeOK
<1>4. Append(events[t], c) \in Seq(Records)
  BY <1>2, <1>3, AppendAdds
<1> HIDE DEF c
<1>5. events' \in [Tables -> Seq(Records)]
  <2>1. events' = [events EXCEPT ![t] = Append(events[t], c)]
    BY DEF Make, c
  <2>2. QED
    BY <1>3, <1>4, <2>1
<1>6. last' \in [Tables -> [Keys -> 0..MaxSeq]]
  <2>1. last' = [last EXCEPT ![t][k] = s]
    BY DEF Make
  <2>2. last \in [Tables -> [Keys -> 0..MaxSeq]]
    BY DEF TypeOK
  <2>3. s \in 0..MaxSeq
    BY <1>1
  <2> HIDE DEF s
  <2>4. QED
    BY <2>1, <2>2, <2>3
<1>7. made' \in IF table' = 0 THEN {0} ELSE 0..Quota[TableOrder[table']]
  <2>1. table # 0 /\ TableOrder[table] = t /\ made < Quota[t] /\ table' = table /\ made' = made + 1
    BY DEF Generating, Make
  <2>2. made \in 0..Quota[t] /\ Quota[t] \in Nat
    BY <2>1, ScaleAssumption DEF TypeOK
  <2>3. QED
    BY <2>1, <2>2
<1>8. /\ UNCHANGED <<held, table, batches, applied, rows>> /\ current_sequence' = s
  BY DEF Make
<1>9. QED
  BY <1>1, <1>5, <1>6, <1>7, <1>8 DEF TypeOK

\* The files of a batch that is closed: lines in work, but the one held back,
\* and lines made up or rejected.
Kept(b) == IF Hold(b) THEN [events EXCEPT ![Invoices] = RemoveAt(@, 2)] ELSE events

File(b, arrival, t) ==
  ToSet(Kept(b)[t]) \cup {r \in Late(b, arrival) \cup BrokenLines(b) : r.table = t}

\* Holding back: at the second invoice line, once.
LEMMA HeldLine ==
  ASSUME TypeOK, NEW b, Hold(b)
  PROVE  events[Invoices] \in Seq(Records) /\ Len(events[Invoices]) >= 2
         /\ 2 \in DOMAIN events[Invoices] /\ events[Invoices][2] \in Records
<1>1. events[Invoices] \in Seq(Records)
  BY TypeFacts
<1>2. Len(events[Invoices]) \in Nat /\ DOMAIN events[Invoices] = 1..Len(events[Invoices])
  BY <1>1
<1>3. Len(events[Invoices]) > 2
  BY DEF Hold
<1>4. 2 \in DOMAIN events[Invoices]
  BY <1>2, <1>3
<1>5. QED
  BY <1>1, <1>2, <1>3, <1>4

\* What is kept of the lines in work.
LEMMA KeptType ==
  ASSUME TypeOK, NEW b
  PROVE  Kept(b) \in [Tables -> Seq(Records)]
<1>1. events \in [Tables -> Seq(Records)]
  BY DEF TypeOK
<1>2. CASE Hold(b)
  <2>1. RemoveAt(events[Invoices], 2) \in Seq(Records)
    BY <1>2, HeldLine, RemoveSecond
  <2>2. Kept(b) = [events EXCEPT ![Invoices] = RemoveAt(events[Invoices], 2)]
    BY <1>2 DEF Kept
  <2>3. QED
    BY <1>1, <2>1, <2>2
<1>3. QED
  BY <1>1, <1>2 DEF Kept

\* What CloseBatch does.
LEMMA Closes ==
  ASSUME TypeOK, CloseBatch
  PROVE  LET b == Len(batches) + 1
         IN  /\ b \in Nat \ {0}
             /\ table = Len(TableOrder) /\ table # 0
             /\ \E arrival \in {0, 2} :
                  batches' = Append(batches, [t \in Tables |-> File(b, arrival, t)])
             /\ held' = IF Hold(b)
                        THEN [held EXCEPT ![Invoices] = Append(held[Invoices], events[Invoices][2])]
                        ELSE held
             /\ current_sequence' = current_sequence + Cardinality(BrokenLines(b))
             /\ current_sequence' <= MaxSeq
             /\ table' = 0 /\ made' = 0 /\ events' = NoEvents
             /\ UNCHANGED <<alive, last, counter, applied, rows>>
<1> DEFINE b == Len(batches) + 1
<1>1. b \in Nat \ {0}
  BY TypeFacts
<1>2. Len(TableOrder) # 0
  <2>1. PICK t \in Tables : TRUE
    BY RolesAssumption
  <2>2. DOMAIN TableOrder = 1..Len(TableOrder) /\ DOMAIN TableOrder # {}
    BY <2>1, OrderAssumption
  <2>3. QED
    BY <2>2
<1>3. /\ table = Len(TableOrder)
      /\ \E arrival \in {0, 2} :
           batches' = Append(batches, [t \in Tables |-> File(b, arrival, t)])
      /\ held' = IF Hold(b)
                 THEN [held EXCEPT ![Invoices] = Append(held[Invoices], events[Invoices][2])]
                 ELSE held
      /\ current_sequence' = current_sequence + Cardinality(BrokenLines(b))
      /\ current_sequence' <= MaxSeq
      /\ table' = 0 /\ made' = 0 /\ events' = NoEvents
      /\ UNCHANGED <<alive, last, counter, applied, rows>>
  BY DEF CloseBatch, File, Kept
<1>4. QED
  BY <1>1, <1>2, <1>3

\* The files of a batch are files.
LEMMA FileType ==
  ASSUME TypeOK, NEW b \in Nat \ {0}, NEW arrival \in {0, 2},
         current_sequence + Cardinality(BrokenLines(b)) <= MaxSeq
  PROVE  [t \in Tables |-> File(b, arrival, t)] \in BatchFiles
<1>1. ASSUME NEW t \in Tables PROVE File(b, arrival, t) \subseteq Records
  <2>1. ToSet(Kept(b)[t]) \subseteq Records
    BY KeptType, ToSetType
  <2>2. MaxSeq >= 1 /\ BrokenLines(b) \subseteq Records
    BY BrokenNumbers
  <2>3. Late(b, arrival) \subseteq Records
    BY <2>2, LateIsLine
  <2>4. QED
    BY <2>1, <2>2, <2>3 DEF File
<1>2. QED
  BY <1>1 DEF BatchFiles

\* What is parsed of a written file are valid lines of the table.
LEMMA ParsedOfBatch ==
  ASSUME TypeOK, NEW b \in DOMAIN batches, NEW t \in Tables
  PROVE  /\ batches[b][t] \subseteq Records
         /\ Parsed(batches[b][t], t) \subseteq Record
         /\ \A r \in Parsed(batches[b][t], t) : r \in batches[b][t] /\ r.ok /\ r.table = t
<1>1. batches[b][t] \subseteq Records
  BY TypeFacts DEF BatchFiles
<1>2. QED
  BY <1>1, ParsedType DEF Parsed, Deduplicated, Accepted

\* Every step keeps the types.
LEMMA StepType ==
  ASSUME TypeOK, [Next]_vars
  PROVE  TypeOK'
<1>1. CASE OpenBatch
  <2>1. table' = 1 /\ made' = 0 /\ 1 \in 0..Len(TableOrder)
    <3>1. PICK t \in Tables : TRUE
      BY RolesAssumption
    <3>2. DOMAIN TableOrder = 1..Len(TableOrder) /\ DOMAIN TableOrder # {}
      BY <3>1, OrderAssumption
    <3>3. Len(TableOrder) \in Nat /\ Len(TableOrder) # 0
      BY <3>2, TypeFacts
    <3>4. QED
      BY <1>1, <3>3 DEF OpenBatch, TypeOK
  <2>2. Quota[TableOrder[1]] \in Nat
    <3>1. 1 \in DOMAIN TableOrder
      BY <2>1, OrderAssumption
    <3>2. TableOrder[1] \in Tables
      BY <3>1, OrderAssumption
    <3>3. QED
      BY <3>2, ScaleAssumption
  <2>3. made' \in IF table' = 0 THEN {0} ELSE 0..Quota[TableOrder[table']]
    BY <2>1, <2>2
  <2>4. events' = held /\ held' = NoEvents /\ UNCHANGED <<current_sequence, alive, last, counter, batches, applied, rows>>
    BY <1>1 DEF OpenBatch, Released
  <2>5. Len(batches') <= IF table' = 0 THEN MaxBatches ELSE MaxBatches - 1
    BY <1>1, <2>1, <2>4, TypeFacts, ScaleAssumption DEF OpenBatch
  <2>6. QED
    BY <2>1, <2>3, <2>4, <2>5, NothingInEmpty DEF TypeOK
<1>2. ASSUME NEW t \in Tables, InsertEntity(t) PROVE TypeOK'
  <2>1. Generating(t) /\ counter[t] + 1 \in Keys /\ Make(t, counter[t] + 1, "INSERT")
        /\ counter' = [counter EXCEPT ![t] = counter[t] + 1]
        /\ alive' = [alive EXCEPT ![t] = alive[t] \cup {counter[t] + 1}]
    BY <1>2 DEF InsertEntity
  <2>2. alive' \in [Tables -> SUBSET Keys] /\ counter' \in [Tables -> Keys \cup {0}]
    BY <2>1 DEF TypeOK
  <2>3. QED
    BY <2>1, <2>2, MakeType DEF TypeOK, Operations
<1>3. ASSUME NEW t \in Tables, NEW k \in Keys, UpdateEntity(t, k) PROVE TypeOK'
  BY <1>3, MakeType DEF UpdateEntity, TypeOK, Operations
<1>4. ASSUME NEW t \in Tables, NEW k \in Keys, DeleteEntity(t, k) PROVE TypeOK'
  <2>1. Generating(t) /\ Make(t, k, "DELETE") /\ UNCHANGED counter
        /\ alive' = [alive EXCEPT ![t] = alive[t] \ {k}]
    BY <1>4 DEF DeleteEntity
  <2>2. alive' \in [Tables -> SUBSET Keys]
    BY <2>1 DEF TypeOK
  <2>3. QED
    BY <2>1, <2>2, MakeType DEF TypeOK, Operations
<1>5. CASE NextTable
  <2>1. table + 1 \in 1..Len(TableOrder) /\ table' = table + 1 /\ made' = 0
    BY <1>5, TypeFacts DEF NextTable
  <2>2. Quota[TableOrder[table + 1]] \in Nat
    <3>1. TableOrder[table + 1] \in Tables
      BY <2>1, OrderAssumption
    <3>2. QED
      BY <3>1, ScaleAssumption
  <2>3. table' \in 0..Len(TableOrder) /\ made' \in IF table' = 0 THEN {0} ELSE 0..Quota[TableOrder[table']]
    BY <2>1, <2>2, TypeFacts
  <2>4. Len(batches') <= IF table' = 0 THEN MaxBatches ELSE MaxBatches - 1
    BY <1>5, <2>1, TypeFacts DEF NextTable, TypeOK
  <2>5. QED
    BY <1>5, <2>3, <2>4 DEF NextTable, TypeOK
<1>6. CASE CloseBatch
  <2> DEFINE b == Len(batches) + 1
  <2>1. /\ b \in Nat \ {0}
        /\ table = Len(TableOrder) /\ table # 0
        /\ \E arrival \in {0, 2} :
             batches' = Append(batches, [t \in Tables |-> File(b, arrival, t)])
        /\ held' = IF Hold(b)
                   THEN [held EXCEPT ![Invoices] = Append(held[Invoices], events[Invoices][2])]
                   ELSE held
        /\ current_sequence' = current_sequence + Cardinality(BrokenLines(b))
        /\ current_sequence' <= MaxSeq
        /\ table' = 0 /\ made' = 0 /\ events' = NoEvents
        /\ UNCHANGED <<alive, last, counter, applied, rows>>
    BY <1>6, Closes
  <2>2. current_sequence' \in 0..MaxSeq
    <3> DEFINE C == Cardinality(BrokenLines(b))
    <3>1. C \in {1, 2}
      BY <2>1, BrokenNumbers
    <3> HIDE DEF C
    <3>2. current_sequence' = current_sequence + C
      BY <2>1 DEF C
    <3>3. QED
      BY <2>1, <3>1, <3>2, TypeFacts
  <2>3. PICK arrival \in {0, 2} : batches' = Append(batches, [t \in Tables |-> File(b, arrival, t)])
    BY <2>1
  <2>4. [t \in Tables |-> File(b, arrival, t)] \in BatchFiles
    BY <2>1, FileType
  <2>5. batches' \in Seq(BatchFiles) /\ Len(batches') = Len(batches) + 1
    BY <2>3, <2>4 DEF TypeOK
  <2>6. Len(batches') <= MaxBatches
    BY <2>1, <2>5, TypeFacts, ScaleAssumption DEF TypeOK
  <2>7. held' \in [Tables -> Seq(Records)]
    <3>1. held \in [Tables -> Seq(Records)]
      BY DEF TypeOK
    <3>2. CASE Hold(b)
      <4>1. Append(held[Invoices], events[Invoices][2]) \in Seq(Records)
        BY <3>2, HeldLine, TypeFacts, AppendAdds
      <4>2. QED
        BY <2>1, <3>1, <3>2, <4>1
    <3>3. QED
      BY <2>1, <3>1, <3>2
  <2>8. /\ table' \in 0..Len(TableOrder)
        /\ made' \in IF table' = 0 THEN {0} ELSE 0..Quota[TableOrder[table']]
        /\ Len(batches') <= IF table' = 0 THEN MaxBatches ELSE MaxBatches - 1
        /\ applied' \in 0..Len(batches')
    <3>1. table' = 0 /\ made' = 0 /\ applied' = applied
      BY <2>1
    <3>2. Len(TableOrder) \in Nat /\ Len(batches) \in Nat /\ applied \in 0..Len(batches)
      BY TypeFacts DEF TypeOK
    <3>3. QED
      BY <2>5, <2>6, <3>1, <3>2
  <2>9. /\ alive' \in [Tables -> SUBSET Keys] /\ last' \in [Tables -> [Keys -> 0..MaxSeq]]
        /\ counter' \in [Tables -> Keys \cup {0}] /\ rows' \in [Tables -> Rows]
        /\ events' \in [Tables -> Seq(Records)]
    BY <2>1, NothingInEmpty DEF TypeOK
  <2>10. QED
    BY <2>2, <2>5, <2>7, <2>8, <2>9 DEF TypeOK
<1>7. CASE ApplyBatch
  <2>1. applied + 1 \in DOMAIN batches /\ applied' = applied + 1 /\ applied + 1 \in Nat
    BY <1>7, TypeFacts DEF ApplyBatch, TypeOK
  <2>2. rows' = [t \in Tables |-> Merge(rows[t], Parsed(batches[applied + 1][t], t), applied + 1)]
    BY <1>7, <2>1 DEF ApplyBatch
  <2>3. ASSUME NEW t \in Tables
        PROVE  Merge(rows[t], Parsed(batches[applied + 1][t], t), applied + 1) \in Rows
    <3>1. rows[t] \in Rows
      BY DEF TypeOK
    <3>2. QED
      BY <2>1, <3>1, ParsedOfBatch, MergeType
  <2>4. rows' \in [Tables -> Rows]
    BY <2>2, <2>3
  <2>5. UNCHANGED <<source, batches>> /\ applied' \in 0..Len(batches)
    BY <1>7, <2>1, TypeFacts DEF ApplyBatch
  <2>6. QED
    BY <2>4, <2>5 DEF TypeOK, source
<1>8. CASE UNCHANGED vars
  BY <1>8 DEF vars, source, TypeOK
<1>9. QED
  BY <1>1, <1>2, <1>3, <1>4, <1>5, <1>6, <1>7, <1>8 DEF Next

-----------------------------------------------------------------------------
(***************************************************************************)
(* What a step does to the lines.                                          *)
(***************************************************************************)
\* Where a line is looked for.
LEMMA LinesWhere ==
  /\ \A r : r \in InWork <=> \E t \in Tables : r \in ToSet(events[t])
  /\ \A r : r \in HeldBack <=> \E t \in Tables : r \in ToSet(held[t])
  /\ \A b, r : r \in Written(b) <=> r.val # LateVal /\ \E t \in Tables : r \in batches[b][t]
  /\ \A r : r \in Lines <=> \/ \E b \in DOMAIN batches : r \in Written(b)
                            \/ r \in InWork
                            \/ r \in HeldBack
<1>1. \A r : r \in InWork <=> \E t \in Tables : r \in ToSet(events[t])
  BY DEF InWork
<1>2. \A r : r \in HeldBack <=> \E t \in Tables : r \in ToSet(held[t])
  BY DEF HeldBack
<1>3. \A b, r : r \in Written(b) <=> r.val # LateVal /\ \E t \in Tables : r \in batches[b][t]
  BY DEF Written
<1>4. \A r : r \in Lines <=> \/ \E b \in DOMAIN batches : r \in Written(b)
                            \/ r \in InWork
                            \/ r \in HeldBack
  <2> DEFINE W == UNION {Written(b) : b \in DOMAIN batches}
  <2>1. \A r : r \in W <=> \E b \in DOMAIN batches : r \in Written(b)
    OBVIOUS
  <2>2. Lines = W \cup InWork \cup HeldBack
    BY DEF Lines
  <2> HIDE DEF W
  <2>3. QED
    BY <2>1, <2>2
<1>5. QED
  BY <1>1, <1>2, <1>3, <1>4

\* The same after a step.
LEMMA LinesWhereNext ==
  /\ \A r : r \in InWork' <=> \E t \in Tables : r \in ToSet(events'[t])
  /\ \A r : r \in HeldBack' <=> \E t \in Tables : r \in ToSet(held'[t])
  /\ \A b, r : r \in Written(b)' <=> r.val # LateVal /\ \E t \in Tables : r \in batches'[b][t]
  /\ \A r : r \in Lines' <=> \/ \E b \in DOMAIN batches' : r \in Written(b)'
                             \/ r \in InWork'
                             \/ r \in HeldBack'
<1>1. \A r : r \in InWork' <=> \E t \in Tables : r \in ToSet(events'[t])
  BY DEF InWork
<1>2. \A r : r \in HeldBack' <=> \E t \in Tables : r \in ToSet(held'[t])
  BY DEF HeldBack
<1>3. \A b, r : r \in Written(b)' <=> r.val # LateVal /\ \E t \in Tables : r \in batches'[b][t]
  BY DEF Written
<1>4. \A r : r \in Lines' <=> \/ \E b \in DOMAIN batches' : r \in Written(b)'
                             \/ r \in InWork'
                             \/ r \in HeldBack'
  <2> DEFINE W == UNION {Written(b)' : b \in DOMAIN batches'}
  <2>1. \A r : r \in W <=> \E b \in DOMAIN batches' : r \in Written(b)'
    OBVIOUS
  <2>2. Lines' = W \cup InWork' \cup HeldBack'
    BY DEF Lines
  <2> HIDE DEF W
  <2>3. QED
    BY <2>1, <2>2
<1>5. QED
  BY <1>1, <1>2, <1>3, <1>4

\* Lines are records, with a number, a table and a key.
LEMMA LineType ==
  ASSUME TypeOK, NEW r \in Lines
  PROVE  r \in Records /\ r.seq \in 1..MaxSeq /\ r.table \in Tables /\ r.key \in Keys /\ r.op \in Operations
<1>1. r \in Records
  <2>1. CASE r \in InWork
    <3>1. PICK t \in Tables : r \in ToSet(events[t])
      BY <2>1, LinesWhere
    <3>2. QED
      BY <3>1, TypeFacts, ToSetType
  <2>2. CASE r \in HeldBack
    <3>1. PICK t \in Tables : r \in ToSet(held[t])
      BY <2>2, LinesWhere
    <3>2. QED
      BY <3>1, TypeFacts, ToSetType
  <2>3. CASE \E b \in DOMAIN batches : r \in Written(b)
    <3>1. PICK b \in DOMAIN batches : r \in Written(b)
      BY <2>3
    <3>2. PICK t \in Tables : r \in batches[b][t]
      BY <3>1, LinesWhere
    <3>3. QED
      BY <3>2, ParsedOfBatch
  <2>4. QED
    BY <2>1, <2>2, <2>3, LinesWhere
<1>2. QED
  BY <1>1, RecordsAssumption DEF Record

\* A step that touches neither the batch in work nor the written ones.
LEMMA SameLines ==
  ASSUME UNCHANGED <<events, held, batches>>
  PROVE  /\ InWork' = InWork /\ HeldBack' = HeldBack /\ Lines' = Lines
         /\ \A b : Written(b)' = Written(b)
  BY DEF InWork, HeldBack, Lines, Written

\* Opening a batch brings the lines held back to work.
LEMMA OpenLines ==
  ASSUME LinesFiled, OpenBatch
  PROVE  /\ events = NoEvents /\ events' = held /\ held' = NoEvents
         /\ InWork = {} /\ InWork' = HeldBack /\ HeldBack' = {} /\ Lines' = Lines
         /\ \A b : Written(b)' = Written(b)
<1>1. events = NoEvents /\ events' = held /\ held' = NoEvents /\ batches' = batches
  BY DEF OpenBatch, Released, LinesFiled
<1>2. InWork = {} /\ HeldBack' = {}
  BY <1>1, NothingInEmpty DEF InWork, HeldBack
<1>3. InWork' = HeldBack
  BY <1>1 DEF InWork, HeldBack
<1>4. \A b : Written(b)' = Written(b)
  BY <1>1 DEF Written
<1>5. Lines' = Lines
  BY <1>1, <1>2, <1>3, <1>4 DEF Lines
<1>6. QED
  BY <1>1, <1>2, <1>3, <1>4, <1>5

\* Line c of a change is one more line in work, with the next number.
Adds(c, t, k, op) ==
  /\ c = Change(t, k, op, current_sequence + 1)
  /\ c \in Records /\ c.table = t /\ c.key = k /\ c.op = op /\ c.ok = TRUE
  /\ c.seq = current_sequence + 1
  /\ events' = [events EXCEPT ![t] = Append(events[t], c)]
  /\ ToSet(events'[t]) = ToSet(events[t]) \cup {c}
  /\ InWork' = InWork \cup {c} /\ HeldBack' = HeldBack /\ Lines' = Lines \cup {c}
  /\ \A b : Written(b)' = Written(b)

\* Making a change adds its line.
LEMMA MakeLines ==
  ASSUME TypeOK, NEW t \in Tables, NEW k \in Keys, NEW op \in Operations, Make(t, k, op)
  PROVE  \E c : Adds(c, t, k, op)
<1>0. PICK c : c = Change(t, k, op, current_sequence + 1)
  OBVIOUS
<1>1. current_sequence + 1 \in 1..MaxSeq
  BY TypeFacts DEF Make
<1>2. c \in Records /\ c.table = t /\ c.key = k /\ c.op = op /\ c.ok = TRUE /\ c.seq = current_sequence + 1
  <2> DEFINE s == current_sequence + 1
  <2>1. s \in 1..MaxSeq /\ c = Change(t, k, op, s)
    BY <1>0, <1>1
  <2> HIDE DEF s
  <2>2. c \in Records /\ c.table = t /\ c.key = k /\ c.op = op /\ c.ok = TRUE /\ c.seq = s
    BY <2>1, LinesAssumption DEF Change, Event
  <2>3. QED
    BY <2>2 DEF s
<1>3. /\ events' = [events EXCEPT ![t] = Append(events[t], c)]
      /\ UNCHANGED <<held, batches>>
  BY <1>0 DEF Make
<1>4. ToSet(Append(events[t], c)) = ToSet(events[t]) \cup {c}
  BY <1>2, TypeFacts, AppendAdds
<1>5. DOMAIN events = Tables
  BY DEF TypeOK
<1>6. /\ ToSet(events'[t]) = ToSet(events[t]) \cup {c}
      /\ \A u \in Tables : u # t => events'[u] = events[u]
  BY <1>3, <1>4, <1>5
<1>7. InWork' = InWork \cup {c}
  <2>1. InWork' = UNION {ToSet(events'[u]) : u \in Tables}
    BY DEF InWork
  <2>2. \A r : r \in InWork' <=> \E u \in Tables : r \in ToSet(events'[u])
    BY <2>1
  <2>3. ASSUME NEW r PROVE r \in InWork' <=> r \in InWork \cup {c}
    <3>1. ASSUME r \in InWork' PROVE r \in InWork \cup {c}
      <4>1. PICK u \in Tables : r \in ToSet(events'[u])
        BY <2>2, <3>1
      <4>2. u = t \/ ToSet(events'[u]) = ToSet(events[u])
        BY <1>6
      <4>3. QED
        BY <1>6, <4>1, <4>2, LinesWhere
    <3>2. ASSUME r \in InWork PROVE r \in InWork'
      <4>1. PICK u \in Tables : r \in ToSet(events[u])
        BY <3>2, LinesWhere
      <4>2. u = t \/ ToSet(events'[u]) = ToSet(events[u])
        BY <1>6
      <4>3. QED
        BY <1>6, <2>2, <4>1, <4>2
    <3>3. c \in InWork'
      BY <1>6, <2>2
    <3>4. QED
      BY <3>1, <3>2, <3>3
  <2>4. QED
    BY <2>3
<1>8. HeldBack' = HeldBack /\ \A b : Written(b)' = Written(b)
  BY <1>3 DEF HeldBack, Written
<1>9. Lines' = Lines \cup {c}
  <2>1. batches' = batches
    BY <1>3
  <2>2. \A r : r \in Lines' <=> r \in Lines \cup {c}
    BY <1>7, <1>8, <2>1, LinesWhere, LinesWhereNext
  <2>3. QED
    BY <2>2
<1>10. Adds(c, t, k, op)
  BY <1>0, <1>2, <1>3, <1>6, <1>7, <1>8, <1>9 DEF Adds
<1>11. QED
  BY <1>10

\* A valid line that was not made up is not taken for one that was.
LEMMA ChangesAreKept ==
  ASSUME TypeOK, LinesFiled, LinesNumbered, NEW r \in InWork \cup HeldBack
  PROVE  r.ok /\ r.val # LateVal /\ r = Change(r.table, r.key, r.op, r.seq)
<1>1. r \in Lines
  BY LinesWhere
<1>2. r.ok
  BY LinesWhere DEF LinesFiled
<1>3. r.table \in Tables /\ r.key \in Keys /\ r.op \in Operations /\ r.seq \in 1..MaxSeq
  BY <1>1, LineType
<1>4. r = Change(r.table, r.key, r.op, r.seq)
  <2>1. \A l \in Lines : l.ok => l = Change(l.table, l.key, l.op, l.seq)
    BY DEF LinesNumbered
  <2>2. QED
    BY <1>1, <1>2, <2>1
<1>5. Change(r.table, r.key, r.op, r.seq).val # LateVal
  BY <1>3, ScaleAssumption DEF Change, Event
<1>6. QED
  BY <1>2, <1>4, <1>5

\* The line of the invoices that a batch holds back, if it does.
HeldNow(b) == IF Hold(b) THEN {events[Invoices][2]} ELSE {}

\* Closing a batch moves the line it holds back to the held ones, and the
\* others, with the rejected lines, to the batch it writes.
LEMMA CloseLines ==
  ASSUME TypeOK, LinesFiled, LinesNumbered, LinesDiffer, CloseBatch,
         NEW b, b = Len(batches) + 1
  PROVE  /\ b \notin DOMAIN batches /\ DOMAIN batches' = DOMAIN batches \cup {b}
         /\ \A d \in DOMAIN batches : batches'[d] = batches[d] /\ Written(d)' = Written(d)
         /\ HeldNow(b) \subseteq InWork
         /\ Written(b)' = (InWork \ HeldNow(b)) \cup BrokenLines(b)
         /\ InWork' = {} /\ HeldBack' = HeldBack \cup HeldNow(b)
         /\ Lines' = Lines \cup BrokenLines(b)
         /\ \A t \in Tables : \A r \in batches'[b][t] :
              r.table = t /\ (r.val = LateVal => t = Subscriptions)
<1> DEFINE B == BrokenLines(b)
<1>1. /\ b \in Nat \ {0}
      /\ \E arrival \in {0, 2} :
           batches' = Append(batches, [t \in Tables |-> File(b, arrival, t)])
      /\ held' = IF Hold(b)
                 THEN [held EXCEPT ![Invoices] = Append(held[Invoices], events[Invoices][2])]
                 ELSE held
      /\ current_sequence + Cardinality(B) <= MaxSeq
      /\ events' = NoEvents
  BY Closes
<1>2. PICK arrival \in {0, 2} : batches' = Append(batches, [t \in Tables |-> File(b, arrival, t)])
  BY <1>1
<1> DEFINE F == [t \in Tables |-> File(b, arrival, t)]
<1>3. F \in BatchFiles
  BY <1>1, FileType
<1>4. /\ b \notin DOMAIN batches /\ DOMAIN batches' = DOMAIN batches \cup {b}
      /\ \A d \in DOMAIN batches : batches'[d] = batches[d]
      /\ batches'[b] = F
  <2> HIDE DEF F
  <2>1. batches \in Seq(BatchFiles) /\ batches' = Append(batches, F)
    BY <1>2 DEF TypeOK, F
  <2>2. Len(batches') = Len(batches) + 1 /\ batches' \in Seq(BatchFiles)
        /\ batches'[Len(batches) + 1] = F /\ \A d \in 1..Len(batches) : batches'[d] = batches[d]
    BY <1>3, <2>1, AppendAdds
  <2>3. DOMAIN batches = 1..Len(batches) /\ DOMAIN batches' = 1..(Len(batches) + 1) /\ Len(batches) \in Nat
    BY <2>1, <2>2
  <2>4. QED
    BY <2>2, <2>3
<1>5. \A d \in DOMAIN batches : Written(d)' = Written(d)
  BY <1>4 DEF Written
<1>6. InWork' = {}
  BY <1>1, NothingInEmpty DEF InWork
<1>7. HeldNow(b) \subseteq InWork
  <2>1. CASE Hold(b)
    <3>1. 2 \in DOMAIN events[Invoices]
      BY <2>1, HeldLine
    <3>2. events[Invoices][2] \in ToSet(events[Invoices])
      BY <3>1 DEF ToSet
    <3>3. QED
      BY <2>1, <3>2, LinesWhere, TypeFacts DEF HeldNow
  <2>2. QED
    BY <2>1 DEF HeldNow
<1>8. HeldBack' = HeldBack \cup HeldNow(b)
  <2>1. CASE Hold(b)
    <3> DEFINE h == events[Invoices][2]
    <3>1. h \in Records /\ Invoices \in Tables /\ held[Invoices] \in Seq(Records)
      BY <2>1, HeldLine, TypeFacts
    <3>2. ToSet(Append(held[Invoices], h)) = ToSet(held[Invoices]) \cup {h}
      BY <3>1, AppendAdds
    <3> HIDE DEF h
    <3>3. DOMAIN held = Tables /\ held' = [held EXCEPT ![Invoices] = Append(held[Invoices], h)]
      BY <1>1, <2>1 DEF TypeOK, h
    <3>4. /\ ToSet(held'[Invoices]) = ToSet(held[Invoices]) \cup {h}
          /\ \A u \in Tables : u # Invoices => held'[u] = held[u]
      BY <3>1, <3>2, <3>3
    <3>5. \A r : r \in HeldBack' <=> \E u \in Tables : r \in ToSet(held'[u])
      BY DEF HeldBack
    <3>6. ASSUME NEW r PROVE r \in HeldBack' <=> r \in HeldBack \cup {h}
      <4>1. ASSUME r \in HeldBack' PROVE r \in HeldBack \cup {h}
        <5>1. PICK u \in Tables : r \in ToSet(held'[u])
          BY <3>5, <4>1
        <5>2. u = Invoices \/ ToSet(held'[u]) = ToSet(held[u])
          BY <3>4
        <5>3. QED
          BY <3>1, <3>4, <5>1, <5>2, LinesWhere
      <4>2. ASSUME r \in HeldBack PROVE r \in HeldBack'
        <5>1. PICK u \in Tables : r \in ToSet(held[u])
          BY <4>2, LinesWhere
        <5>2. u = Invoices \/ ToSet(held'[u]) = ToSet(held[u])
          BY <3>4
        <5>3. QED
          BY <3>1, <3>4, <3>5, <5>1, <5>2
      <4>3. h \in HeldBack'
        BY <3>1, <3>4, <3>5
      <4>4. QED
        BY <4>1, <4>2, <4>3
    <3>7. HeldNow(b) = {h}
      BY <2>1 DEF HeldNow, h
    <3>8. QED
      BY <3>6, <3>7
  <2>2. CASE ~ Hold(b)
    BY <1>1, <2>2 DEF HeldNow, HeldBack
  <2>3. QED
    BY <2>1, <2>2
<1>9. UNION {ToSet(Kept(b)[t]) : t \in Tables} = InWork \ HeldNow(b)
  <2>1. CASE Hold(b)
    <3> DEFINE e == events[Invoices]
               h == e[2]
    <3>1. e \in Seq(Records) /\ Len(e) >= 2 /\ 2 \in DOMAIN e /\ Invoices \in Tables
      BY <2>1, HeldLine, TypeFacts
    <3>2. ToSet(RemoveAt(e, 2)) = {e[i] : i \in (DOMAIN e) \ {2}}
      BY <3>1, RemoveSecond
    <3>3. \A i \in DOMAIN e : e[i] = h => i = 2
      BY <3>1 DEF LinesDiffer
    <3>4. ToSet(e) = {e[i] : i \in DOMAIN e}
      BY DEF ToSet
    <3> HIDE DEF e
    <3>5. ToSet(RemoveAt(e, 2)) = ToSet(e) \ {h}
      BY <3>1, <3>2, <3>3, <3>4
    <3>6. DOMAIN events = Tables /\ Kept(b) = [events EXCEPT ![Invoices] = RemoveAt(e, 2)]
      BY <2>1 DEF TypeOK, Kept, e
    <3>7. /\ ToSet(Kept(b)[Invoices]) = ToSet(e) \ {h}
          /\ \A u \in Tables : u # Invoices => Kept(b)[u] = events[u]
      BY <3>1, <3>5, <3>6
    <3>8. h.table = Invoices
      <4>1. h \in ToSet(events[Invoices])
        BY <3>1, <3>4 DEF e
      <4>2. QED
        BY <3>1, <4>1 DEF LinesFiled
    <3>9. \A u \in Tables : \A r \in ToSet(events[u]) : r.table = u
      BY DEF LinesFiled
    <3> HIDE DEF h
    <3>10. \A u \in Tables : ToSet(Kept(b)[u]) = ToSet(events[u]) \ {h}
      <4>1. ASSUME NEW u \in Tables PROVE ToSet(Kept(b)[u]) = ToSet(events[u]) \ {h}
        <5>1. CASE u = Invoices
          BY <3>7, <5>1 DEF e
        <5>2. CASE u # Invoices
          <6>1. h \notin ToSet(events[u])
            BY <3>8, <3>9, <5>2
          <6>2. ToSet(Kept(b)[u]) = ToSet(events[u])
            BY <3>7, <5>2
          <6>3. QED
            BY <6>1, <6>2
        <5>3. QED
          BY <5>1, <5>2
      <4>2. QED
        BY <4>1
    <3>11. HeldNow(b) = {h}
      BY <2>1 DEF HeldNow, h, e
    <3>12. \A r : (\E u \in Tables : r \in ToSet(Kept(b)[u])) <=> r \in InWork /\ r # h
      BY <3>10, LinesWhere
    <3>13. QED
      BY <3>11, <3>12
  <2>2. CASE ~ Hold(b)
    BY <2>2 DEF HeldNow, Kept, InWork
  <2>3. QED
    BY <2>1, <2>2
<1>10. /\ \A r \in B : r.val # LateVal /\ r.table \in Tables
       /\ MaxSeq >= 1
  BY <1>1, BrokenNumbers
<1>11. \A r \in Late(b, arrival) : r.val = LateVal /\ r.table = Subscriptions
  BY <1>10, LateIsLine
<1>12. \A r \in InWork : r.val # LateVal
  BY ChangesAreKept
<1>13. \A t \in Tables : \A r : r \in batches'[b][t] <=>
         \/ r \in ToSet(Kept(b)[t])
         \/ r \in Late(b, arrival) \cup B /\ r.table = t
  BY <1>4 DEF File
<1>14. ASSUME NEW r PROVE r \in Written(b)' <=> r \in (InWork \ HeldNow(b)) \cup B
  <2>1. r \in Written(b)' <=> r.val # LateVal /\ \E t \in Tables : r \in batches'[b][t]
    BY DEF Written
  <2>2. r \in InWork \ HeldNow(b) <=> \E t \in Tables : r \in ToSet(Kept(b)[t])
    BY <1>9
  <2> HIDE DEF B
  <2>3. ASSUME r \in Written(b)' PROVE r \in (InWork \ HeldNow(b)) \cup B
    BY <2>1, <2>2, <2>3, <1>11, <1>13
  <2>4. ASSUME r \in InWork \ HeldNow(b) PROVE r \in Written(b)'
    BY <2>1, <2>2, <2>4, <1>12, <1>13
  <2>5. ASSUME r \in B PROVE r \in Written(b)'
    BY <2>1, <2>5, <1>10, <1>13
  <2>6. QED
    BY <2>3, <2>4, <2>5
<1>15. Written(b)' = (InWork \ HeldNow(b)) \cup B
  BY <1>14
<1>16. Lines' = Lines \cup B
  <2> HIDE DEF B
  <2>1. \A r : (\E d \in DOMAIN batches' : r \in Written(d)')
               <=> (\E d \in DOMAIN batches : r \in Written(d)) \/ r \in Written(b)'
    <3>1. \A d \in DOMAIN batches' : d = b \/ (d \in DOMAIN batches /\ Written(d)' = Written(d))
      BY <1>4, <1>5
    <3>2. \A d \in DOMAIN batches : d \in DOMAIN batches' /\ Written(d)' = Written(d)
      BY <1>4, <1>5
    <3>3. b \in DOMAIN batches'
      BY <1>4
    <3>4. QED
      BY <3>1, <3>2, <3>3
  <2>2. \A r : r \in Lines' <=> r \in Lines \cup B
    BY <2>1, <1>6, <1>7, <1>8, <1>15, LinesWhere, LinesWhereNext
  <2>3. QED
    BY <2>2
<1>17. ASSUME NEW t \in Tables, NEW r \in batches'[b][t]
       PROVE  r.table = t /\ (r.val = LateVal => t = Subscriptions)
  <2>1. r \in ToSet(Kept(b)[t]) => r \in ToSet(events[t])
    <3>1. CASE Hold(b) /\ t = Invoices
      <4> DEFINE e == events[Invoices]
      <4>1. ToSet(RemoveAt(e, 2)) = {e[i] : i \in (DOMAIN e) \ {2}}
        BY <3>1, HeldLine, RemoveSecond
      <4>2. ToSet(RemoveAt(e, 2)) \subseteq ToSet(e)
        BY <4>1 DEF ToSet
      <4>3. DOMAIN events = Tables /\ Kept(b) = [events EXCEPT ![Invoices] = RemoveAt(e, 2)]
        BY <3>1 DEF TypeOK, Kept
      <4>4. Kept(b)[t] = RemoveAt(e, 2)
        BY <3>1, <4>3
      <4>5. QED
        BY <3>1, <4>2, <4>4
    <3>2. CASE ~ (Hold(b) /\ t = Invoices)
      <4>1. Kept(b)[t] = events[t]
        BY <3>2 DEF Kept, TypeOK
      <4>2. QED
        BY <4>1
    <3>3. QED
      BY <3>1, <3>2
  <2>2. CASE r \in ToSet(events[t])
    <3>1. r \in InWork /\ r.table = t
      BY <2>2, LinesWhere DEF LinesFiled
    <3>2. QED
      BY <3>1, <1>12
  <2>3. CASE r \in Late(b, arrival) \cup B /\ r.table = t
    BY <2>3, <1>10, <1>11
  <2>4. QED
    BY <1>13, <2>1, <2>2, <2>3
<1>18. QED
  BY <1>4, <1>5, <1>6, <1>7, <1>8, <1>15, <1>16, <1>17

-----------------------------------------------------------------------------
(***************************************************************************)
(* Where the lines are.                                                    *)
(***************************************************************************)
\* A change leaves the entity alive unless it deletes it, and touches no other.
Exists(t, k, op) ==
  alive' = [alive EXCEPT ![t] = IF op = "DELETE" THEN alive[t] \ {k} ELSE alive[t] \cup {k}]

\* The kinds of step.
LEMMA StepCases ==
  ASSUME TypeOK, [Next]_vars
  PROVE  \/ OpenBatch
         \/ \E t \in Tables, k \in Keys, op \in Operations :
              table # 0 /\ Make(t, k, op) /\ Exists(t, k, op)
         \/ CloseBatch
         \/ NextTable
         \/ ApplyBatch
         \/ UNCHANGED vars
<1>1. ASSUME NEW t \in Tables, InsertEntity(t)
      PROVE  \E k \in Keys, op \in Operations : table # 0 /\ Make(t, k, op) /\ Exists(t, k, op)
  <2>1. /\ counter[t] + 1 \in Keys /\ Make(t, counter[t] + 1, "INSERT") /\ table # 0
        /\ alive' = [alive EXCEPT ![t] = alive[t] \cup {counter[t] + 1}]
    BY <1>1 DEF InsertEntity, Generating
  <2>2. "INSERT" \in Operations /\ "INSERT" # "DELETE"
    BY DEF Operations
  <2>3. Exists(t, counter[t] + 1, "INSERT")
    BY <2>1 DEF Exists
  <2>4. QED
    BY <2>1, <2>2, <2>3
<1>2. ASSUME NEW t \in Tables, NEW k \in Keys, UpdateEntity(t, k)
      PROVE  \E op \in Operations : table # 0 /\ Make(t, k, op) /\ Exists(t, k, op)
  <2>1. Make(t, k, "UPDATE") /\ table # 0 /\ alive' = alive /\ k \in alive[t]
    BY <1>2 DEF UpdateEntity, Generating
  <2>2. "UPDATE" \in Operations /\ "UPDATE" # "DELETE"
    BY DEF Operations
  <2>3. alive[t] \cup {k} = alive[t] /\ alive \in [Tables -> SUBSET Keys]
    BY <2>1 DEF TypeOK
  <2>4. alive = [alive EXCEPT ![t] = alive[t] \cup {k}]
    BY <2>3
  <2>5. Exists(t, k, "UPDATE")
    BY <2>1, <2>4 DEF Exists
  <2>6. QED
    BY <2>1, <2>2, <2>5
<1>3. ASSUME NEW t \in Tables, NEW k \in Keys, DeleteEntity(t, k)
      PROVE  \E op \in Operations : table # 0 /\ Make(t, k, op) /\ Exists(t, k, op)
  <2>1. Make(t, k, "DELETE") /\ table # 0 /\ alive' = [alive EXCEPT ![t] = alive[t] \ {k}]
    BY <1>3 DEF DeleteEntity, Generating
  <2>2. "DELETE" \in Operations
    BY DEF Operations
  <2>3. Exists(t, k, "DELETE")
    BY <2>1 DEF Exists
  <2>4. QED
    BY <2>1, <2>2, <2>3
<1>4. \/ OpenBatch
      \/ \E t \in Tables : InsertEntity(t) \/ \E k \in Keys : UpdateEntity(t, k) \/ DeleteEntity(t, k)
      \/ NextTable \/ CloseBatch \/ ApplyBatch \/ UNCHANGED vars
  BY DEF Next
<1>5. QED
  BY <1>1, <1>2, <1>3, <1>4

\* What the steps that write no line leave alone.
LEMMA QuietSteps ==
  ASSUME NextTable \/ ApplyBatch \/ UNCHANGED vars
  PROVE  UNCHANGED <<current_sequence, alive, last, held, events, batches>>
  BY DEF NextTable, ApplyBatch, vars, source

\* A line that was not in a sequence does not repeat one of its lines.
LEMMA AppendDiffers ==
  ASSUME NEW S, NEW s \in Seq(S), NEW x \in S, x \notin ToSet(s),
         \A i, j \in DOMAIN s : s[i] = s[j] => i = j
  PROVE  \A i, j \in DOMAIN Append(s, x) : Append(s, x)[i] = Append(s, x)[j] => i = j
<1> DEFINE u == Append(s, x)
<1>1. /\ u \in Seq(S) /\ Len(u) = Len(s) + 1 /\ u[Len(s) + 1] = x
      /\ \A i \in 1..Len(s) : u[i] = s[i]
  BY AppendAdds
<1>2. DOMAIN s = 1..Len(s) /\ Len(s) \in Nat /\ DOMAIN u = 1..(Len(s) + 1)
  BY <1>1
<1>3. \A i \in DOMAIN s : s[i] # x
  BY DEF ToSet
<1> HIDE DEF u
<1>4. ASSUME NEW i \in DOMAIN u, NEW j \in DOMAIN u, u[i] = u[j] PROVE i = j
  <2>1. (i \in 1..Len(s) \/ i = Len(s) + 1) /\ (j \in 1..Len(s) \/ j = Len(s) + 1)
    BY <1>2
  <2>2. CASE i \in 1..Len(s) /\ j \in 1..Len(s)
    BY <1>1, <1>2, <1>4, <2>2
  <2>3. CASE i \in 1..Len(s) /\ j = Len(s) + 1
    BY <1>1, <1>2, <1>3, <1>4, <2>3
  <2>4. CASE i = Len(s) + 1 /\ j \in 1..Len(s)
    BY <1>1, <1>2, <1>3, <1>4, <2>4
  <2>5. QED
    BY <2>1, <2>2, <2>3, <2>4
<1>5. QED
  BY <1>4 DEF u

\* No line is written at first.
LEMMA InitLines ==
  ASSUME Init
  PROVE  /\ events = NoEvents /\ held = NoEvents /\ DOMAIN batches = {}
         /\ InWork = {} /\ HeldBack = {} /\ Lines = {}
<1>1. events = NoEvents /\ held = NoEvents /\ batches = << >>
  BY DEF Init
<1>2. DOMAIN << >> = {}
  OBVIOUS
<1>3. InWork = {} /\ HeldBack = {}
  BY <1>1, NothingInEmpty DEF InWork, HeldBack
<1>4. DOMAIN batches = {}
  BY <1>1, <1>2
<1>5. Lines = {}
  BY <1>3, <1>4 DEF Lines
<1>6. QED
  BY <1>1, <1>3, <1>4, <1>5

\* Lines are filed from the start.
LEMMA InitFiled == Init => LinesFiled
<1> SUFFICES ASSUME Init PROVE LinesFiled
  OBVIOUS
<1>1. \A t \in Tables : ToSet(events[t]) = {} /\ ToSet(held[t]) = {}
  BY InitLines, NothingInEmpty
<1>2. QED
  BY <1>1, InitLines DEF LinesFiled

\* Every step files the lines it writes.
LEMMA StepFiled ==
  ASSUME TypeOK, LinesFiled, LinesNumbered, LinesDiffer, [Next]_vars
  PROVE  LinesFiled'
<1>1. CASE OpenBatch
  <2>1. events' = held /\ held' = NoEvents /\ batches' = batches /\ table' = 1
    BY <1>1 DEF OpenBatch, Released
  <2>2. QED
    BY <2>1, NothingInEmpty DEF LinesFiled
<1>2. ASSUME NEW t \in Tables, NEW k \in Keys, NEW op \in Operations, table # 0, Make(t, k, op)
      PROVE  LinesFiled'
  <2>1. PICK c : Adds(c, t, k, op)
    BY <1>2, MakeLines
  <2>2. /\ c.table = t /\ c.ok = TRUE
        /\ events' = [events EXCEPT ![t] = Append(events[t], c)]
        /\ ToSet(events'[t]) = ToSet(events[t]) \cup {c}
    BY <2>1 DEF Adds
  <2>3. UNCHANGED <<held, table, batches>>
    BY <1>2 DEF Make
  <2>4. DOMAIN events = Tables
    BY DEF TypeOK
  <2>5. \A u \in Tables : u = t \/ events'[u] = events[u]
    BY <2>2, <2>4
  <2>6. \A u \in Tables : \A r \in ToSet(events'[u]) : r.table = u /\ r.ok
    <3>1. \A u \in Tables : \A r \in ToSet(events[u]) : r.table = u /\ r.ok
      BY DEF LinesFiled
    <3>2. ASSUME NEW u \in Tables, NEW r \in ToSet(events'[u]) PROVE r.table = u /\ r.ok
      <4>1. CASE u = t
        <5>1. r \in ToSet(events[t]) \/ r = c
          BY <2>2, <4>1
        <5>2. QED
          BY <2>2, <3>1, <4>1, <5>1
      <4>2. CASE u # t
        BY <2>5, <3>1, <4>2
      <4>3. QED
        BY <4>1, <4>2
    <3>3. QED
      BY <3>2
  <2>7. QED
    BY <1>2, <2>3, <2>6 DEF LinesFiled
<1>3. CASE CloseBatch
  <2>1. PICK b : b = Len(batches) + 1
    OBVIOUS
  <2>2. /\ DOMAIN batches' = DOMAIN batches \cup {b}
        /\ \A d \in DOMAIN batches : batches'[d] = batches[d]
        /\ \A t \in Tables : \A r \in batches'[b][t] :
             r.table = t /\ (r.val = LateVal => t = Subscriptions)
    BY <1>3, <2>1, CloseLines
  <2>3. /\ table' = 0 /\ events' = NoEvents
        /\ held' = IF Hold(b)
                   THEN [held EXCEPT ![Invoices] = Append(held[Invoices], events[Invoices][2])]
                   ELSE held
    BY <1>3, <2>1, Closes
  <2>4. \A t \in Tables : \A r \in ToSet(held'[t]) : r.table = t /\ r.ok
    <3>1. \A u \in Tables : \A r \in ToSet(held[u]) \cup ToSet(events[u]) : r.table = u /\ r.ok
      BY DEF LinesFiled
    <3>2. CASE Hold(b)
      <4> DEFINE h == events[Invoices][2]
      <4>1. h \in Records /\ Invoices \in Tables /\ held[Invoices] \in Seq(Records)
        BY <3>2, HeldLine, TypeFacts
      <4>2. ToSet(Append(held[Invoices], h)) = ToSet(held[Invoices]) \cup {h}
        BY <4>1, AppendAdds
      <4>3. h \in ToSet(events[Invoices])
        BY <3>2, HeldLine DEF ToSet
      <4> HIDE DEF h
      <4>4. DOMAIN held = Tables /\ held' = [held EXCEPT ![Invoices] = Append(held[Invoices], h)]
        BY <2>3, <3>2 DEF TypeOK, h
      <4>5. /\ ToSet(held'[Invoices]) = ToSet(held[Invoices]) \cup {h}
            /\ \A u \in Tables : u # Invoices => held'[u] = held[u]
        BY <4>1, <4>2, <4>4
      <4>6. ASSUME NEW t \in Tables, NEW r \in ToSet(held'[t]) PROVE r.table = t /\ r.ok
        <5>1. CASE t = Invoices
          <6>1. r \in ToSet(held[Invoices]) \/ r = h
            BY <4>5, <5>1
          <6>2. QED
            BY <3>1, <4>1, <4>3, <5>1, <6>1
        <5>2. CASE t # Invoices
          BY <3>1, <4>5, <5>2
        <5>3. QED
          BY <5>1, <5>2
      <4>7. QED
        BY <4>6
    <3>3. CASE ~ Hold(b)
      BY <2>3, <3>1, <3>3
    <3>4. QED
      BY <3>2, <3>3
  <2>5. \A t \in Tables : \A d \in DOMAIN batches' : \A r \in batches'[d][t] :
          r.table = t /\ (r.val = LateVal => t = Subscriptions)
    <3>1. ASSUME NEW t \in Tables, NEW d \in DOMAIN batches', NEW r \in batches'[d][t]
          PROVE  r.table = t /\ (r.val = LateVal => t = Subscriptions)
      <4>1. CASE d = b
        BY <2>2, <3>1, <4>1
      <4>2. CASE d # b
        <5>1. d \in DOMAIN batches /\ batches'[d] = batches[d]
          BY <2>2, <4>2
        <5>2. QED
          BY <3>1, <5>1 DEF LinesFiled
      <4>3. QED
        BY <4>1, <4>2
    <3>2. QED
      BY <3>1
  <2>6. \A t \in Tables : ToSet(events'[t]) = {}
    BY <2>3, NothingInEmpty
  <2>7. QED
    BY <2>3, <2>4, <2>5, <2>6 DEF LinesFiled
<1>4. CASE NextTable \/ ApplyBatch \/ UNCHANGED vars
  <2>1. UNCHANGED <<held, events, batches>>
    BY <1>4, QuietSteps
  <2>2. table' = 0 => table = 0
    BY <1>4, TypeFacts DEF NextTable, ApplyBatch, vars, source
  <2>3. QED
    BY <2>1, <2>2 DEF LinesFiled
<1>5. QED
  BY <1>1, <1>2, <1>3, <1>4, StepCases

\* What closing a batch does to the lines, summed up; the lines it rejects
\* have the next numbers.
Writes(b) ==
  /\ b \notin DOMAIN batches /\ DOMAIN batches' = DOMAIN batches \cup {b}
  /\ \A d \in DOMAIN batches : batches'[d] = batches[d] /\ Written(d)' = Written(d)
  /\ HeldNow(b) \subseteq InWork
  /\ Written(b)' = (InWork \ HeldNow(b)) \cup BrokenLines(b)
  /\ InWork' = {} /\ HeldBack' = HeldBack \cup HeldNow(b)
  /\ Lines' = Lines \cup BrokenLines(b)
  /\ current_sequence' \in Nat /\ current_sequence < current_sequence'
  /\ \A r \in BrokenLines(b) : r.ok = FALSE /\ r.seq \in (current_sequence + 1)..current_sequence'
  /\ \A n \in (current_sequence + 1)..current_sequence' : \E r \in BrokenLines(b) : r.seq = n
  /\ \A r, s \in BrokenLines(b) : r.seq = s.seq => r = s

\* Closing a batch writes it so.
LEMMA CloseWrites ==
  ASSUME TypeOK, LinesFiled, LinesNumbered, LinesDiffer, CloseBatch
  PROVE  \E b : b = Len(batches) + 1 /\ Writes(b)
<1>1. PICK b : b = Len(batches) + 1
  OBVIOUS
<1> DEFINE C == Cardinality(BrokenLines(b))
<1>2. b \in Nat \ {0} /\ current_sequence' = current_sequence + C /\ current_sequence' <= MaxSeq
  BY <1>1, Closes
<1>3. current_sequence + C <= MaxSeq
  BY <1>2
<1>4. C \in {1, 2}
  BY <1>2, <1>3, BrokenNumbers
<1>5. \A r \in BrokenLines(b) : r.ok = FALSE /\ r.seq \in (current_sequence + 1)..(current_sequence + C)
  BY <1>2, <1>3, BrokenNumbers
<1>6. \A n \in (current_sequence + 1)..(current_sequence + C) : \E r \in BrokenLines(b) : r.seq = n
  BY <1>2, <1>3, BrokenNumbers
<1>7. \A r, s \in BrokenLines(b) : r.seq = s.seq => r = s
  BY <1>2, <1>3, BrokenNumbers
<1>8. current_sequence' \in Nat /\ current_sequence < current_sequence'
  <2> HIDE DEF C
  <2>1. QED
    BY <1>2, <1>4, TypeFacts
<1>9. /\ b \notin DOMAIN batches /\ DOMAIN batches' = DOMAIN batches \cup {b}
      /\ \A d \in DOMAIN batches : batches'[d] = batches[d] /\ Written(d)' = Written(d)
      /\ HeldNow(b) \subseteq InWork
      /\ Written(b)' = (InWork \ HeldNow(b)) \cup BrokenLines(b)
      /\ InWork' = {} /\ HeldBack' = HeldBack \cup HeldNow(b)
      /\ Lines' = Lines \cup BrokenLines(b)
  BY <1>1, CloseLines
<1> HIDE DEF C
<1>10. Writes(b)
  BY <1>2, <1>5, <1>6, <1>7, <1>8, <1>9 DEF Writes
<1>11. QED
  BY <1>1, <1>10

\* At first no number was given out since the snapshot.
LEMMA InitNumbered == Init => LinesNumbered /\ LinesDiffer
<1> SUFFICES ASSUME Init PROVE LinesNumbered /\ LinesDiffer
  OBVIOUS
<1>1. current_sequence = SnapshotTotal /\ SnapshotTotal \in Nat
  BY SnapshotNumbers, BoundsAssumption DEF Init
<1>2. (SnapshotTotal + 1)..current_sequence = {}
  BY <1>1
<1>3. LinesNumbered
  BY <1>1, InitLines DEF LinesNumbered
<1>4. DOMAIN << >> = {}
  OBVIOUS
<1>5. \A t \in Tables : DOMAIN events[t] = {} /\ DOMAIN held[t] = {}
  BY <1>4, InitLines, NothingInEmpty
<1>6. LinesDiffer
  BY <1>2, <1>5, InitLines DEF LinesDiffer
<1>7. QED
  BY <1>3, <1>6

\* A line has a number that was given out.
LEMMA Numbered ==
  ASSUME TypeOK, LinesNumbered, NEW r \in Lines
  PROVE  /\ r.seq \in Nat /\ current_sequence \in Nat /\ SnapshotTotal \in Nat
         /\ SnapshotTotal < r.seq /\ r.seq <= current_sequence
<1>1. SnapshotTotal \in Nat
  BY SnapshotNumbers, BoundsAssumption
<1>2. r.seq \in (SnapshotTotal + 1)..current_sequence
  BY DEF LinesNumbered
<1>3. QED
  BY <1>1, <1>2, TypeFacts

\* Every step numbers the lines it writes.
LEMMA StepNumbered ==
  ASSUME TypeOK, LinesFiled, LinesNumbered, LinesDiffer, [Next]_vars
  PROVE  LinesNumbered'
<1> DEFINE Good(r) == r.ok => r = Change(r.table, r.key, r.op, r.seq)
<1>0. SnapshotTotal \in Nat /\ current_sequence \in Nat /\ SnapshotTotal <= current_sequence
  BY SnapshotNumbers, BoundsAssumption, TypeFacts DEF LinesNumbered
<1>1. \A r \in Lines : Good(r)
  BY DEF LinesNumbered
<1>2. CASE OpenBatch
  <2>1. Lines' = Lines /\ current_sequence' = current_sequence
    BY <1>2, OpenLines DEF OpenBatch, Released
  <2>2. QED
    BY <2>1 DEF LinesNumbered
<1>3. ASSUME NEW t \in Tables, NEW k \in Keys, NEW op \in Operations, Make(t, k, op)
      PROVE  LinesNumbered'
  <2>1. PICK c : Adds(c, t, k, op)
    BY <1>3, MakeLines
  <2>2. current_sequence' = current_sequence + 1
    BY <1>3 DEF Make
  <2>3. c = Change(t, k, op, current_sequence + 1) /\ c.table = t /\ c.key = k /\ c.op = op
        /\ c.seq = current_sequence + 1 /\ Lines' = Lines \cup {c}
    BY <2>1 DEF Adds
  <2>4. c = Change(c.table, c.key, c.op, c.seq)
    BY <2>3
  <2>5. \A r \in Lines' : Good(r)
    BY <1>1, <2>3, <2>4
  <2>6. \A r \in Lines' : r.seq \in (SnapshotTotal + 1)..current_sequence'
    <3>1. c.seq \in (SnapshotTotal + 1)..current_sequence'
      BY <1>0, <2>2, <2>3
    <3>2. ASSUME NEW r \in Lines PROVE r.seq \in (SnapshotTotal + 1)..current_sequence'
      BY <1>0, <2>2, Numbered
    <3>3. QED
      BY <2>3, <3>1, <3>2
  <2>7. SnapshotTotal <= current_sequence'
    BY <1>0, <2>2
  <2>8. QED
    BY <2>5, <2>6, <2>7 DEF LinesNumbered
<1>4. CASE CloseBatch
  <2>1. PICK b : Writes(b)
    BY <1>4, CloseWrites
  <2>2. \A r \in Lines' : r \in Lines \/ r \in BrokenLines(b)
    BY <2>1 DEF Writes
  <2>3. /\ current_sequence' \in Nat /\ current_sequence < current_sequence'
        /\ \A r \in BrokenLines(b) : r.ok = FALSE /\ r.seq \in (current_sequence + 1)..current_sequence'
    BY <2>1 DEF Writes
  <2>4. \A r \in Lines' : Good(r)
    BY <1>1, <2>2, <2>3
  <2>5. ASSUME NEW r \in Lines' PROVE r.seq \in (SnapshotTotal + 1)..current_sequence'
    <3>1. CASE r \in Lines
      BY <1>0, <2>3, <3>1, Numbered
    <3>2. CASE r \in BrokenLines(b)
      <4>1. r.seq \in (current_sequence + 1)..current_sequence'
        BY <2>3, <3>2
      <4>2. QED
        BY <1>0, <2>3, <4>1
    <3>3. QED
      BY <2>2, <3>1, <3>2
  <2>6. SnapshotTotal <= current_sequence'
    BY <1>0, <2>3
  <2>7. QED
    BY <2>4, <2>5, <2>6 DEF LinesNumbered
<1>5. CASE NextTable \/ ApplyBatch \/ UNCHANGED vars
  <2>1. Lines' = Lines /\ current_sequence' = current_sequence
    BY <1>5, QuietSteps, SameLines
  <2>2. QED
    BY <2>1 DEF LinesNumbered
<1>6. QED
  BY <1>2, <1>3, <1>4, <1>5, StepCases

\* What the numbers and places of lines amount to, place by place.
LEMMA DifferParts ==
  LinesDiffer <=>
    /\ \A r, s \in Lines : r.seq = s.seq => r = s
    /\ \A n \in (SnapshotTotal + 1)..current_sequence : \E r \in Lines : r.seq = n
    /\ \A b, c \in DOMAIN batches : \A r : b # c => ~ (r \in Written(b) /\ r \in Written(c))
    /\ \A b \in DOMAIN batches : \A r \in Written(b) : r \notin InWork /\ r \notin HeldBack
    /\ \A r \in InWork : r \notin HeldBack
    /\ \A t \in Tables : \A i, j \in DOMAIN events[t] : events[t][i] = events[t][j] => i = j
    /\ \A t \in Tables : \A i, j \in DOMAIN held[t] : held[t][i] = held[t][j] => i = j
<1>1. (SnapshotTotal + 1)..current_sequence \subseteq {r.seq : r \in Lines}
      <=> \A n \in (SnapshotTotal + 1)..current_sequence : \E r \in Lines : r.seq = n
  OBVIOUS
<1>2. (\A b, c \in DOMAIN batches : b # c => Written(b) \cap Written(c) = {})
      <=> \A b, c \in DOMAIN batches : \A r : b # c => ~ (r \in Written(b) /\ r \in Written(c))
  OBVIOUS
<1>3. (\A b \in DOMAIN batches : Written(b) \cap (InWork \cup HeldBack) = {})
      <=> \A b \in DOMAIN batches : \A r \in Written(b) : r \notin InWork /\ r \notin HeldBack
  OBVIOUS
<1>4. InWork \cap HeldBack = {} <=> \A r \in InWork : r \notin HeldBack
  OBVIOUS
<1>5. (\A t \in Tables : \A f \in {events[t], held[t]} : \A i, j \in DOMAIN f : f[i] = f[j] => i = j)
      <=> /\ \A t \in Tables : \A i, j \in DOMAIN events[t] : events[t][i] = events[t][j] => i = j
          /\ \A t \in Tables : \A i, j \in DOMAIN held[t] : held[t][i] = held[t][j] => i = j
  OBVIOUS
<1>6. QED
  BY <1>1, <1>2, <1>3, <1>4, <1>5 DEF LinesDiffer

\* The same after a step.
LEMMA DifferPartsNext ==
  ASSUME \A r, s \in Lines' : r.seq = s.seq => r = s,
         \A n \in (SnapshotTotal + 1)..current_sequence' : \E r \in Lines' : r.seq = n,
         \A b, c \in DOMAIN batches' : \A r : b # c => ~ (r \in Written(b)' /\ r \in Written(c)'),
         \A b \in DOMAIN batches' : \A r \in Written(b)' : r \notin InWork' /\ r \notin HeldBack',
         \A r \in InWork' : r \notin HeldBack',
         \A t \in Tables : \A i, j \in DOMAIN events'[t] : events'[t][i] = events'[t][j] => i = j,
         \A t \in Tables : \A i, j \in DOMAIN held'[t] : held'[t][i] = held'[t][j] => i = j
  PROVE  LinesDiffer'
<1>1. (SnapshotTotal + 1)..current_sequence' \subseteq {r.seq : r \in Lines'}
  OBVIOUS
<1>2. \A b, c \in DOMAIN batches' : b # c => Written(b)' \cap Written(c)' = {}
  OBVIOUS
<1>3. \A b \in DOMAIN batches' : Written(b)' \cap (InWork' \cup HeldBack') = {}
  OBVIOUS
<1>4. InWork' \cap HeldBack' = {}
  OBVIOUS
<1>5. \A t \in Tables : \A f \in {events'[t], held'[t]} : \A i, j \in DOMAIN f : f[i] = f[j] => i = j
  OBVIOUS
<1>6. QED
  BY <1>1, <1>2, <1>3, <1>4, <1>5 DEF LinesDiffer

\* A change is in no other line.
LEMMA MakeDiffers ==
  ASSUME TypeOK, LinesNumbered, LinesDiffer,
         NEW t \in Tables, NEW k \in Keys, NEW op \in Operations, Make(t, k, op)
  PROVE  LinesDiffer'
<1>1. PICK c : Adds(c, t, k, op)
  BY MakeLines
<1>2. current_sequence' = current_sequence + 1 /\ held' = held /\ batches' = batches
  BY DEF Make
<1>3. /\ c \in Records /\ c.seq = current_sequence + 1
      /\ events' = [events EXCEPT ![t] = Append(events[t], c)]
      /\ InWork' = InWork \cup {c} /\ HeldBack' = HeldBack /\ Lines' = Lines \cup {c}
      /\ \A b : Written(b)' = Written(b)
  BY <1>1 DEF Adds
<1>4. \A r \in Lines : r.seq # c.seq
  <2>1. ASSUME NEW r \in Lines PROVE r.seq # c.seq
    BY <1>3, Numbered
  <2>2. QED
    BY <2>1
<1>5. c \notin Lines
  BY <1>4
<1>6. c \notin InWork /\ c \notin HeldBack /\ \A b \in DOMAIN batches : c \notin Written(b)
  BY <1>5, LinesWhere
<1>7. \A r, s \in Lines' : r.seq = s.seq => r = s
  <2>1. \A r, s \in Lines : r.seq = s.seq => r = s
    BY DEF LinesDiffer
  <2>2. QED
    BY <1>3, <1>4, <2>1
<1>8. \A n \in (SnapshotTotal + 1)..current_sequence' : \E r \in Lines' : r.seq = n
  <2>1. \A n \in (SnapshotTotal + 1)..current_sequence : \E r \in Lines : r.seq = n
    BY DifferParts
  <2>2. ASSUME NEW n \in (SnapshotTotal + 1)..current_sequence' PROVE \E r \in Lines' : r.seq = n
    <3>1. n \in (SnapshotTotal + 1)..current_sequence \/ n = current_sequence + 1
      BY <1>2, TypeFacts, SnapshotNumbers
    <3>2. QED
      BY <1>3, <2>1, <3>1
  <2>3. QED
    BY <2>2
<1>9. \A b, d \in DOMAIN batches' : \A r : b # d => ~ (r \in Written(b)' /\ r \in Written(d)')
  BY <1>2, <1>3, DifferParts
<1>10. \A b \in DOMAIN batches' : \A r \in Written(b)' : r \notin InWork' /\ r \notin HeldBack'
  <2>1. \A b \in DOMAIN batches : \A r \in Written(b) : r \notin InWork /\ r \notin HeldBack
    BY DifferParts
  <2>2. QED
    BY <1>2, <1>3, <1>6, <2>1
<1>11. \A r \in InWork' : r \notin HeldBack'
  <2>1. \A r \in InWork : r \notin HeldBack
    BY DifferParts
  <2>2. QED
    BY <1>3, <1>6, <2>1
<1>12. \A u \in Tables : \A i, j \in DOMAIN events'[u] : events'[u][i] = events'[u][j] => i = j
  <2>1. \A u \in Tables : \A i, j \in DOMAIN events[u] : events[u][i] = events[u][j] => i = j
    BY DifferParts
  <2>2. c \notin ToSet(events[t])
    BY <1>6, LinesWhere
  <2> DEFINE x == Append(events[t], c)
  <2>3. \A i, j \in DOMAIN x : x[i] = x[j] => i = j
    BY <1>3, <2>1, <2>2, TypeFacts, AppendDiffers
  <2> HIDE DEF x
  <2>4. DOMAIN events = Tables /\ events' = [events EXCEPT ![t] = x]
    BY <1>3 DEF TypeOK, x
  <2>5. \A u \in Tables : (u = t /\ events'[u] = x) \/ events'[u] = events[u]
    BY <2>4
  <2>6. QED
    BY <2>1, <2>3, <2>5
<1>13. \A u \in Tables : \A i, j \in DOMAIN held'[u] : held'[u][i] = held'[u][j] => i = j
  BY <1>2, DifferParts
<1>14. QED
  BY <1>7, <1>8, <1>9, <1>10, <1>11, <1>12, <1>13, DifferPartsNext

\* Closing a batch moves each line to one place.
LEMMA CloseDiffers ==
  ASSUME TypeOK, LinesFiled, LinesNumbered, LinesDiffer, CloseBatch
  PROVE  LinesDiffer'
<1>1. PICK b : b = Len(batches) + 1 /\ Writes(b)
  BY CloseWrites
<1> DEFINE H == HeldNow(b)
           B == BrokenLines(b)
<1>2. /\ b \notin DOMAIN batches /\ DOMAIN batches' = DOMAIN batches \cup {b}
      /\ \A d \in DOMAIN batches : Written(d)' = Written(d)
      /\ H \subseteq InWork /\ Written(b)' = (InWork \ H) \cup B
      /\ InWork' = {} /\ HeldBack' = HeldBack \cup H /\ Lines' = Lines \cup B
  BY <1>1 DEF Writes
<1>3. /\ current_sequence' \in Nat /\ current_sequence < current_sequence'
      /\ \A r \in B : r.seq \in (current_sequence + 1)..current_sequence'
      /\ \A n \in (current_sequence + 1)..current_sequence' : \E r \in B : r.seq = n
      /\ \A r, s \in B : r.seq = s.seq => r = s
  BY <1>1 DEF Writes
<1> HIDE DEF H, B
<1>4. \A r \in Lines, s \in B : r.seq # s.seq
  <2>1. ASSUME NEW r \in Lines, NEW s \in B PROVE r.seq # s.seq
    <3>1. r.seq \in Nat /\ r.seq <= current_sequence /\ current_sequence \in Nat
      BY Numbered
    <3>2. s.seq \in (current_sequence + 1)..current_sequence'
      BY <1>3
    <3>3. QED
      BY <1>3, <3>1, <3>2
  <2>2. QED
    BY <2>1
<1>5. \A r \in B : r \notin InWork /\ r \notin HeldBack /\ \A d \in DOMAIN batches : r \notin Written(d)
  <2>1. \A r \in B : r \notin Lines
    BY <1>4
  <2>2. QED
    BY <2>1, LinesWhere
<1>6. /\ \A r, s \in Lines : r.seq = s.seq => r = s
      /\ \A n \in (SnapshotTotal + 1)..current_sequence : \E r \in Lines : r.seq = n
      /\ \A d, e \in DOMAIN batches : \A r : d # e => ~ (r \in Written(d) /\ r \in Written(e))
      /\ \A d \in DOMAIN batches : \A r \in Written(d) : r \notin InWork /\ r \notin HeldBack
      /\ \A r \in InWork : r \notin HeldBack
      /\ \A t \in Tables : \A i, j \in DOMAIN held[t] : held[t][i] = held[t][j] => i = j
  BY DifferParts
<1>7. \A r, s \in Lines' : r.seq = s.seq => r = s
  <2>1. ASSUME NEW r \in Lines', NEW s \in Lines', r.seq = s.seq PROVE r = s
    <3>1. (r \in Lines \/ r \in B) /\ (s \in Lines \/ s \in B)
      BY <1>2
    <3>2. QED
      BY <1>3, <1>4, <1>6, <2>1, <3>1
  <2>2. QED
    BY <2>1
<1>8. \A n \in (SnapshotTotal + 1)..current_sequence' : \E r \in Lines' : r.seq = n
  <2>1. ASSUME NEW n \in (SnapshotTotal + 1)..current_sequence' PROVE \E r \in Lines' : r.seq = n
    <3>1. n \in (SnapshotTotal + 1)..current_sequence \/ n \in (current_sequence + 1)..current_sequence'
      BY <1>3, TypeFacts, SnapshotNumbers
    <3>2. QED
      BY <1>2, <1>3, <1>6, <3>1
  <2>2. QED
    BY <2>1
<1>9. \A d, e \in DOMAIN batches' : \A r : d # e => ~ (r \in Written(d)' /\ r \in Written(e)')
  <2>1. ASSUME NEW d \in DOMAIN batches, NEW r, r \in Written(d)' PROVE r \notin Written(b)'
    <3>1. r \in Written(d)
      BY <1>2, <2>1
    <3>2. r \notin InWork /\ r \notin B
      BY <1>5, <1>6, <3>1
    <3>3. QED
      BY <1>2, <3>2
  <2>2. QED
    BY <1>2, <1>6, <2>1
<1>10. \A d \in DOMAIN batches' : \A r \in Written(d)' : r \notin InWork' /\ r \notin HeldBack'
  <2>1. ASSUME NEW d \in DOMAIN batches', NEW r \in Written(d)' PROVE r \notin HeldBack /\ r \notin H
    <3>1. CASE d \in DOMAIN batches
      <4>1. r \in Written(d)
        BY <1>2, <2>1, <3>1
      <4>2. r \notin InWork /\ r \notin HeldBack
        BY <1>6, <3>1, <4>1
      <4>3. QED
        BY <1>2, <4>2
    <3>2. CASE d = b
      <4>1. r \in InWork \ H \/ r \in B
        BY <1>2, <2>1, <3>2
      <4>2. QED
        BY <1>2, <1>5, <1>6, <4>1
    <3>3. QED
      BY <1>2, <3>1, <3>2
  <2>2. QED
    BY <1>2, <2>1
<1>11. \A r \in InWork' : r \notin HeldBack'
  BY <1>2
<1>12. \A u \in Tables : \A i, j \in DOMAIN events'[u] : events'[u][i] = events'[u][j] => i = j
  <2>1. \A u \in Tables : events'[u] = << >>
    BY Closes, NothingInEmpty
  <2>2. DOMAIN << >> = {}
    OBVIOUS
  <2>3. QED
    BY <2>1, <2>2
<1>13. \A u \in Tables : \A i, j \in DOMAIN held'[u] : held'[u][i] = held'[u][j] => i = j
  <2>1. held' = IF Hold(b)
                THEN [held EXCEPT ![Invoices] = Append(held[Invoices], events[Invoices][2])]
                ELSE held
    BY <1>1, Closes
  <2>2. CASE Hold(b)
    <3> DEFINE h == events[Invoices][2]
               x == Append(held[Invoices], h)
    <3>1. h \in Records /\ Invoices \in Tables /\ held[Invoices] \in Seq(Records)
      BY <2>2, HeldLine, TypeFacts
    <3>2. H = {h}
      BY <2>2 DEF H, HeldNow
    <3>3. h \notin HeldBack
      BY <1>2, <1>6, <3>2
    <3> HIDE DEF h
    <3>4. h \notin ToSet(held[Invoices])
      BY <3>1, <3>3, LinesWhere
    <3>5. \A i, j \in DOMAIN x : x[i] = x[j] => i = j
      BY <1>6, <3>1, <3>4, AppendDiffers
    <3> HIDE DEF x
    <3>6. DOMAIN held = Tables /\ held' = [held EXCEPT ![Invoices] = x]
      BY <2>1, <2>2 DEF TypeOK, x, h
    <3>7. \A u \in Tables : (u = Invoices /\ held'[u] = x) \/ held'[u] = held[u]
      BY <3>6
    <3>8. QED
      BY <1>6, <3>5, <3>7
  <2>3. CASE ~ Hold(b)
    BY <1>6, <2>1, <2>3
  <2>4. QED
    BY <2>2, <2>3
<1>14. QED
  BY <1>7, <1>8, <1>9, <1>10, <1>11, <1>12, <1>13, DifferPartsNext

\* Every step keeps each line in one place.
LEMMA StepDiffer ==
  ASSUME TypeOK, LinesFiled, LinesNumbered, LinesDiffer, [Next]_vars
  PROVE  LinesDiffer'
<1>1. CASE OpenBatch
  <2>1. /\ events' = held /\ held' = NoEvents /\ InWork' = HeldBack /\ HeldBack' = {} /\ Lines' = Lines
        /\ \A b : Written(b)' = Written(b)
        /\ batches' = batches /\ current_sequence' = current_sequence
    BY <1>1, OpenLines DEF OpenBatch, Released
  <2>2. \A r, s \in Lines' : r.seq = s.seq => r = s
    BY <2>1 DEF LinesDiffer
  <2>3. \A n \in (SnapshotTotal + 1)..current_sequence' : \E r \in Lines' : r.seq = n
    BY <2>1, DifferParts
  <2>4. \A b, c \in DOMAIN batches' : \A r : b # c => ~ (r \in Written(b)' /\ r \in Written(c)')
    BY <2>1, DifferParts
  <2>5. \A b \in DOMAIN batches' : \A r \in Written(b)' : r \notin InWork' /\ r \notin HeldBack'
    BY <2>1, DifferParts
  <2>6. \A r \in InWork' : r \notin HeldBack'
    BY <2>1
  <2>7. \A t \in Tables : \A i, j \in DOMAIN events'[t] : events'[t][i] = events'[t][j] => i = j
    BY <2>1, DifferParts
  <2>8. \A t \in Tables : \A i, j \in DOMAIN held'[t] : held'[t][i] = held'[t][j] => i = j
    <3>1. \A t \in Tables : held'[t] = << >>
      BY <2>1, NothingInEmpty
    <3>2. DOMAIN << >> = {}
      OBVIOUS
    <3>3. QED
      BY <3>1, <3>2
  <2>9. QED
    BY <2>2, <2>3, <2>4, <2>5, <2>6, <2>7, <2>8, DifferPartsNext
<1>2. CASE NextTable \/ ApplyBatch \/ UNCHANGED vars
  <2>1. /\ Lines' = Lines /\ InWork' = InWork /\ HeldBack' = HeldBack
        /\ \A b : Written(b)' = Written(b)
        /\ UNCHANGED <<current_sequence, held, events, batches>>
    BY <1>2, QuietSteps, SameLines
  <2>2. QED
    BY <2>1 DEF LinesDiffer
<1>3. QED
  BY <1>1, <1>2, MakeDiffers, CloseDiffers, StepCases

-----------------------------------------------------------------------------
(***************************************************************************)
(* What the last change of an entity tells.                                *)
(***************************************************************************)
\* Entity k of table t is as the snapshot has it.
Untouched(t, k) ==
  /\ last[t][k] = IF k \in 1..Initial[t] THEN SnapshotSequence(t, k) ELSE 0
  /\ k \in alive[t] <=> k \in 1..Initial[t]

\* Line r is its last change.
Tells(r, t, k) ==
  /\ r.ok /\ r.table = t /\ r.key = k /\ r.seq = last[t][k]
  /\ r.op = "DELETE" <=> k \notin alive[t]

\* An entity is untouched, or a line tells of it, and none is above its last change.
LEMMA LastParts ==
  LastIsLine <=>
    /\ \A r \in Lines : r.ok => r.seq <= last[r.table][r.key]
    /\ \A t \in Tables, k \in Keys : Untouched(t, k) \/ \E r \in Lines : Tells(r, t, k)
  BY DEF LastIsLine, Untouched, Tells

\* The same after a step.
LEMMA LastPartsNext ==
  ASSUME \A r \in Lines' : r.ok => r.seq <= last'[r.table][r.key],
         \A t \in Tables, k \in Keys : Untouched(t, k)' \/ \E r \in Lines' : Tells(r, t, k)'
  PROVE  LastIsLine'
  BY DEF LastIsLine, Untouched, Tells

\* At first every entity is as the snapshot has it.
LEMMA InitLast == Init => LastIsLine
<1> SUFFICES ASSUME Init PROVE LastIsLine
  OBVIOUS
<1>1. \A t \in Tables, k \in Keys : Untouched(t, k)
  BY DEF Init, Untouched
<1>2. QED
  BY <1>1, InitLines, LastParts

\* A change is the last of its entity.
LEMMA MakeLast ==
  ASSUME TypeOK, LinesNumbered, LastIsLine,
         NEW t \in Tables, NEW k \in Keys, NEW op \in Operations, Make(t, k, op), Exists(t, k, op)
  PROVE  LastIsLine'
<1>1. PICK c : Adds(c, t, k, op)
  BY MakeLines
<1>2. /\ c.seq = current_sequence + 1 /\ c.table = t /\ c.key = k /\ c.op = op /\ c.ok = TRUE
      /\ Lines' = Lines \cup {c}
  BY <1>1 DEF Adds
<1> DEFINE s == current_sequence + 1
<1>3. last' = [last EXCEPT ![t][k] = s] /\ s \in Nat
  BY TypeFacts DEF Make
<1>4. last \in [Tables -> [Keys -> 0..MaxSeq]] /\ alive \in [Tables -> SUBSET Keys]
  BY DEF TypeOK
<1>5. c.seq = s
  BY <1>2
<1>6. \A r \in Lines : r.seq \in Nat /\ r.seq <= s
  <2>1. ASSUME NEW r \in Lines PROVE r.seq \in Nat /\ r.seq <= s
    BY Numbered
  <2>2. QED
    BY <2>1
<1> HIDE DEF s
<1>7. last'[t][k] = s
  BY <1>3, <1>4
<1>8. \A u \in Tables, j \in Keys : ~ (u = t /\ j = k) => last'[u][j] = last[u][j]
  BY <1>3, <1>4
<1>9. /\ k \in alive'[t] <=> op # "DELETE"
      /\ \A u \in Tables, j \in Keys : ~ (u = t /\ j = k) => (j \in alive'[u] <=> j \in alive[u])
  BY <1>4 DEF Exists
<1>10. \A r \in Lines' : r.ok => r.seq <= last'[r.table][r.key]
  <2>1. ASSUME NEW r \in Lines, r.ok PROVE r.seq <= last'[r.table][r.key]
    <3>1. r.table \in Tables /\ r.key \in Keys
      BY LineType
    <3>2. r.seq <= last[r.table][r.key]
      BY <2>1, LastParts
    <3>3. CASE r.table = t /\ r.key = k
      BY <1>6, <1>7, <3>3
    <3>4. CASE ~ (r.table = t /\ r.key = k)
      <4>1. last'[r.table][r.key] = last[r.table][r.key]
        BY <1>8, <3>1, <3>4
      <4>2. QED
        BY <3>2, <4>1
    <3>5. QED
      BY <3>3, <3>4
  <2>2. c.seq <= last'[c.table][c.key]
    BY <1>2, <1>3, <1>5, <1>7
  <2>3. QED
    BY <1>2, <2>1, <2>2
<1>11. ASSUME NEW u \in Tables, NEW j \in Keys
       PROVE  Untouched(u, j)' \/ \E r \in Lines' : Tells(r, u, j)'
  <2>1. CASE u = t /\ j = k
    <3>1. Tells(c, u, j)'
      BY <1>2, <1>5, <1>7, <1>9, <2>1 DEF Tells
    <3>2. QED
      BY <1>2, <3>1
  <2>2. CASE ~ (u = t /\ j = k)
    <3>1. last'[u][j] = last[u][j] /\ (j \in alive'[u] <=> j \in alive[u])
      BY <1>8, <1>9, <2>2
    <3>2. CASE Untouched(u, j)
      BY <3>1, <3>2 DEF Untouched
    <3>3. CASE \E r \in Lines : Tells(r, u, j)
      <4>1. PICK r \in Lines : Tells(r, u, j)
        BY <3>3
      <4>2. Tells(r, u, j)'
        BY <3>1, <4>1 DEF Tells
      <4>3. QED
        BY <1>2, <4>2
    <3>4. QED
      BY <3>2, <3>3, LastParts
  <2>3. QED
    BY <2>1, <2>2
<1>12. QED
  BY <1>10, <1>11, LastPartsNext

\* Every step keeps the last change of an entity a line.
LEMMA StepLast ==
  ASSUME TypeOK, LinesFiled, LinesNumbered, LinesDiffer, LastIsLine, [Next]_vars
  PROVE  LastIsLine'
<1>1. ASSUME UNCHANGED <<last, alive>>, Lines \subseteq Lines',
             \A r \in Lines' : r \in Lines \/ ~ r.ok
      PROVE  LastIsLine'
  <2>1. \A r \in Lines' : r.ok => r.seq <= last'[r.table][r.key]
    BY <1>1, LastParts
  <2>2. ASSUME NEW t \in Tables, NEW k \in Keys
        PROVE  Untouched(t, k)' \/ \E r \in Lines' : Tells(r, t, k)'
    <3>1. Untouched(t, k)' <=> Untouched(t, k)
      BY <1>1 DEF Untouched
    <3>2. \A r : Tells(r, t, k)' <=> Tells(r, t, k)
      BY <1>1 DEF Tells
    <3>3. QED
      BY <1>1, <3>1, <3>2, LastParts
  <2>3. QED
    BY <2>1, <2>2, LastPartsNext
<1>2. CASE OpenBatch
  <2>1. Lines' = Lines /\ UNCHANGED <<last, alive>>
    BY <1>2, OpenLines DEF OpenBatch
  <2>2. QED
    BY <1>1, <2>1
<1>3. CASE CloseBatch
  <2>1. PICK b : Writes(b)
    BY <1>3, CloseWrites
  <2>2. Lines' = Lines \cup BrokenLines(b) /\ \A r \in BrokenLines(b) : r.ok = FALSE
    BY <2>1 DEF Writes
  <2>3. UNCHANGED <<last, alive>>
    BY <1>3, Closes
  <2>4. QED
    BY <1>1, <2>2, <2>3
<1>4. CASE NextTable \/ ApplyBatch \/ UNCHANGED vars
  <2>1. Lines' = Lines /\ UNCHANGED <<last, alive>>
    BY <1>4, QuietSteps, SameLines
  <2>2. QED
    BY <1>1, <2>1
<1>5. QED
  BY <1>2, <1>3, <1>4, MakeLast, StepCases

-----------------------------------------------------------------------------
(***************************************************************************)
(* The rows.                                                               *)
(***************************************************************************)
\* A row is the newest of what it started from and the events delivered.
Follows(row, base, D) ==
  /\ row = NoRow <=> base = NoRow /\ D = {}
  /\ row # NoRow =>
       /\ \A r \in D : r.seq <= row.seq
       /\ base # NoRow => base.seq <= row.seq
       /\ row = base \/ \E r \in D : Shows(row, r)

\* RowsFollow, row by row.
LEMMA RowsParts ==
  RowsFollow <=> \A t \in Tables, k \in Keys : Follows(rows[t][k], Snapshot(t, k), Delivered(t, k))
  BY DEF RowsFollow, Follows

\* The same after a step.
LEMMA RowsPartsNext ==
  ASSUME \A t \in Tables, k \in Keys : Follows(rows'[t][k], Snapshot(t, k), Delivered(t, k)')
  PROVE  RowsFollow'
  BY DEF RowsFollow, Follows

\* What was delivered, batch by batch.
LEMMA DeliveredWhere ==
  ASSUME NEW t, NEW k, NEW r
  PROVE  r \in Delivered(t, k) <=> r.key = k /\ \E b \in 1..applied : r \in Parsed(batches[b][t], t)
  BY DEF Delivered

\* The same after a step.
LEMMA DeliveredNext ==
  ASSUME NEW t, NEW k, NEW r
  PROVE  r \in Delivered(t, k)' <=> r.key = k /\ \E b \in 1..applied' : r \in Parsed(batches'[b][t], t)
  BY DEF Delivered

\* Batches that were applied are written.
LEMMA AppliedIsWritten == TypeOK => 1..applied \subseteq DOMAIN batches
<1> SUFFICES ASSUME TypeOK PROVE 1..applied \subseteq DOMAIN batches
  OBVIOUS
<1>1. applied \in 0..Len(batches) /\ Len(batches) \in Nat /\ DOMAIN batches = 1..Len(batches)
  BY TypeFacts DEF TypeOK
<1>2. QED
  BY <1>1

\* The events delivered are records.
LEMMA DeliveredType ==
  ASSUME TypeOK, NEW t \in Tables, NEW k, NEW r \in Delivered(t, k)
  PROVE  r \in Record
<1>1. PICK b \in 1..applied : r \in Parsed(batches[b][t], t)
  BY DeliveredWhere
<1>2. QED
  BY <1>1, AppliedIsWritten, ParsedOfBatch

\* The tables start from the snapshot.
LEMMA InitRows == Init => RowsFollow
<1> SUFFICES ASSUME Init, NEW t \in Tables, NEW k \in Keys
             PROVE  Follows(rows[t][k], Snapshot(t, k), Delivered(t, k))
  BY RowsParts
<1>1. rows[t][k] = Snapshot(t, k)
  BY DEF Init
<1>2. Delivered(t, k) = {}
  <2>1. 1..applied = {}
    BY DEF Init
  <2>2. \A r : r \notin Delivered(t, k)
    BY <2>1, DeliveredWhere
  <2>3. QED
    BY <2>2
<1> DEFINE row == Snapshot(t, k)
<1>3. row # NoRow => row.seq <= row.seq
  <2>1. row \in Row \cup {NoRow}
    BY SnapshotIsRow
  <2> HIDE DEF row
  <2>2. QED
    BY <2>1 DEF Row
<1> HIDE DEF row
<1>4. Follows(row, row, {})
  BY <1>3 DEF Follows
<1>5. QED
  BY <1>1, <1>2, <1>4 DEF row

\* A merge keeps every row following.
LEMMA MergeFollows ==
  ASSUME NEW old \in Rows, NEW P, P \subseteq Record, NEW b \in Nat, NEW k \in Keys,
         NEW base \in Row \cup {NoRow}, NEW D, D \subseteq Record, Follows(old[k], base, D)
  PROVE  Follows(Merge(old, P, b)[k], base, D \cup {r \in P : r.key = k})
<1> DEFINE row == old[k]
           new == Merge(old, P, b)[k]
           N == {r \in P : r.key = k}
<1>1. row \in Row \cup {NoRow} /\ Follows(row, base, D)
  BY DEF Rows
<1>2. \A r \in N : new # NoRow /\ r.seq <= new.seq
  <2>1. ASSUME NEW r \in N PROVE new # NoRow /\ r.seq <= new.seq
    <3>1. r \in P /\ r.key = k
      OBVIOUS
    <3>2. QED
      BY <3>1, MergeCovers
  <2>2. QED
    BY <2>1
<1>3. \/ new = row
      \/ \E w \in Applied(old, P, k) : new = MergedRow(row, w, b)
  BY MergeAt
<1> HIDE DEF row, new, N
<1>4. CASE new = row
  <2>1. row = NoRow => N = {}
    BY <1>2, <1>4
  <2>2. QED
    BY <1>1, <1>2, <1>4, <2>1 DEF Follows, new, N
<1>5. ASSUME NEW w \in Applied(old, P, k), new = MergedRow(row, w, b)
      PROVE  Follows(new, base, D \cup N)
  <2>1. w \in P /\ w.key = k /\ Newer(w, row)
    BY DEF Applied, Winners, row
  <2>2. w \in Record /\ w \in N
    BY <2>1 DEF N
  <2>3. new # NoRow /\ new.seq = w.seq /\ new \in Row
    BY <1>1, <1>5, <2>2, MergedRowType
  <2>4. w.seq \in 1..MaxSeq /\ MaxSeq \in Nat
    BY <2>2, BoundsAssumption DEF Record
  <2>5. \A r \in D : r.seq <= new.seq
    <3>1. ASSUME NEW r \in D PROVE r.seq <= new.seq
      <4>1. row # NoRow /\ r.seq <= row.seq /\ r.seq \in 1..MaxSeq
        BY <1>1 DEF Follows, Record
      <4>2. row.seq \in 1..MaxSeq /\ w.seq > row.seq
        BY <1>1, <2>1, <4>1 DEF Newer, Row
      <4>3. QED
        BY <2>3, <2>4, <4>1, <4>2
    <3>2. QED
      BY <3>1
  <2>6. base # NoRow => base.seq <= new.seq
    <3>1. SUFFICES ASSUME base # NoRow PROVE base.seq <= new.seq
      OBVIOUS
    <3>2. row # NoRow /\ base.seq <= row.seq
      BY <1>1, <3>1 DEF Follows
    <3>3. row.seq \in 1..MaxSeq /\ w.seq > row.seq /\ base.seq \in 1..MaxSeq
      BY <1>1, <2>1, <3>1, <3>2 DEF Newer, Row
    <3>4. QED
      BY <2>3, <2>4, <3>2, <3>3
  <2>7. Shows(new, w)
    <3>1. new = [seq |-> w.seq, id |-> w.id, batch |-> b, deleted |-> w.op = "DELETE",
                 val |-> IF w.op # "DELETE" THEN w.val ELSE IF row = NoRow THEN Null ELSE row.val]
      BY <1>5 DEF MergedRow
    <3>2. QED
      BY <3>1 DEF Shows
  <2>8. QED
    BY <1>2, <2>2, <2>3, <2>5, <2>6, <2>7 DEF Follows
<1>6. QED
  BY <1>3, <1>4, <1>5 DEF new, N

\* Every step keeps the rows following.
LEMMA StepRows ==
  ASSUME TypeOK, RowsFollow, [Next]_vars
  PROVE  RowsFollow'
<1>1. ASSUME rows' = rows, applied' = applied, \A b \in 1..applied : batches'[b] = batches[b]
      PROVE  RowsFollow'
  <2>1. ASSUME NEW t \in Tables, NEW k \in Keys
        PROVE  Follows(rows'[t][k], Snapshot(t, k), Delivered(t, k)')
    <3>1. \A r : r \in Delivered(t, k)' <=> r \in Delivered(t, k)
      BY <1>1, DeliveredWhere, DeliveredNext
    <3>2. Delivered(t, k)' = Delivered(t, k)
      BY <3>1
    <3>3. QED
      BY <1>1, <3>2, RowsParts
  <2>2. QED
    BY <2>1, RowsPartsNext
<1>2. CASE ApplyBatch
  <2> DEFINE n == applied + 1
  <2>1. /\ applied' = n /\ batches' = batches
        /\ rows' = [t \in Tables |-> Merge(rows[t], Parsed(batches[n][t], t), n)]
    BY <1>2 DEF ApplyBatch
  <2>2. n \in DOMAIN batches /\ n \in Nat
    BY <1>2, TypeFacts DEF ApplyBatch
  <2>3. 1..n = (1..applied) \cup {n}
    BY TypeFacts
  <2> HIDE DEF n
  <2>4. ASSUME NEW t \in Tables, NEW k \in Keys
        PROVE  Follows(rows'[t][k], Snapshot(t, k), Delivered(t, k)')
    <3> DEFINE P == Parsed(batches[n][t], t)
               D == Delivered(t, k)
    <3>1. P \subseteq Record
      BY <2>2, ParsedOfBatch
    <3>2. D \subseteq Record
      BY DeliveredType
    <3>3. rows[t] \in Rows
      BY DEF TypeOK
    <3>4. Snapshot(t, k) \in Row \cup {NoRow}
      BY SnapshotIsRow
    <3>5. Follows(rows[t][k], Snapshot(t, k), D)
      BY RowsParts
    <3>6. Delivered(t, k)' = D \cup {r \in P : r.key = k}
      <4>1. \A r : r \in Delivered(t, k)' <=> r.key = k /\ \E b \in 1..n : r \in Parsed(batches[b][t], t)
        BY <2>1, DeliveredNext
      <4>2. \A r : r \in D <=> r.key = k /\ \E b \in 1..applied : r \in Parsed(batches[b][t], t)
        BY DeliveredWhere
      <4> HIDE DEF D
      <4>3. \A r : r \in Delivered(t, k)' <=> r \in D \cup {e \in P : e.key = k}
        BY <2>3, <4>1, <4>2
      <4>4. QED
        BY <4>3
    <3>7. rows'[t][k] = Merge(rows[t], P, n)[k]
      BY <2>1
    <3> HIDE DEF P, D
    <3>8. Follows(Merge(rows[t], P, n)[k], Snapshot(t, k), D \cup {r \in P : r.key = k})
      <4> DEFINE base == Snapshot(t, k)
                 old == rows[t]
      <4>1. /\ old \in Rows /\ P \subseteq Record /\ n \in Nat /\ base \in Row \cup {NoRow}
            /\ D \subseteq Record /\ Follows(old[k], base, D)
        BY <2>2, <3>1, <3>2, <3>3, <3>4, <3>5
      <4> HIDE DEF base, old
      <4>2. Follows(Merge(old, P, n)[k], base, D \cup {r \in P : r.key = k})
        BY <4>1, MergeFollows
      <4>3. QED
        BY <4>2 DEF base, old
    <3>9. QED
      BY <3>6, <3>7, <3>8
  <2>5. QED
    BY <2>4, RowsPartsNext
<1>3. CASE CloseBatch
  <2>1. rows' = rows /\ applied' = applied
    BY <1>3, Closes
  <2>2. PICK arrival \in {0, 2} :
          batches' = Append(batches, [t \in Tables |-> File(Len(batches) + 1, arrival, t)])
    BY <1>3, Closes
  <2>3. \A b \in DOMAIN batches : batches'[b] = batches[b]
    <3> DEFINE F == [t \in Tables |-> File(Len(batches) + 1, arrival, t)]
    <3> HIDE DEF F
    <3>1. batches \in Seq(BatchFiles) /\ batches' = Append(batches, F)
      BY <2>2 DEF TypeOK, F
    <3>2. QED
      BY <3>1
  <2>4. QED
    BY <1>1, <2>1, <2>3, AppliedIsWritten
<1>4. ASSUME NEW t \in Tables, NEW k \in Keys, NEW op \in Operations, Make(t, k, op)
      PROVE  RowsFollow'
  BY <1>1, <1>4 DEF Make
<1>5. CASE OpenBatch \/ NextTable \/ UNCHANGED vars
  BY <1>1, <1>5 DEF OpenBatch, NextTable, vars
<1>6. QED
  BY <1>2, <1>3, <1>4, <1>5, StepCases

-----------------------------------------------------------------------------
(***************************************************************************)
(* The theorems.                                                           *)
(***************************************************************************)
\* What the types of every state are: no counter, file or row leaves its range.
THEOREM TypeCorrect == Spec => []TypeOK
<1>1. Init => TypeOK
  BY InitType
<1>2. TypeOK /\ [Next]_vars => TypeOK'
  BY StepType
<1>3. QED
  BY <1>1, <1>2, PTL DEF Spec

\* What every state of the source and of the replica agrees with: lines are in
\* the file of their table, numbered once and in one place; the last line of an
\* entity tells whether it exists; a row is the newest of what was delivered.
THEOREM SourceConsistent == Spec => []SourceInvariant
<1>1. Init => SourceInvariant
  BY InitType, InitFiled, InitNumbered, InitLast, InitRows DEF SourceInvariant
<1>2. SourceInvariant /\ [Next]_vars => SourceInvariant'
  <2> SUFFICES ASSUME SourceInvariant, [Next]_vars PROVE SourceInvariant'
    OBVIOUS
  <2>1. TypeOK /\ LinesFiled /\ LinesNumbered /\ LinesDiffer /\ LastIsLine /\ RowsFollow
    BY DEF SourceInvariant
  <2>2. TypeOK'
    BY <2>1, StepType
  <2>3. LinesFiled' /\ LinesNumbered' /\ LinesDiffer'
    BY <2>1, StepFiled, StepNumbered, StepDiffer
  <2>4. LastIsLine' /\ RowsFollow'
    BY <2>1, StepLast, StepRows
  <2>5. QED
    BY <2>2, <2>3, <2>4 DEF SourceInvariant
<1>3. QED
  BY <1>1, <1>2, PTL DEF Spec

\* What Places collects.
LEMMA PlacesWhere ==
  ASSUME NEW s, NEW p
  PROVE  p \in Places(s) <=>
           \/ p \in DOMAIN batches /\ \E r \in Written(p) : r.seq = s
           \/ p = "events" /\ \E r \in InWork : r.seq = s
           \/ p = "held" /\ \E r \in HeldBack : r.seq = s
<1> DEFINE A == {b \in DOMAIN batches : \E t \in Tables : \E r \in batches[b][t] : r.seq = s /\ r.val # LateVal}
           B == {"events" : t \in {u \in Tables : \E r \in ToSet(events[u]) : r.seq = s}}
           C == {"held" : t \in {u \in Tables : \E r \in ToSet(held[u]) : r.seq = s}}
<1>1. Places(s) = A \cup B \cup C
  BY DEF Places
<1>2. p \in A <=> p \in DOMAIN batches /\ \E r \in Written(p) : r.seq = s
  BY LinesWhere
<1>3. p \in B <=> p = "events" /\ \E r \in InWork : r.seq = s
  BY LinesWhere
<1>4. p \in C <=> p = "held" /\ \E r \in HeldBack : r.seq = s
  BY LinesWhere
<1> HIDE DEF A, B, C
<1>5. QED
  BY <1>1, <1>2, <1>3, <1>4

\* A number that is that of one line, in one place, is in one place.
LEMMA OneLineOnePlace ==
  ASSUME SourceInvariant, NEW s \in (SnapshotTotal + 1)..current_sequence
  PROVE  Cardinality(Places(s)) = 1
<1>1. TypeOK /\ LinesDiffer
  BY DEF SourceInvariant
<1>2. /\ \A r, q \in Lines : r.seq = q.seq => r = q
      /\ \A b, c \in DOMAIN batches : \A r : b # c => ~ (r \in Written(b) /\ r \in Written(c))
      /\ \A b \in DOMAIN batches : \A r \in Written(b) : r \notin InWork /\ r \notin HeldBack
      /\ \A r \in InWork : r \notin HeldBack
  BY <1>1, DifferParts
<1>3. PICK r \in Lines : r.seq = s
  BY <1>1, DifferParts
<1>4. /\ \A b \in DOMAIN batches : \A q \in Written(b) : q.seq = s => q = r
      /\ \A q \in InWork : q.seq = s => q = r
      /\ \A q \in HeldBack : q.seq = s => q = r
  BY <1>2, <1>3, LinesWhere
<1>5. \E p : Places(s) = {p}
  <2>1. CASE \E b \in DOMAIN batches : r \in Written(b)
    <3>1. PICK b \in DOMAIN batches : r \in Written(b)
      BY <2>1
    <3>2. \A q : q \in Places(s) <=> q = b
      <4>1. \A d \in DOMAIN batches : d # b => ~ \E q \in Written(d) : q.seq = s
        BY <1>2, <1>4, <3>1
      <4>2. ~ \E q \in InWork : q.seq = s
        BY <1>2, <1>4, <3>1
      <4>3. ~ \E q \in HeldBack : q.seq = s
        BY <1>2, <1>4, <3>1
      <4>4. QED
        BY <1>3, <3>1, <4>1, <4>2, <4>3, PlacesWhere
    <3>3. Places(s) = {b}
      BY <3>2
    <3>4. QED
      BY <3>3
  <2>2. CASE r \in InWork
    <3>0. PICK p : p = "events"
      OBVIOUS
    <3>1. \A q : q \in Places(s) <=> q = p
      <4>1. \A b \in DOMAIN batches : ~ \E q \in Written(b) : q.seq = s
        BY <1>2, <1>4, <2>2
      <4>2. ~ \E q \in HeldBack : q.seq = s
        BY <1>2, <1>4, <2>2
      <4>3. QED
        BY <1>3, <2>2, <3>0, <4>1, <4>2, PlacesWhere
    <3>2. Places(s) = {p}
      BY <3>1
    <3>3. QED
      BY <3>2
  <2>3. CASE r \in HeldBack
    <3>0. PICK p : p = "held"
      OBVIOUS
    <3>1. \A q : q \in Places(s) <=> q = p
      <4>1. \A b \in DOMAIN batches : ~ \E q \in Written(b) : q.seq = s
        BY <1>2, <1>4, <2>3
      <4>2. ~ \E q \in InWork : q.seq = s
        BY <1>2, <1>4, <2>3
      <4>3. QED
        BY <1>3, <2>3, <3>0, <4>1, <4>2, PlacesWhere
    <3>2. Places(s) = {p}
      BY <3>1
    <3>3. QED
      BY <3>2
  <2>4. r \in InWork \/ r \in HeldBack \/ \E b \in DOMAIN batches : r \in Written(b)
    BY LinesWhere
  <2>5. QED
    BY <2>1, <2>2, <2>3, <2>4
<1>6. PICK p : Places(s) = {p}
  BY <1>5
<1>7. QED
  BY <1>6, FS_Singleton

\* No change is lost or delivered in two batches by being held back: every
\* number given out since the snapshot is in one place, in every state.
THEOREM OnePlace == Spec => []EveryChangeInOnePlace
<1>1. SourceInvariant => EveryChangeInOnePlace
  BY OneLineOnePlace DEF EveryChangeInOnePlace
<1>2. QED
  BY <1>1, SourceConsistent, PTL

\* The events delivered of an entity that is not in doubt: none is above its
\* last change, and a made-up one is below it.
LEMMA DeliveredBelow ==
  ASSUME SourceInvariant, NEW t \in Tables, NEW k \in Keys, ~ InDoubt(t, k), NEW r \in Delivered(t, k)
  PROVE  /\ r \in Record /\ r.key = k /\ r.table = t /\ r.ok
         /\ r.seq <= last[t][k]
         /\ r.seq < last[t][k] \/ r \in Lines
<1>1. TypeOK /\ LinesFiled /\ LinesNumbered /\ LastIsLine
  BY DEF SourceInvariant
<1>2. PICK b \in 1..applied : r \in Parsed(batches[b][t], t)
  BY DeliveredWhere
<1>3. b \in DOMAIN batches
  BY <1>1, AppliedIsWritten
<1>4. r \in Record /\ r.ok /\ r.table = t /\ r.key = k /\ r \in batches[b][t]
  BY <1>1, <1>2, <1>3, ParsedOfBatch, DeliveredWhere
<1>5. last[t][k] \in Nat /\ r.seq \in Nat
  BY <1>1, <1>4 DEF TypeOK, Record
<1>6. CASE r.val = LateVal
  <2>1. t = Subscriptions
    BY <1>1, <1>3, <1>4, <1>6 DEF LinesFiled
  <2>2. r \in MadeUp
    BY <1>3, <1>4, <1>6, <2>1 DEF MadeUp
  <2>3. ~ (r.seq >= last[t][k])
    BY <1>4, <2>2 DEF InDoubt
  <2>4. QED
    BY <1>4, <1>5, <2>3
<1>7. CASE r.val # LateVal
  <2>1. r \in Written(b)
    BY <1>4, <1>7, LinesWhere
  <2>2. r \in Lines
    BY <1>3, <2>1, LinesWhere
  <2>3. r.seq <= last[t][k]
    BY <1>1, <1>4, <2>2, LastParts
  <2>4. QED
    BY <1>4, <2>2, <2>3
<1>8. QED
  BY <1>6, <1>7

\* The last change of an entity that is not in doubt was delivered, when every
\* batch is applied.
LEMMA LastDelivered ==
  ASSUME SourceInvariant, table = 0, applied = Len(batches),
         NEW t \in Tables, NEW k \in Keys, ~ InDoubt(t, k), NEW c \in Lines, Tells(c, t, k)
  PROVE  \E d \in Delivered(t, k) : d.seq = c.seq
<1>1. TypeOK /\ LinesFiled
  BY DEF SourceInvariant
<1>2. c.ok /\ c.table = t /\ c.key = k /\ c.seq = last[t][k]
  BY DEF Tells
<1>3. c \notin InWork
  BY <1>1, NothingInEmpty, LinesWhere DEF LinesFiled
<1>4. c \notin HeldBack
  <2>1. SUFFICES ASSUME c \in HeldBack PROVE FALSE
    OBVIOUS
  <2>2. PICK u \in Tables : c \in ToSet(held[u])
    BY <2>1, LinesWhere
  <2>3. u = t
    BY <1>1, <1>2, <2>2 DEF LinesFiled
  <2>4. QED
    BY <1>2, <2>2, <2>3 DEF InDoubt
<1>5. PICK b \in DOMAIN batches : c \in Written(b)
  BY <1>3, <1>4, LinesWhere
<1>6. c \in batches[b][t]
  <2>1. PICK u \in Tables : c \in batches[b][u]
    BY <1>5, LinesWhere
  <2>2. u = t
    BY <1>1, <1>2, <1>5, <2>1 DEF LinesFiled
  <2>3. QED
    BY <2>1, <2>2
<1> DEFINE file == batches[b][t]
<1>7. file \subseteq Records
  BY <1>1, <1>5, ParsedOfBatch
<1> HIDE DEF file
<1>8. c \in Accepted(file)
  BY <1>2, <1>6 DEF Accepted, file
<1>9. PICK d \in Deduplicated(file) : d.id = c.id
  BY <1>7, <1>8, DeduplicationKeepsOne
<1>10. d \in Records /\ c \in Records /\ d.ok
  BY <1>7, <1>8, <1>9 DEF Deduplicated, Accepted
<1>11. d.table = c.table /\ d.key = c.key /\ d.seq = c.seq
  <2>1. <<d.table, d.key, d.seq, d.op>> = <<c.table, c.key, c.seq, c.op>>
    BY <1>2, <1>9, <1>10, IdentityAssumption
  <2>2. QED
    BY <2>1
<1>12. d \in Parsed(batches[b][t], t)
  BY <1>2, <1>9, <1>11 DEF Parsed, file
<1>13. b \in 1..applied
  BY <1>1, <1>5, TypeFacts
<1>14. d \in Delivered(t, k)
  BY <1>2, <1>11, <1>12, <1>13, DeliveredWhere
<1>15. QED
  BY <1>11, <1>14

\* The row of an entity that is not in doubt is that of its last change.
LEMMA RowIsLast ==
  ASSUME SourceInvariant, table = 0, applied = Len(batches),
         NEW t \in Tables, NEW k \in Keys, ~ InDoubt(t, k)
  PROVE  LET row == rows[t][k]
         IN  /\ row = NoRow <=> last[t][k] = 0
             /\ row # NoRow => /\ row.seq = last[t][k]
                               /\ row.deleted <=> k \notin alive[t]
                               /\ ~ row.deleted => row.val = last[t][k]
<1> DEFINE row == rows[t][k]
           base == Snapshot(t, k)
           D == Delivered(t, k)
           L == last[t][k]
<1>1. TypeOK /\ LinesFiled /\ LinesNumbered /\ LinesDiffer /\ LastIsLine /\ RowsFollow
  BY DEF SourceInvariant
<1>2. Follows(row, base, D)
  BY <1>1, RowsParts
<1>3. /\ base \in Row \cup {NoRow}
      /\ base = NoRow <=> k \notin 1..Initial[t]
      /\ k \in 1..Initial[t] =>
           /\ base.seq = SnapshotSequence(t, k) /\ base.seq \in 1..SnapshotTotal
           /\ base.deleted = FALSE /\ base.val = SnapshotSequence(t, k)
  BY SnapshotIsRow
<1>4. row \in Row \cup {NoRow}
  <2>1. rows[t] \in Rows
    BY <1>1 DEF TypeOK
  <2>2. QED
    BY <2>1 DEF Rows
<1>5. L \in Nat /\ SnapshotTotal \in Nat /\ MaxSeq \in Nat
  BY <1>1, SnapshotNumbers, BoundsAssumption DEF TypeOK
<1>6. \A r \in D : r \in Record /\ r.seq <= L /\ (r.seq < L \/ r \in Lines)
  BY DeliveredBelow
<1>7. \A r \in Lines : SnapshotTotal < r.seq /\ r.seq \in Nat
  BY <1>1, Numbered
<1>8. \A r \in D : r.seq \in 1..MaxSeq
  BY <1>6 DEF Record
<1>9. row # NoRow => row.seq \in 1..MaxSeq
  BY <1>4 DEF Row
<1>10. CASE Untouched(t, k)
  <2>1. L = (IF k \in 1..Initial[t] THEN SnapshotSequence(t, k) ELSE 0) /\ (k \in alive[t] <=> k \in 1..Initial[t])
    BY <1>10 DEF Untouched
  <2> HIDE DEF L, D, base, row
  <2>2. L <= SnapshotTotal
    BY <1>3, <1>5, <2>1
  <2>3. \A r \in D : r.seq < L
    <3>1. ASSUME NEW r \in D PROVE r.seq < L
      BY <1>5, <1>6, <1>7, <1>8, <2>2
    <3>2. QED
      BY <3>1
  <2>4. CASE k \in 1..Initial[t]
    <3>1. base # NoRow /\ base.seq = L /\ base.deleted = FALSE /\ base.val = L /\ L # 0 /\ k \in alive[t]
      BY <1>3, <1>5, <2>1, <2>4
    <3>2. row # NoRow /\ base.seq <= row.seq
      BY <1>2, <3>1 DEF Follows
    <3>3. row = base
      <4>1. \A r \in D : ~ Shows(row, r)
        <5>1. ASSUME NEW r \in D, Shows(row, r) PROVE FALSE
          BY <1>5, <1>8, <1>9, <2>3, <3>1, <3>2, <5>1 DEF Shows
        <5>2. QED
          BY <5>1
      <4>2. QED
        BY <1>2, <3>2, <4>1 DEF Follows
    <3>4. QED
      BY <3>1, <3>2, <3>3 DEF row, L
  <2>5. CASE k \notin 1..Initial[t]
    <3>1. base = NoRow /\ L = 0
      BY <1>3, <2>1, <2>5
    <3>2. D = {}
      <4>1. ASSUME NEW r \in D PROVE FALSE
        BY <1>8, <2>3, <3>1, <1>5
      <4>2. QED
        BY <4>1
    <3>3. row = NoRow
      BY <1>2, <3>1, <3>2 DEF Follows
    <3>4. QED
      BY <3>1, <3>3 DEF row, L
  <2>6. QED
    BY <2>4, <2>5
<1>11. CASE \E c \in Lines : Tells(c, t, k)
  <2>1. PICK c \in Lines : Tells(c, t, k)
    BY <1>11
  <2>2. c.ok /\ c.seq = L /\ (c.op = "DELETE" <=> k \notin alive[t])
    BY <2>1 DEF Tells
  <2>3. c.val = L
    <3>1. c.val = c.seq
      <4>1. c = Change(c.table, c.key, c.op, c.seq)
        BY <1>1, <2>2 DEF LinesNumbered
      <4>2. QED
        BY <4>1 DEF Change, Event
    <3>2. QED
      BY <2>2, <3>1
  <2>4. PICK d \in D : d.seq = L
    BY <2>1, <2>2, LastDelivered
  <2> HIDE DEF L, D, base, row
  <2>5. SnapshotTotal < L
    BY <1>7, <2>2
  <2>6. row # NoRow /\ L <= row.seq
    BY <1>2, <2>4 DEF Follows
  <2>7. row # base
    BY <1>3, <1>5, <2>5, <2>6
  <2>8. PICK e \in D : Shows(row, e)
    BY <1>2, <2>6, <2>7 DEF Follows
  <2>9. row.seq = L /\ e.seq = L /\ e \in Lines
    BY <1>5, <1>6, <1>8, <1>9, <2>6, <2>8 DEF Shows
  <2>10. e = c
    BY <1>1, <2>2, <2>9 DEF LinesDiffer
  <2>11. (row.deleted <=> c.op = "DELETE") /\ (~ row.deleted => row.val = L)
    BY <2>3, <2>8, <2>10 DEF Shows
  <2>12. L # 0
    BY <1>5, <2>5
  <2>13. QED
    BY <2>2, <2>6, <2>9, <2>11, <2>12 DEF row, L
<1>12. QED
  BY <1>1, <1>10, <1>11, LastParts

\* When every batch is applied the replica is the source, but for an entity
\* whose newest change is held back or outnumbered by a made-up event.
THEOREM Replica == Spec => []ReplicaMatchesSource
<1>1. SourceInvariant => ReplicaMatchesSource
  BY RowIsLast DEF ReplicaMatchesSource
<1>2. QED
  BY <1>1, SourceConsistent, PTL
=============================================================================
