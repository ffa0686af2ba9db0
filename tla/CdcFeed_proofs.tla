--------------------------- MODULE CdcFeed_proofs ---------------------------
(***************************************************************************)
(* What deduplication keeps of any file, and the marks taken from it.      *)
(***************************************************************************)
EXTENDS CdcFeed, TLAPS, WellFoundedInduction

\* A nonempty set of naturals has a least element.
LEMMA NatHasMinimum ==
  ASSUME NEW S, S \subseteq Nat, S # {}
  PROVE  \E m \in S : \A n \in S : m <= n
<1>1. PICK m \in S : \A n \in S : ~ (<<n, m>> \in OpToRel(<, Nat))
  BY NatLessThanWellFounded, WFMin
<1>2. ASSUME NEW n \in S PROVE ~ (n < m)
  BY <1>1 DEF OpToRel
<1>3. \A n \in S : m <= n
  BY <1>2
<1>4. QED
  BY <1>3

\* A nonempty set of naturals with a bound has a greatest element.
LEMMA BoundedHasMaximum ==
  ASSUME NEW B \in Nat, NEW S, S \subseteq 0..B, S # {}
  PROVE  \E m \in S : \A n \in S : n <= m
<1> DEFINE D == {B - n : n \in S}
<1>1. D \subseteq Nat /\ D # {}
  <2>1. \A n \in S : B - n \in Nat
    OBVIOUS
  <2>2. QED
    BY <2>1
<1>2. PICK d \in D : \A e \in D : d <= e
  BY <1>1, NatHasMinimum
<1>3. PICK m \in S : d = B - m
  OBVIOUS
<1>4. \A n \in S : B - m <= B - n
  BY <1>2, <1>3
<1>5. QED
  BY <1>4

\* Max is the greatest element of such a set.
LEMMA MaxIsGreatest ==
  ASSUME NEW B \in Nat, NEW S, S \subseteq 0..B, S # {}
  PROVE  Max(S) \in S /\ \A n \in S : n <= Max(S)
<1>1. \E m \in S : \A n \in S : m >= n
  BY BoundedHasMaximum
<1>2. QED
  BY <1>1 DEF Max

\* What is greatest in such a set is its Max.
LEMMA GreatestIsMax ==
  ASSUME NEW B \in Nat, NEW S, S \subseteq 0..B, NEW m \in S, \A n \in S : n <= m
  PROVE  Max(S) = m
<1>1. Max(S) \in S /\ \A n \in S : n <= Max(S)
  <2>1. S # {}
    OBVIOUS
  <2>2. QED
    BY <2>1, MaxIsGreatest
<1>2. PICK x \in S : x = Max(S) /\ \A n \in S : n <= x
  BY <1>1
<1>3. x <= m /\ m <= x
  BY <1>2
<1>4. x \in 0..B /\ m \in 0..B
  OBVIOUS
<1>5. QED
  BY <1>2, <1>3, <1>4

\* Deduplication keeps one of the copies of every valid event.
LEMMA DeduplicationKeepsOne ==
  ASSUME NEW file, file \subseteq Records, NEW r \in Accepted(file)
  PROVE  \E s \in Deduplicated(file) : s.id = r.id
<1> DEFINE Copies == {s \in Accepted(file) : s.id = r.id}
           Arrivals == {s.arrival : s \in Copies}
<1>1. Arrivals \subseteq Nat
  BY RecordsAssumption DEF Accepted, Record
<1>2. r \in Copies
  OBVIOUS
<1>3. PICK a \in Arrivals : \A b \in Arrivals : a <= b
  BY <1>1, <1>2, NatHasMinimum
<1>4. PICK s \in Copies : s.arrival = a
  OBVIOUS
<1>5. \A u \in Accepted(file) : u.id = s.id => s.arrival <= u.arrival
  BY <1>3, <1>4
<1>6. QED
  BY <1>4, <1>5 DEF Deduplicated

\* No two deduplicated records share an id.
LEMMA DeduplicatedIdsDiffer ==
  ASSUME NEW file, file \subseteq Records,
         NEW r \in Deduplicated(file), NEW s \in Deduplicated(file), r.id = s.id
  PROVE  r = s
<1>1. r.arrival \in Nat /\ s.arrival \in Nat
  BY RecordsAssumption DEF Deduplicated, Accepted, Record
<1>2. r.arrival = s.arrival
  BY <1>1 DEF Deduplicated
<1>3. QED
  BY <1>2, CopiesAssumption DEF Deduplicated, Accepted

\* What is parsed for a table are typed valid records of that table.
LEMMA ParsedType ==
  ASSUME NEW file, file \subseteq Records, NEW t, NEW r \in Parsed(file, t)
  PROVE  r \in Record /\ r \in Records /\ r.ok /\ r.table = t
  BY RecordsAssumption DEF Parsed, Deduplicated, Accepted

\* The high-water mark staged for a file is a natural number.
LEMMA HighestSequenceType ==
  ASSUME NEW file, file \subseteq Records
  PROVE  HighestSequence(file) \in 0..MaxSeq
<1> DEFINE S == {0} \cup {r.seq : r \in Deduplicated(file)}
<1>1. S \subseteq 0..MaxSeq
  BY RecordsAssumption, BoundsAssumption DEF Deduplicated, Accepted, Record
<1>2. Max(S) \in S
  BY <1>1, BoundsAssumption, MaxIsGreatest
<1>3. QED
  BY <1>1, <1>2 DEF HighestSequence

\* The mark a late batch stages: the larger of the recorded one and its own.
LEMMA MaxOfTwo ==
  ASSUME NEW m \in Nat, NEW n \in Nat
  PROVE  Max({m, n}) \in Nat /\ Max({m, n}) >= m /\ Max({m, n}) >= n
<1> DEFINE B == IF m <= n THEN n ELSE m
<1>1. {m, n} \subseteq 0..B /\ B \in Nat
  OBVIOUS
<1>2. Max({m, n}) \in {m, n} /\ \A x \in {m, n} : x <= Max({m, n})
  BY <1>1, MaxIsGreatest
<1>3. QED
  BY <1>2

\* A mark raised by a batch is the mark of all batches and this one.
LEMMA MaxOfOneMore ==
  ASSUME NEW B \in Nat, NEW S, S \subseteq 0..B, S # {}, NEW n \in 0..B
  PROVE  Max(S \cup {n}) = Max({Max(S), n})
<1> DEFINE m == Max({Max(S), n})
<1>1. Max(S) \in S /\ \A x \in S : x <= Max(S)
  BY MaxIsGreatest
<1>2. {Max(S), n} \subseteq 0..B
  BY <1>1
<1>3. m \in {Max(S), n} /\ \A x \in {Max(S), n} : x <= m
  BY <1>2, MaxIsGreatest
<1>4. \A x \in S \cup {n} : x <= m
  BY <1>1, <1>2, <1>3
<1>5. m \in S \cup {n} /\ S \cup {n} \subseteq 0..B
  BY <1>1, <1>3
<1> HIDE DEF m
<1>6. Max(S \cup {n}) = m
  BY <1>4, <1>5, GreatestIsMax
<1>7. QED
  BY <1>6 DEF m

\* A mark raised by nothing stays.
LEMMA MaxWithZero ==
  ASSUME NEW m \in Nat
  PROVE  Max({m, 0}) = m
<1>1. {m, 0} \subseteq 0..m /\ m \in {m, 0} /\ \A n \in {m, 0} : n <= m
  OBVIOUS
<1>2. QED
  BY <1>1, GreatestIsMax

\* A file without valid records has the mark 0.
LEMMA NoRecordsNoMark == HighestSequence({}) = 0
<1>1. {0} \cup {r.seq : r \in Deduplicated({})} = {0}
  BY DEF Deduplicated, Accepted
<1>2. {0} \subseteq 0..0 /\ 0 \in Nat
  OBVIOUS
<1>3. Max({0}) = 0
  BY <1>2, MaxIsGreatest
<1>4. QED
  BY <1>1, <1>3 DEF HighestSequence
=============================================================================
