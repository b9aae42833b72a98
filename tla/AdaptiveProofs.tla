--------------------------- MODULE AdaptiveProofs ---------------------------
(***************************************************************************)
(* Proofs about Adaptive, for every ramp, every set of rates and phases of *)
(* any length: the median exists, the rate of a phase is typical of it,    *)
(* and the engine forgets no incomplete stream, ends within the life of    *)
(* its run and presents nothing that was cancelled.                        *)
(***************************************************************************)
EXTENDS Adaptive, FunctionTheorems, FiniteSetTheorems, WellFoundedInduction,
        SequenceTheorems, TLAPS

-----------------------------------------------------------------------------
(* Finite sets of numbers.                                                 *)

\* The set with the fewest elements above its bound has none.
LEMMA GreatestExists ==
  ASSUME NEW S \in SUBSET Nat, IsFiniteSet(S), S # {}
  PROVE  \E m \in S : \A y \in S : y <= m
  <1>. DEFINE Above(x) == {y \in S : y > x}
              T == {Above(x) : x \in S}
  <1>1. T \subseteq FiniteSubsetsOf(S) BY FS_FiniteSubsetsOfFinite
  <1>2. PICK U \in T : \A V \in T : <<V, U>> \notin StrictSubsetOrdering(S)
    BY <1>1, T # {}, FS_StrictSubsetOrderingWellFounded, WFMin
  <1>3. PICK m \in S : U = Above(m) BY <1>2
  <1>4. ASSUME NEW y \in S, y > m PROVE FALSE
    <2>1. Above(y) \in T BY <1>4
    <2>2. y \in Nat /\ m \in Nat OBVIOUS
    <2>3. y \in Above(m) /\ y \notin Above(y) BY <1>4, <2>2
    <2>4. ASSUME NEW z \in Above(y) PROVE z \in Above(m)
      <3>1. z \in S /\ z \in Nat /\ z > y BY <2>4
      <3>. QED BY <3>1, <2>2, <1>4
    <2>5. Above(y) \in SUBSET S /\ Above(m) \in SUBSET S OBVIOUS
    <2>. HIDE DEF Above
    <2>6. <<Above(y), Above(m)>> \in StrictSubsetOrdering(S)
      BY <2>3, <2>4, <2>5 DEF StrictSubsetOrdering
    <2>. QED BY <2>1, <2>6, <1>2, <1>3
  <1>. QED BY <1>3, <1>4

LEMMA LeastExists ==
  ASSUME NEW S \in SUBSET Nat, IsFiniteSet(S), S # {}
  PROVE  \E m \in S : \A y \in S : m <= y
  <1>. DEFINE Below(x) == {y \in S : y < x}
              T == {Below(x) : x \in S}
  <1>1. T \subseteq FiniteSubsetsOf(S) BY FS_FiniteSubsetsOfFinite
  <1>2. PICK U \in T : \A V \in T : <<V, U>> \notin StrictSubsetOrdering(S)
    BY <1>1, T # {}, FS_StrictSubsetOrderingWellFounded, WFMin
  <1>3. PICK m \in S : U = Below(m) BY <1>2
  <1>4. ASSUME NEW y \in S, y < m PROVE FALSE
    <2>1. Below(y) \in T BY <1>4
    <2>2. y \in Nat /\ m \in Nat OBVIOUS
    <2>3. y \in Below(m) /\ y \notin Below(y) BY <1>4, <2>2
    <2>4. ASSUME NEW z \in Below(y) PROVE z \in Below(m)
      <3>1. z \in S /\ z \in Nat /\ z < y BY <2>4
      <3>. QED BY <3>1, <2>2, <1>4
    <2>5. Below(y) \in SUBSET S /\ Below(m) \in SUBSET S OBVIOUS
    <2>. HIDE DEF Below
    <2>6. <<Below(y), Below(m)>> \in StrictSubsetOrdering(S)
      BY <2>3, <2>4, <2>5 DEF StrictSubsetOrdering
    <2>. QED BY <2>1, <2>6, <1>2, <1>3
  <1>. QED BY <1>3, <1>4
-----------------------------------------------------------------------------
(* The samples of a phase.                                                 *)

\* How often some samples fall below or up to x.
Less(v, x) == Cardinality({i \in DOMAIN v : v[i] < x})
UpTo(v, x) == Cardinality({i \in DOMAIN v : v[i] <= x})

LEMMA SamplesCount ==
  ASSUME NEW n \in Nat, NEW D \in SUBSET (1..n)
  PROVE  IsFiniteSet(D) /\ Cardinality(D) \in Nat /\ Cardinality(D) <= n
  <1>1. IsFiniteSet(1..n) /\ Cardinality(1..n) = n BY FS_Interval
  <1>2. IsFiniteSet(D) /\ Cardinality(D) <= Cardinality(1..n) BY <1>1, FS_Subset
  <1>3. Cardinality(D) \in Nat BY <1>2, FS_CardinalityType
  <1>. QED BY <1>1, <1>2, <1>3

\* The least rate that more than half of the samples do not exceed splits them.
LEMMA MedianSplits ==
  ASSUME NEW n \in Nat \ {0}, NEW v \in [1..n -> Nat]
  PROVE  /\ median(v) \in Range(v) /\ median(v) \in Nat
         /\ 2 * Less(v, median(v)) <= n
         /\ 2 * UpTo(v, median(v)) > n
  <1>1. /\ v # <<>> /\ Len(v) = n /\ DOMAIN v = 1..n
        /\ Range(v) \subseteq Nat /\ Range(v) # {}
    BY DEF Range
  <1>2. IsFiniteSet(Range(v))
    <2>1. v \in Surjection(1..n, Range(v)) BY Fun_RangeProperties
    <2>2. IsFiniteSet(1..n) BY FS_Interval
    <2>. QED BY <2>1, <2>2, FS_Surjection
  <1>. DEFINE Half == {x \in Range(v) : 2 * UpTo(v, x) > n}
  <1>3. Half # {}
    <2>1. PICK top \in Range(v) : \A y \in Range(v) : y <= top
      BY <1>1, <1>2, GreatestExists
    <2>2. {i \in DOMAIN v : v[i] <= top} = 1..n BY <1>1, <2>1 DEF Range
    <2>. HIDE DEF Half
    <2>3. Cardinality(1..n) = n
      <3>1. Cardinality(1..n) = IF 1 > n THEN 0 ELSE n - 1 + 1 BY FS_Interval
      <3>. QED BY <3>1
    <2>4. UpTo(v, top) = n BY <2>2, <2>3 DEF UpTo
    <2>5. 2 * UpTo(v, top) > n BY <2>4
    <2>. QED BY <2>5 DEF Half
  <1>4. PICK m \in Half : \A y \in Half : m <= y
    <2>1. IsFiniteSet(Half) BY <1>2, FS_Subset
    <2>2. Half \in SUBSET Nat BY <1>1
    <2>. QED BY <1>3, <2>1, <2>2, LeastExists
  <1>5. 2 * Less(v, m) <= n
    <2>. SUFFICES ASSUME ~ (2 * Less(v, m) <= n) PROVE FALSE OBVIOUS
    <2>. DEFINE Lower == {x \in Range(v) : x < m}
    <2>1. Less(v, m) \in Nat
      BY <1>1, SamplesCount, {i \in DOMAIN v : v[i] < m} \in SUBSET (1..n) DEF Less
    <2>2. Lower # {}
      <3>1. CASE Lower = {}
        <4>1. {i \in DOMAIN v : v[i] < m} = {} BY <3>1 DEF Range
        <4>2. Less(v, m) = 0 BY <4>1, FS_EmptySet DEF Less
        <4>. QED BY <4>2
      <3>. QED BY <3>1
    <2>3. PICK p \in Lower : \A y \in Lower : y <= p
      <3>1. IsFiniteSet(Lower) BY <1>2, FS_Subset
      <3>2. Lower \in SUBSET Nat BY <1>1
      <3>. QED BY <2>2, <3>1, <3>2, GreatestExists
    <2>4. m \in Nat /\ p \in Nat /\ p < m BY <1>1, <2>3
    <2>5. {i \in DOMAIN v : v[i] < m} = {i \in DOMAIN v : v[i] <= p}
      <3>1. ASSUME NEW i \in DOMAIN v PROVE v[i] < m <=> v[i] <= p
        <4>1. v[i] \in Range(v) /\ v[i] \in Nat BY <1>1 DEF Range
        <4>. QED BY <4>1, <2>3, <2>4
      <3>. QED BY <3>1
    <2>6. 2 * UpTo(v, p) > n
      <3>1. UpTo(v, p) = Less(v, m) BY <2>5 DEF Less, UpTo
      <3>. QED BY <2>1, <3>1
    <2>7. p \in Half BY <2>3, <2>6
    <2>. QED BY <2>4, <2>7, <1>4
  <1>. DEFINE IsMedian(x) == /\ 2 * Cardinality({i \in DOMAIN v : v[i] < x}) <= Len(v)
                             /\ 2 * Cardinality({i \in DOMAIN v : v[i] <= x}) > Len(v)
  <1>6. m \in Range(v) /\ IsMedian(m) BY <1>1, <1>4, <1>5 DEF Less, UpTo
  <1>7. median(v) = CHOOSE x \in Range(v) : IsMedian(x) BY <1>1 DEF median
  <1>8. median(v) \in Range(v) /\ IsMedian(median(v)) BY <1>6, <1>7
  <1>. QED BY <1>1, <1>8 DEF Less, UpTo

\* The samples after the first fall below, up to, and from x on as often as the tail's.
LEMMA TailCounts ==
  ASSUME NEW n \in Nat \ {0}, NEW v \in [1..n -> Nat], NEW x \in Nat
  PROVE  /\ Tail(v) \in [1..(n - 1) -> Nat]
         /\ Less(Tail(v), x) = Cardinality({i \in 2..n : v[i] < x})
         /\ UpTo(Tail(v), x) = Cardinality({i \in 2..n : v[i] <= x})
  <1>1. v \in Seq(Nat) /\ v # <<>> /\ Len(v) = n OBVIOUS
  <1>2. /\ Tail(v) \in [1..(n - 1) -> Nat] /\ DOMAIN Tail(v) = 1..(n - 1)
        /\ \A i \in 1..(n - 1) : Tail(v)[i] = v[i + 1]
    <2>1. /\ Tail(v) \in Seq(Nat) /\ Len(Tail(v)) = n - 1
          /\ \A i \in 1..Len(Tail(v)) : Tail(v)[i] = v[i + 1]
      BY <1>1, HeadTailProperties
    <2>2. Tail(v) \in [1..Len(Tail(v)) -> Nat] /\ DOMAIN Tail(v) = 1..Len(Tail(v))
      BY <2>1, LenProperties
    <2>. QED BY <2>1, <2>2
  <1>3. ASSUME NEW A \in SUBSET (1..(n - 1)), NEW B \in SUBSET (2..n),
               \A i \in 1..(n - 1) : i \in A <=> i + 1 \in B
        PROVE  Cardinality(A) = Cardinality(B)
    <2>. DEFINE next == [i \in A |-> i + 1]
    <2>1. next \in [A -> B] BY <1>3
    <2>2. \A a, b \in A : next[a] = next[b] => a = b
      <3>. SUFFICES ASSUME NEW a \in A, NEW b \in A, next[a] = next[b] PROVE a = b OBVIOUS
      <3>1. a \in Int /\ b \in Int /\ a + 1 = b + 1 OBVIOUS
      <3>. QED BY <3>1
    <2>3. \A t \in B : \E a \in A : next[a] = t
      <3>. SUFFICES ASSUME NEW t \in B PROVE \E a \in A : next[a] = t OBVIOUS
      <3>1. t - 1 \in 1..(n - 1) /\ (t - 1) + 1 = t OBVIOUS
      <3>2. t - 1 \in A BY <3>1, <1>3
      <3>. QED BY <3>1, <3>2
    <2>4. ExistsBijection(A, B)
      <3>. HIDE DEF next
      <3>1. next \in Injection(A, B) BY <2>1, <2>2, Fun_IsInj
      <3>2. next \in Surjection(A, B) BY <2>1, <2>3, Fun_IsSurj
      <3>3. next \in Bijection(A, B) BY <3>1, <3>2 DEF Bijection
      <3>. QED BY <3>3 DEF ExistsBijection
    <2>5. IsFiniteSet(A)
      <3>1. n - 1 \in Nat OBVIOUS
      <3>. QED BY <3>1, SamplesCount
    <2>. HIDE DEF next
    <2>. QED BY <2>4, <2>5, FS_Bijection
  <1>4. Less(Tail(v), x) = Cardinality({i \in 2..n : v[i] < x})
    <2>. DEFINE A == {i \in 1..(n - 1) : Tail(v)[i] < x}
                B == {i \in 2..n : v[i] < x}
    <2>1. \A i \in 1..(n - 1) : i \in A <=> i + 1 \in B BY <1>2
    <2>2. A \in SUBSET (1..(n - 1)) /\ B \in SUBSET (2..n) OBVIOUS
    <2>3. Cardinality(A) = Cardinality(B)
      <3>. HIDE DEF A, B
      <3>. QED BY <1>3, <2>1, <2>2
    <2>. QED BY <1>2, <2>3 DEF Less
  <1>5. UpTo(Tail(v), x) = Cardinality({i \in 2..n : v[i] <= x})
    <2>. DEFINE A == {i \in 1..(n - 1) : Tail(v)[i] <= x}
                B == {i \in 2..n : v[i] <= x}
    <2>1. \A i \in 1..(n - 1) : i \in A <=> i + 1 \in B BY <1>2
    <2>2. A \in SUBSET (1..(n - 1)) /\ B \in SUBSET (2..n) OBVIOUS
    <2>3. Cardinality(A) = Cardinality(B)
      <3>. HIDE DEF A, B
      <3>. QED BY <1>3, <2>1, <2>2
    <2>. QED BY <1>2, <2>3 DEF UpTo
  <1>. QED BY <1>2, <1>4, <1>5

\* What later samples do not fall below x, and what all of them are that do not exceed zero.
LEMMA Complement ==
  ASSUME NEW n \in Nat \ {0}, NEW v \in [1..n -> Nat], NEW x \in Nat
  PROVE  /\ Cardinality({i \in 2..n : v[i] < x}) \in Nat
         /\ Cardinality({i \in 2..n : v[i] >= x})
              = (n - 1) - Cardinality({i \in 2..n : v[i] < x})
         /\ {i \in 2..n : v[i] <= 0} = {i \in 2..n : v[i] = 0}
         /\ {i \in DOMAIN v : v[i] <= 0} = {i \in DOMAIN v : v[i] = 0}
  <1>. DEFINE Low == {i \in 2..n : v[i] < x}
              High == {i \in 2..n : v[i] >= x}
  <1>1. \A i \in 1..n : v[i] \in Nat OBVIOUS
  <1>2. IsFiniteSet(2..n) /\ Cardinality(2..n) = n - 1
    <2>1. IsFiniteSet(2..n) /\ Cardinality(2..n) = IF 2 > n THEN 0 ELSE n - 2 + 1
      BY FS_Interval
    <2>. QED BY <2>1
  <1>3. High = (2..n) \ Low /\ (2..n) \cap Low = Low BY <1>1
  <1>4. Cardinality(Low) \in Nat
    <2>1. Low \in SUBSET (1..n) OBVIOUS
    <2>. QED BY <2>1, SamplesCount
  <1>5. Cardinality(High) = (n - 1) - Cardinality(Low)
    <2>. HIDE DEF Low, High
    <2>1. Cardinality((2..n) \ Low) = Cardinality(2..n) - Cardinality((2..n) \cap Low)
      BY <1>2, FS_Difference
    <2>. QED BY <1>2, <1>3, <2>1
  <1>6. {i \in 2..n : v[i] <= 0} = {i \in 2..n : v[i] = 0} BY <1>1
  <1>7. {i \in DOMAIN v : v[i] <= 0} = {i \in DOMAIN v : v[i] = 0} BY <1>1
  <1>. QED BY <1>4, <1>5, <1>6, <1>7


-----------------------------------------------------------------------------
(* The rate of a phase.                                                    *)

LEMMA SamplesAreSequences ==
  ASSUME NEW v \in Samples
  PROVE  /\ Len(v) \in Nat /\ v \in [1..Len(v) -> Rates] /\ v \in [1..Len(v) -> Nat]
         /\ v \in Seq(Rates) /\ (v # <<>> => Len(v) \in Nat \ {0})
  <1>1. PICK n \in 0..MaxSamples : v \in [1..n -> Rates] BY DEF Samples
  <1>2. n \in Nat BY AdaptiveAssumption
  <1>3. v \in Seq(Rates) BY <1>1, <1>2, SeqDef
  <1>4. Len(v) \in Nat /\ v \in [1..Len(v) -> Rates] BY <1>3, LenProperties
  <1>5. v \in [1..Len(v) -> Nat] BY <1>4, AdaptiveAssumption
  <1>6. v # <<>> => Len(v) \in Nat \ {0} BY <1>3, EmptySeq
  <1>. QED BY <1>3, <1>4, <1>5, <1>6

LEMMA MedianTyped ==
  ASSUME NEW v \in Seq(Rates)
  PROVE  median(v) \in Rates \cup {0}
  <1>1. CASE v = <<>> BY <1>1 DEF median
  <1>2. CASE v # <<>>
    <2>1. Len(v) \in Nat \ {0} /\ v \in [1..Len(v) -> Rates]
      BY <1>2, EmptySeq, LenProperties
    <2>2. v \in [1..Len(v) -> Nat] BY <2>1, AdaptiveAssumption
    <2>3. median(v) \in Range(v) BY <2>1, <2>2, MedianSplits
    <2>. QED BY <2>1, <2>3, Fun_RangeProperties
  <1>. QED BY <1>1, <1>2

LEMMA RateTyped ==
  ASSUME NEW v \in Samples
  PROVE  rate(v) \in Rates \cup {0}
  <1>1. v \in Seq(Rates) BY SamplesAreSequences
  <1>2. median(v) \in Rates \cup {0} BY <1>1, MedianTyped
  <1>3. v # <<>> => median(Tail(v)) \in Rates \cup {0}
    BY <1>1, HeadTailProperties, MedianTyped
  <1>. QED BY <1>2, <1>3 DEF rate

\* What RateIsTypical says of the samples v.
Typical(v) ==
  LET r == rate(v)
      later == 2..Len(v)
  IN  IF r = 0
        THEN 2 * Cardinality({i \in DOMAIN v : v[i] = 0}) > Len(v)
        ELSE \/ /\ 2 * Cardinality({i \in later : v[i] <= r}) >= Len(v) - 1
                /\ 2 * Cardinality({i \in later : v[i] >= r}) >= Len(v) - 1
                /\ later # {}
             \/ 2 * Cardinality({i \in later : v[i] = 0}) >= Len(v) - 1

LEMMA EveryRateIsTypical ==
  ASSUME NEW v \in Samples, v # <<>>
  PROVE  Typical(v)
  <1>. DEFINE n == Len(v)
              w == Tail(v)
  <1>1. n \in Nat \ {0} /\ v \in [1..n -> Nat] /\ DOMAIN v = 1..n
    BY SamplesAreSequences
  <1>2. w \in [1..(n - 1) -> Nat] /\ n - 1 \in Nat
    <2>1. 0 \in Nat OBVIOUS
    <2>. HIDE DEF n, w
    <2>2. Tail(v) \in [1..(n - 1) -> Nat] BY <1>1, <2>1, TailCounts
    <2>. QED BY <1>1, <2>2 DEF w
  <1>. HIDE DEF n
  <1>3. /\ median(v) \in Nat /\ 2 * UpTo(v, median(v)) > n BY <1>1, MedianSplits
  <1>4. ASSUME n > 1
        PROVE  /\ median(w) \in Nat
               /\ 2 * Cardinality({i \in 2..n : v[i] < median(w)}) <= n - 1
               /\ 2 * Cardinality({i \in 2..n : v[i] <= median(w)}) > n - 1
    <2>1. n - 1 \in Nat \ {0} BY <1>1, <1>4
    <2>. HIDE DEF w
    <2>2. /\ median(w) \in Nat /\ 2 * Less(w, median(w)) <= n - 1
          /\ 2 * UpTo(w, median(w)) > n - 1
      BY <1>2, <2>1, MedianSplits
    <2>. QED BY <1>1, <2>2, TailCounts DEF w
  <1>5. n = 1 => median(w) = 0
    <2>. SUFFICES ASSUME n = 1 PROVE median(w) = 0 OBVIOUS
    <2>1. w = <<>> BY <1>2
    <2>. QED BY <2>1 DEF median
  <1>6. rate(v) = IF median(w) # 0 THEN median(w) ELSE median(v) BY DEF rate
  <1>. HIDE DEF w
  <1>7. CASE rate(v) = 0
    <2>1. median(v) = 0 BY <1>6, <1>7
    <2>2. 2 * Cardinality({i \in DOMAIN v : v[i] <= 0}) > n BY <1>3, <2>1 DEF UpTo
    <2>3. {i \in DOMAIN v : v[i] <= 0} = {i \in DOMAIN v : v[i] = 0}
      BY <1>1, <1>3, Complement
    <2>. QED BY <1>7, <2>2, <2>3 DEF Typical, n
  <1>8. CASE rate(v) # 0 /\ median(w) # 0
    <2>1. n > 1 BY <1>1, <1>5, <1>8
    <2>. DEFINE m == median(w)
                Low == Cardinality({i \in 2..n : v[i] < m})
    <2>2. rate(v) = m /\ m \in Nat BY <1>4, <1>6, <1>8, <2>1
    <2>3. 2 * Low <= n - 1 BY <1>4, <2>1
    <2>4. 2 * Cardinality({i \in 2..n : v[i] <= m}) > n - 1 BY <1>4, <2>1
    <2>. HIDE DEF m
    <2>5. Low \in Nat /\ Cardinality({i \in 2..n : v[i] >= m}) = (n - 1) - Low
      BY <1>1, <2>2, Complement
    <2>. HIDE DEF Low
    <2>6. 2 * Cardinality({i \in 2..n : v[i] >= m}) >= n - 1 BY <1>1, <2>3, <2>5
    <2>7. 2 * Cardinality({i \in 2..n : v[i] <= m}) >= n - 1
      <3>1. Cardinality({i \in 2..n : v[i] <= m}) \in Nat
        BY <1>1, SamplesCount, {i \in 2..n : v[i] <= m} \in SUBSET (1..n)
      <3>. QED BY <1>1, <2>4, <3>1
    <2>8. 2..n # {} BY <1>1, <2>1
    <2>. QED BY <1>8, <2>2, <2>6, <2>7, <2>8 DEF Typical, n
  <1>9. CASE rate(v) # 0 /\ median(w) = 0
    <2>1. CASE n = 1
      <3>1. {i \in 2..n : v[i] = 0} = {} BY <2>1
      <3>2. Cardinality({i \in 2..n : v[i] = 0}) = 0 BY <3>1, FS_EmptySet
      <3>3. 2 * Cardinality({i \in 2..n : v[i] = 0}) >= n - 1 BY <2>1, <3>2
      <3>. QED BY <1>9, <3>3 DEF Typical, n
    <2>2. CASE n > 1
      <3>1. 2 * Cardinality({i \in 2..n : v[i] <= 0}) > n - 1 BY <1>4, <1>9, <2>2
      <3>2. {i \in 2..n : v[i] <= 0} = {i \in 2..n : v[i] = 0} BY <1>1, <1>3, Complement
      <3>3. Cardinality({i \in 2..n : v[i] = 0}) \in Nat
        BY <1>1, SamplesCount, {i \in 2..n : v[i] = 0} \in SUBSET (1..n)
      <3>4. 2 * Cardinality({i \in 2..n : v[i] = 0}) >= n - 1
        <4>. DEFINE zeros == Cardinality({i \in 2..n : v[i] = 0})
        <4>1. 2 * zeros > n - 1 BY <3>1, <3>2
        <4>2. zeros \in Nat BY <3>3
        <4>. HIDE DEF zeros
        <4>3. 2 * zeros >= n - 1 BY <1>1, <4>1, <4>2
        <4>. QED BY <4>3 DEF zeros
      <3>. QED BY <1>9, <3>4 DEF Typical, n
    <2>. QED BY <1>1, <2>1, <2>2
  <1>. QED BY <1>7, <1>8, <1>9
-----------------------------------------------------------------------------
(* The engine.                                                             *)

\* While the download is measured its result has counted all that was missed, and afterwards
\* it is kept; only the upload returns; who is cancelled stops at once.
Counted ==
  /\ outcome = "running" /\ direction = "download" => result.incomplete = admitted
  /\ direction = "upload" => download.incomplete = admitted
  /\ outcome = "returned" => direction = "upload"

StopsAtOnce == cancelled => outcome \notin {"running", "returned"}

EngineIInv == TypeOK /\ Counted /\ StopsAtOnce

LEMMA PhasesTyped == \A p \in Phases : p.rate \in Rates \cup {0}
  BY RateTyped DEF Phases

LEMMA RampTyped == \A i \in 1..Len(Ramp) : Ramp[i] \in Nat
  BY AdaptiveAssumption, ElementOfSeq

LEMMA InitEngine == Init => EngineIInv
  <1>1. Len(Ramp) \in Nat \ {0} BY AdaptiveAssumption, EmptySeq
  <1>2. Nothing \in Results /\ Nothing.incomplete = 0 BY DEF Nothing, Results
  <1>3. 0 \in 0..Limit /\ 1 \in 1..Len(Ramp) BY <1>1, AdaptiveAssumption
  <1>. SUFFICES ASSUME Init PROVE EngineIInv OBVIOUS
  <1>4. TypeOK BY <1>2, <1>3 DEF Init, TypeOK
  <1>5. Counted /\ StopsAtOnce BY <1>2 DEF Init, Counted, StopsAtOnce
  <1>. QED BY <1>4, <1>5 DEF EngineIInv

LEMMA MeasuredTyped ==
  ASSUME TypeOK, NEW r \in Rates \cup {0}, NEW missing \in Nat
  PROVE  /\ Measured(r, missing) \in Results
         /\ Measured(r, missing).incomplete = result.incomplete + missing
  BY RampTyped DEF TypeOK, Results, Measured

\* The end of a direction keeps the invariant, whatever it has measured.
LEMMA ReturnStep ==
  ASSUME EngineIInv, outcome = "running", NEW res \in Results, NEW gone \in BOOLEAN,
         DirectionReturns(res, gone), cancelled' = gone,
         admitted' \in Nat,
         direction = "download" => res.incomplete = admitted' \/ gone,
         direction = "upload" => admitted' = admitted
  PROVE  EngineIInv'
  <1>1. CASE gone
    BY <1>1 DEF EngineIInv, DirectionReturns, TypeOK, Counted, StopsAtOnce
  <1>2. CASE ~ gone /\ direction = "download"
    <2>1. 1 \in 1..Len(Ramp) BY AdaptiveAssumption, EmptySeq
    <2>2. Nothing \in Results BY DEF Nothing, Results
    <2>. QED BY <1>2, <2>1, <2>2, AdaptiveAssumption
           DEF EngineIInv, DirectionReturns, TypeOK, Counted, StopsAtOnce
  <1>3. CASE ~ gone /\ direction = "upload"
    BY <1>3 DEF EngineIInv, DirectionReturns, TypeOK, Counted, StopsAtOnce
  <1>4. direction \in {"download", "upload"} BY DEF EngineIInv, TypeOK
  <1>. QED BY <1>1, <1>2, <1>3, <1>4

LEMMA EngineStep == EngineIInv /\ [Next]_vars => EngineIInv'
  <1>. SUFFICES ASSUME EngineIInv, [Next]_vars PROVE EngineIInv' OBVIOUS
  <1>1. CASE Tick
    BY <1>1, AdaptiveAssumption DEF EngineIInv, Tick, TypeOK, Counted, StopsAtOnce
  <1>2. ASSUME NEW p \in Phases, NEW missing \in 0..1,
               PhaseEnds(p.rate, p.steady, missing)
        PROVE  EngineIInv'
    <2>. DEFINE r == p.rate
    <2>1. r \in Rates \cup {0} BY PhasesTyped
    <2>. HIDE DEF r
    <2>2. /\ Measured(r, missing) \in Results
          /\ Measured(r, missing).incomplete = result.incomplete + missing
      BY <2>1, MeasuredTyped DEF EngineIInv
    <2>3. /\ outcome = "running" /\ ~ cancelled /\ cancelled' = cancelled
          /\ admitted \in Nat /\ admitted' \in Nat
          /\ direction = "upload" => admitted' = admitted
          /\ direction = "download" =>
               result.incomplete = admitted /\ admitted' = admitted + missing
      BY <1>2 DEF PhaseEnds, EngineIInv, TypeOK, Counted, StopsAtOnce
    <2>4. CASE Enough(r, p.steady)
      <3>1. DirectionReturns(Measured(r, missing), FALSE) BY <1>2, <2>4 DEF PhaseEnds, r
      <3>. QED BY <2>2, <2>3, <3>1, ReturnStep DEF EngineIInv, TypeOK
    <2>5. CASE ~ Enough(r, p.steady)
      <3>1. /\ result' = Measured(r, missing) /\ step' = step + 1
            /\ UNCHANGED <<direction, elapsed, spent, download, outcome>>
        BY <1>2, <2>5 DEF PhaseEnds, r
      <3>2. step' \in 1..Len(Ramp)
        <4>1. step # Len(Ramp) /\ step \in 1..Len(Ramp) /\ Len(Ramp) \in Nat
          BY <2>5, AdaptiveAssumption, EmptySeq DEF Enough, EngineIInv, TypeOK
        <4>. QED BY <3>1, <4>1
      <3>. QED BY <2>2, <2>3, <3>1, <3>2 DEF EngineIInv, TypeOK, Counted, StopsAtOnce
    <2>. QED BY <2>4, <2>5
  <1>3. CASE PhaseFails
    BY <1>3 DEF EngineIInv, PhaseFails, TypeOK, Counted, StopsAtOnce
  <1>4. CASE TimesOut
    <2>1. outcome = "running" /\ DirectionReturns(result, FALSE) /\ ~ cancelled
          /\ cancelled' = cancelled /\ admitted' = admitted
      BY <1>4 DEF TimesOut, EngineIInv, StopsAtOnce
    <2>. QED BY <2>1, ReturnStep DEF EngineIInv, TypeOK, Counted
  <1>5. ASSUME NEW p \in Phases, NEW answers \in BOOLEAN,
               Cancel(p.rate, p.steady, answers)
        PROVE  EngineIInv'
    <2>. DEFINE r == p.rate
    <2>1. r \in Rates \cup {0} BY PhasesTyped
    <2>. HIDE DEF r
    <2>2. outcome = "running" /\ cancelled' = TRUE /\ admitted' = admitted
      BY <1>5 DEF Cancel
    <2>3. CASE answers /\ Enough(r, p.steady)
      <3>1. DirectionReturns(Measured(r, 0), TRUE) BY <1>5, <2>3 DEF Cancel, r
      <3>2. Measured(r, 0) \in Results BY <2>1, MeasuredTyped DEF EngineIInv
      <3>. QED BY <2>2, <3>1, <3>2, ReturnStep DEF EngineIInv, TypeOK
    <2>4. CASE ~ (answers /\ Enough(r, p.steady))
      <3>1. outcome' = "cancelled"
            /\ UNCHANGED <<direction, step, elapsed, spent, result, download>>
        BY <1>5, <2>4 DEF Cancel, r
      <3>. QED BY <2>2, <3>1 DEF EngineIInv, TypeOK, Counted, StopsAtOnce
    <2>. QED BY <2>3, <2>4
  <1>6. CASE UNCHANGED vars
    BY <1>6 DEF vars, EngineIInv, TypeOK, Counted, StopsAtOnce
  <1>. QED BY <1>1, <1>2, <1>3, <1>4, <1>5, <1>6 DEF Next, Done
-----------------------------------------------------------------------------
(* The theorems.                                                           *)

\* However many rates and samples there are, the rate of a phase is typical of it.
THEOREM RateAlwaysTypical == Spec => []RateIsTypical
  <1>1. RateIsTypical BY EveryRateIsTypical DEF RateIsTypical, Typical
  <1>. QED BY <1>1, PTL

\* The inductive invariant of the engine, whatever the transport, the limit and the user do.
THEOREM EngineInductive == Spec => []EngineIInv
  BY InitEngine, EngineStep, PTL DEF Spec

\* However the user's cancellation meets the end of a phase, it leaves no result.
THEOREM CancelledNeverResults == Spec => []CancelledIsNoResult
  <1>1. EngineIInv => CancelledIsNoResult
    BY DEF EngineIInv, StopsAtOnce, CancelledIsNoResult
  <1>. QED BY <1>1, EngineInductive, PTL

\* If the server allows a direction what the browser gives it, no stream that was cut short is
\* forgotten and no measurement outlives its run. A server with a shorter
\* PCC_MAX_DIRECTION_DURATION ends the run, not the direction.
THEOREM EngineAlwaysSound ==
  ASSUME Limit <= MaxDirection
  PROVE  Spec => []EngineInv
  <1>1. EngineIInv => EngineInv
    <2>. SUFFICES ASSUME EngineIInv PROVE EngineInv OBVIOUS
    <2>1. TypeOK /\ IncompleteReachesResult
      BY DEF EngineIInv, Counted, IncompleteReachesResult
    <2>2. RunOutlivesMeasurement
      <3>1. spent \in 0..Limit /\ elapsed \in 0..Limit BY <2>1 DEF TypeOK
      <3>. QED BY <3>1, AdaptiveAssumption DEF RunOutlivesMeasurement, runTTL
    <2>. QED BY <2>1, <2>2 DEF EngineInv
  <1>. QED BY <1>1, EngineInductive, PTL
=============================================================================
