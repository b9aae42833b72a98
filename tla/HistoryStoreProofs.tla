------------------------- MODULE HistoryStoreProofs -------------------------
(***************************************************************************)
(* Proofs about HistoryStore, for any number of put()s and every budget:   *)
(* what "delete all" has deleted never comes back, the oldest rows are     *)
(* evicted first, and the budget is exceeded by no more than one value for *)
(* each other put() in flight.  The bytes of some rows are counted as the  *)
(* elements of a set, so that sums need no induction over the rows.        *)
(***************************************************************************)
EXTENDS HistoryStore, SequenceTheorems, FunctionTheorems, FiniteSetTheorems,
        WellFoundedInduction, TLAPS

\* Everybody waits for one connection at most, and only while it is needed.
QueueExact ==
  /\ \A i, j \in DOMAIN waiting : waiting[i] = waiting[j] => i = j
  /\ \A i \in DOMAIN waiting : waiting[i] \in Writers => stage[waiting[i]] = "opening"
  /\ \A i \in DOMAIN waiting : waiting[i] = List => listing = "waiting"
  /\ \A w \in Writers : stage[w] = "opening" => \E i \in DOMAIN waiting : waiting[i] = w
  /\ listing = "waiting" => \E i \in DOMAIN waiting : waiting[i] = List

\* Who works on the rows is connected, and a list has read them last.
WorkersConnected ==
  /\ \A w \in Writers : stage[w] \notin {"idle", "opening"} => w \in open
  /\ listing \in {"reading", "read"} => List \in open
  /\ listing # "read" => listed = {}

\* Time goes on with the calls, and a deletion is carried out after it was asked for.
TimesOrdered == now <= calls /\ asked <= now /\ cleared <= asked

\* Rows of values to be stored, and of lists to be shown, are younger than the last deletion.
NothingOlder ==
  /\ \A r \in db \cup shown \cup listed : r.at >= cleared
  /\ \A w \in Writers : stage[w] # "idle" => value[w] \in Rows /\ value[w].at >= cleared

\* Who waits behind a deletion was called after it.
QueueOrdered ==
  \A i, j \in DOMAIN waiting :
    waiting[i] = Delete /\ i < j /\ waiting[j] \in Writers => value[waiting[j]].at >= asked

HistoryIInv ==
  TypeOK /\ QueueExact /\ WorkersConnected /\ TimesOrdered /\ NothingOlder /\ QueueOrdered

-----------------------------------------------------------------------------
(* Sums of sizes.                                                          *)

\* The set with the fewest elements above its bound has none.
LEMMA GreatestExists ==
  ASSUME NEW S \in SUBSET Nat, IsFiniteSet(S), S # {}
  PROVE  \E m \in S : \A y \in S : y <= m
  <1>. DEFINE Above(x) == {y \in S : y > x}
              T == {Above(x) : x \in S}
  <1>1. T \subseteq FiniteSubsetsOf(S) BY FS_FiniteSubsetsOfFinite
  <1>2. PICK U \in T : \A V \in T : <<V, U>> \notin StrictSubsetOrdering(S)
    BY <1>1, T # {}, FS_StrictSubsetOrderingWellFounded, WFMin
  <1>3. PICK m \in S : U = Above(m) BY <1>2
  <1>4. ASSUME NEW y \in S, y > m PROVE FALSE
    <2>1. Above(y) \in T BY <1>4
    <2>2. y \in Nat /\ m \in Nat OBVIOUS
    <2>3. y \in Above(m) /\ y \notin Above(y) BY <1>4, <2>2
    <2>4. ASSUME NEW z \in Above(y) PROVE z \in Above(m)
      <3>1. z \in S /\ z \in Nat /\ z > y BY <2>4
      <3>. QED BY <3>1, <2>2, <1>4
    <2>5. Above(y) \in SUBSET S /\ Above(m) \in SUBSET S OBVIOUS
    <2>. HIDE DEF Above
    <2>6. <<Above(y), Above(m)>> \in StrictSubsetOrdering(S)
      BY <2>3, <2>4, <2>5 DEF StrictSubsetOrdering
    <2>. QED BY <2>1, <2>6, <1>2, <1>3
  <1>. QED BY <1>3, <1>4

LEMMA LargestSize ==
  /\ Max(Sizes) \in 1..Limit /\ \A n \in Sizes : n \in Nat /\ n <= Max(Sizes)
  <1>1. IsFiniteSet(1..Limit) BY FS_Interval, HistoryAssumption
  <1>2. IsFiniteSet(Sizes) BY <1>1, FS_Subset, HistoryAssumption
  <1>3. PICK m \in Sizes : \A n \in Sizes : n <= m
    BY <1>2, GreatestExists, HistoryAssumption
  <1>4. \A n \in Sizes : m >= n BY <1>3, HistoryAssumption
  <1>5. Max(Sizes) \in Sizes /\ \A n \in Sizes : Max(Sizes) >= n BY <1>4 DEF Max
  <1>6. Max(Sizes) \in 1..Limit BY <1>5, HistoryAssumption
  <1>7. ASSUME NEW n \in Sizes PROVE n \in Nat /\ n <= Max(Sizes)
    <2>1. n \in 1..Limit /\ Max(Sizes) >= n BY <1>5, HistoryAssumption
    <2>. QED BY <2>1, <1>6
  <1>. QED BY <1>6, <1>7

LEMMA RowsFinite == IsFiniteSet(Rows)
  <1>. DEFINE T == Stores \X ((0..Calls) \X Sizes)
              f == [r \in Rows |-> <<r.store, <<r.at, r.size>>>>]
  <1>1. IsFiniteSet(T)
    <2>1. IsFiniteSet(Stores)
      <3>1. IsFiniteSet({"speed"}) /\ IsFiniteSet({"stability"}) BY FS_Singleton
      <3>2. Stores = {"speed"} \cup {"stability"} BY DEF Stores
      <3>. QED BY <3>1, <3>2, FS_Union
    <2>2. IsFiniteSet(0..Calls) /\ IsFiniteSet(1..Limit) BY FS_Interval, HistoryAssumption
    <2>3. IsFiniteSet(Sizes) BY <2>2, FS_Subset, HistoryAssumption
    <2>4. IsFiniteSet((0..Calls) \X Sizes) BY <2>2, <2>3, FS_Product
    <2>. QED BY <2>1, <2>4, FS_Product
  <1>2. f \in Injection(Rows, T)
    <2>1. f \in [Rows -> T] BY DEF Rows
    <2>2. ASSUME NEW r \in Rows, NEW q \in Rows, f[r] = f[q] PROVE r = q
      <3>1. r.store = q.store /\ r.at = q.at /\ r.size = q.size BY <2>2
      <3>. QED BY <3>1 DEF Rows
    <2>. QED BY <2>1, <2>2 DEF Injection, IsInjective
  <1>. HIDE DEF T, f
  <1>. QED BY <1>1, <1>2, FS_Injection

LEMMA TotalTyped ==
  ASSUME NEW A \in SUBSET Rows
  PROVE  /\ IsFiniteSet(A) /\ Cardinality(A) \in Nat
         /\ IsFiniteSet(Bytes(A)) /\ Total(A) \in Nat
  <1>1. IsFiniteSet(A) BY RowsFinite, FS_Subset
  <1>2. IsFiniteSet(1..Limit) BY FS_Interval, HistoryAssumption
  <1>3. IsFiniteSet(A \X (1..Limit)) BY <1>1, <1>2, FS_Product
  <1>4. IsFiniteSet(Bytes(A)) BY <1>3, FS_Subset DEF Bytes
  <1>. QED BY <1>1, <1>4, FS_CardinalityType DEF Total

LEMMA TotalOfOne ==
  ASSUME NEW r \in Rows
  PROVE  Total({r}) = r.size /\ r.size \in 1..Limit
  <1>1. r.size \in 1..Limit BY HistoryAssumption DEF Rows
  <1>2. Bytes({r}) = {r} \X (1..r.size) BY <1>1, HistoryAssumption DEF Bytes
  <1>3. IsFiniteSet({r}) /\ Cardinality({r}) = 1 BY FS_Singleton
  <1>4. IsFiniteSet(1..r.size) /\ Cardinality(1..r.size) = r.size
    <2>1. r.size \in Int /\ ~ (1 > r.size) /\ r.size - 1 + 1 = r.size BY <1>1
    <2>. QED BY <2>1, FS_Interval
  <1>5. Total({r}) = 1 * r.size
    <2>1. Cardinality({r} \X (1..r.size)) = Cardinality({r}) * Cardinality(1..r.size)
      BY <1>3, <1>4, FS_Product
    <2>. QED BY <1>2, <1>3, <1>4, <2>1 DEF Total
  <1>. QED BY <1>1, <1>5

LEMMA TotalGrows ==
  ASSUME NEW B \in SUBSET Rows, NEW A \in SUBSET B
  PROVE  Total(A) <= Total(B)
  <1>1. Bytes(A) \subseteq Bytes(B) BY DEF Bytes
  <1>. QED BY <1>1, TotalTyped, FS_Subset DEF Total

LEMMA TotalOfUnion ==
  ASSUME NEW A \in SUBSET Rows, NEW B \in SUBSET Rows
  PROVE  Total(A \cup B) <= Total(A) + Total(B)
  <1>1. Bytes(A \cup B) = Bytes(A) \cup Bytes(B) BY DEF Bytes
  <1>2. IsFiniteSet(Bytes(A)) /\ IsFiniteSet(Bytes(B)) BY TotalTyped
  <1>3. Cardinality(Bytes(A \cup B)) = Cardinality(Bytes(A)) + Cardinality(Bytes(B))
                                        - Cardinality(Bytes(A) \cap Bytes(B))
    BY <1>1, <1>2, FS_Union
  <1>4. Cardinality(Bytes(A) \cap Bytes(B)) \in Nat BY <1>2, FS_Intersection, FS_CardinalityType
  <1>. QED BY <1>3, <1>4, TotalTyped DEF Total

\* The total is the sum of the sizes: nothing of no rows, and with a row more its size more.
LEMMA TotalAddsUp ==
  /\ Total({}) = 0
  /\ \A A \in SUBSET Rows, r \in Rows : r \notin A => Total(A \cup {r}) = Total(A) + r.size
  <1>1. Total({}) = 0
    <2>1. Bytes({}) = {} BY DEF Bytes
    <2>. QED BY <2>1, FS_EmptySet DEF Total
  <1>2. ASSUME NEW A \in SUBSET Rows, NEW r \in Rows, r \notin A
        PROVE  Total(A \cup {r}) = Total(A) + r.size
    <2>1. Bytes(A \cup {r}) = Bytes(A) \cup Bytes({r}) BY DEF Bytes
    <2>2. Bytes(A) \cap Bytes({r}) = {} BY <1>2 DEF Bytes
    <2>3. IsFiniteSet(Bytes(A)) /\ IsFiniteSet(Bytes({r})) BY TotalTyped
    <2>4. Cardinality(Bytes(A \cup {r})) = Cardinality(Bytes(A)) + Cardinality(Bytes({r}))
                                            - Cardinality(Bytes(A) \cap Bytes({r}))
      BY <2>1, <2>3, FS_Union
    <2>5. Cardinality(Bytes(A) \cap Bytes({r})) = 0 BY <2>2, FS_EmptySet
    <2>. QED BY <2>4, <2>5, TotalOfOne, TotalTyped, HistoryAssumption DEF Total
  <1>. QED BY <1>1, <1>2

LEMMA TotalBounded ==
  ASSUME NEW A \in SUBSET Rows
  PROVE  Total(A) <= Cardinality(A) * Max(Sizes)
  <1>. DEFINE M == Max(Sizes)
  <1>1. M \in Nat /\ M \in Int /\ M <= Limit /\ M >= 1 BY LargestSize, HistoryAssumption
  <1>2. IsFiniteSet(1..M) /\ Cardinality(1..M) = M
    <2>1. ~ (1 > M) /\ M - 1 + 1 = M BY <1>1
    <2>. QED BY <1>1, <2>1, FS_Interval
  <1>3. IsFiniteSet(A \X (1..M)) /\ Cardinality(A \X (1..M)) = Cardinality(A) * M
    BY <1>2, TotalTyped, FS_Product
  <1>4. Bytes(A) \subseteq A \X (1..M)
    <2>1. ASSUME NEW b \in Bytes(A) PROVE b \in A \X (1..M)
      <3>1. b \in A \X (1..Limit) /\ b[2] <= b[1].size BY DEF Bytes
      <3>2. b[1].size \in Nat /\ b[1].size <= M BY <3>1, LargestSize DEF Rows
      <3>3. b[2] \in 1..M BY <1>1, <3>1, <3>2, HistoryAssumption
      <3>. QED BY <3>1, <3>3
    <2>. QED BY <2>1
  <1>. HIDE DEF M
  <1>5. Cardinality(Bytes(A)) <= Cardinality(A \X (1..M)) BY <1>3, <1>4, FS_Subset
  <1>. QED BY <1>3, <1>5 DEF Total, M
-----------------------------------------------------------------------------
(* The queue.                                                              *)

Callers == Writers \cup {List, Delete}

LEMMA QueueTail ==
  ASSUME waiting \in Seq(Callers), waiting # <<>>
  PROVE  /\ Tail(waiting) \in Seq(Callers)
         /\ Head(waiting) = waiting[1] /\ 1 \in DOMAIN waiting
         /\ \A i \in DOMAIN Tail(waiting) : i \in Nat \ {0} /\ i + 1 \in DOMAIN waiting
                                             /\ Tail(waiting)[i] = waiting[i + 1]
         /\ \A i \in DOMAIN waiting : i # 1 => i - 1 \in DOMAIN Tail(waiting)
                                             /\ Tail(waiting)[i - 1] = waiting[i]
  <1>1. /\ Tail(waiting) \in Seq(Callers) /\ Len(Tail(waiting)) = Len(waiting) - 1
        /\ \A i \in 1..Len(Tail(waiting)) : Tail(waiting)[i] = waiting[i + 1]
    BY HeadTailProperties
  <1>2. /\ DOMAIN waiting = 1..Len(waiting) /\ DOMAIN Tail(waiting) = 1..Len(Tail(waiting))
        /\ Len(waiting) \in Nat \ {0}
    BY <1>1, LenProperties, EmptySeq
  <1>3. Head(waiting) = waiting[1] OBVIOUS
  <1>. QED BY <1>1, <1>2, <1>3

LEMMA QueueAppend ==
  ASSUME waiting \in Seq(Callers), NEW c \in Callers
  PROVE  /\ Append(waiting, c) \in Seq(Callers)
         /\ DOMAIN waiting \subseteq Nat
         /\ \E n \in DOMAIN Append(waiting, c) :
              /\ Append(waiting, c)[n] = c /\ n \notin DOMAIN waiting
              /\ \A i \in DOMAIN waiting : i < n
              /\ DOMAIN Append(waiting, c) = DOMAIN waiting \cup {n}
              /\ \A i \in DOMAIN waiting : Append(waiting, c)[i] = waiting[i]
  <1>1. /\ Append(waiting, c) \in Seq(Callers)
        /\ Len(Append(waiting, c)) = Len(waiting) + 1
        /\ \A i \in 1..Len(waiting) : Append(waiting, c)[i] = waiting[i]
        /\ Append(waiting, c)[Len(waiting) + 1] = c
    BY AppendProperties
  <1>2. /\ DOMAIN waiting = 1..Len(waiting) /\ Len(waiting) \in Nat
        /\ DOMAIN Append(waiting, c) = 1..(Len(waiting) + 1)
    BY <1>1, LenProperties
  <1>. QED BY <1>1, <1>2
-----------------------------------------------------------------------------
(* put() while it is connected.                                            *)

\* What every step of a connected put() w leaves alone, and what it may do.
WorkStep(w) ==
  /\ UNCHANGED <<waiting, page, now, asked, cleared>>
  /\ calls' = calls
  /\ stage[w] \notin {"idle", "opening"}
  /\ \A v \in Writers \ {w} : stage'[v] = stage[v] /\ value'[v] = value[v]
  /\ \A c \in (Writers \cup {List}) \ {w} : c \in open => c \in open'
  /\ stage'[w] # "opening"
  /\ stage'[w] # "idle" => w \in open' /\ value'[w] = value[w]
  /\ db' \subseteq db \cup {value[w]}

LEMMA ListIsNoWriter == List \notin Writers /\ Delete \notin Writers /\ List # Delete
  BY HistoryAssumption DEF List, Delete

LEMMA WorkKeeps ==
  ASSUME HistoryIInv, NEW w \in Writers, WorkStep(w), TypeOK'
  PROVE  HistoryIInv'
  <1>1. QueueExact'
    BY ListIsNoWriter DEF HistoryIInv, QueueExact, WorkStep, page
  <1>2. WorkersConnected'
    BY ListIsNoWriter DEF HistoryIInv, WorkersConnected, WorkStep, page
  <1>3. TimesOrdered'
    BY DEF HistoryIInv, TimesOrdered, WorkStep
  <1>4. NothingOlder'
    BY DEF HistoryIInv, NothingOlder, WorkStep, page
  <1>5. QueueOrdered'
    BY DEF HistoryIInv, QueueOrdered, QueueExact, WorkStep
  <1>. QED BY <1>1, <1>2, <1>3, <1>4, <1>5 DEF HistoryIInv

LEMMA ReadStep ==
  ASSUME HistoryIInv, NEW w \in Writers, NEW s \in Stores, Read(w, s)
  PROVE  HistoryIInv'
  <1>1. TypeOK'
    BY DEF HistoryIInv, TypeOK, Read, page, bounds, history
  <1>2. WorkStep(w)
    BY DEF HistoryIInv, WorkersConnected, WorkStep, Read, page, bounds, history
  <1>. QED BY <1>1, <1>2, WorkKeeps

LEMMA WithoutIsLess == ASSUME NEW rows, NEW keys PROVE Without(rows, keys) \subseteq rows
  BY DEF Without

LEMMA EvictStep ==
  ASSUME HistoryIInv, NEW w \in Writers, Evict(w) \/ EvictOldest(w)
  PROVE  HistoryIInv'
  <1>1. /\ db' \subseteq db /\ stage[w] \in {"reading", "rereading"}
        /\ \E s \in Stages \ {"idle", "opening"} : stage' = [stage EXCEPT ![w] = s]
        /\ UNCHANGED <<waiting, open, value, page, now, bounds, asked, cleared>>
        /\ Disturbs(w) /\ Forget(w)
    BY WithoutIsLess DEF Evict, EvictOldest, Stages
  <1>2. TypeOK'
    BY <1>1 DEF HistoryIInv, TypeOK, page, bounds, Disturbs, Forget
  <1>3. WorkStep(w)
    BY <1>1 DEF HistoryIInv, TypeOK, WorkersConnected, WorkStep, page, bounds
  <1>. QED BY <1>2, <1>3, WorkKeeps

LEMMA SettleStep ==
  ASSUME HistoryIInv, NEW w \in Writers,
         Write(w) \/ WriteNotCommitted(w) \/ StepFails(w)
  PROVE  HistoryIInv'
  <1>1. stage[w] \notin {"idle", "opening"} /\ value[w] \in Rows
    BY DEF HistoryIInv, NothingOlder, Write, WriteNotCommitted, StepFails
  <1>a. failures' \in 0..Failures /\ calls' = calls
    <2>1. \/ failures' = failures /\ calls' = calls
          \/ failures < Failures /\ failures' = failures + 1 /\ calls' = calls
      BY DEF Write, WriteNotCommitted, StepFails, Failing, bounds
    <2>. QED BY <2>1, HistoryAssumption DEF HistoryIInv, TypeOK
  <1>b. Settle(w) /\ UNCHANGED <<waiting, page, now, asked, cleared>>
    BY DEF Write, WriteNotCommitted, StepFails, Rejected
  <1>c. db' \subseteq db \cup {value[w]}
    BY WithoutIsLess DEF Write, WriteNotCommitted, StepFails, Stored
  <1>d. raced' \subseteq Writers /\ there' \in [Writers -> SUBSET Rows]
    <2>1. Disturbs(w) BY DEF Write, WriteNotCommitted, StepFails
    <2>. QED BY <2>1 DEF HistoryIInv, TypeOK, Disturbs
  <1>2. /\ db' \subseteq db \cup {value[w]} /\ Settle(w)
        /\ UNCHANGED <<waiting, page, now, asked, cleared, calls>>
        /\ raced' \subseteq Writers /\ there' \in [Writers -> SUBSET Rows]
        /\ failures' \in 0..Failures
    BY <1>a, <1>b, <1>c, <1>d
  <1>3. TypeOK'
    BY <1>1, <1>2 DEF HistoryIInv, TypeOK, Settle, Forgotten, Stages, page
  <1>4. WorkStep(w)
    BY <1>1, <1>2 DEF HistoryIInv, TypeOK, WorkStep, Settle, Forgotten
  <1>. QED BY <1>3, <1>4, WorkKeeps

LEMMA WriteFailsStep ==
  ASSUME HistoryIInv, NEW w \in Writers, WriteFails(w)
  PROVE  HistoryIInv'
  <1>a. failures' \in 0..Failures
    BY HistoryAssumption DEF HistoryIInv, TypeOK, WriteFails, Failing
  <1>1. TypeOK'
    BY <1>a DEF HistoryIInv, TypeOK, WriteFails, Failing, Stages, page, history
  <1>2. WorkStep(w)
    BY DEF HistoryIInv, TypeOK, WorkersConnected, WorkStep, WriteFails, Failing, page, history
  <1>. QED BY <1>1, <1>2, WorkKeeps
-----------------------------------------------------------------------------
(* The requests for a connection.                                          *)

\* What is added to the queue: a put() that was idle, the list, or a deletion.
LEMMA PutStep ==
  ASSUME HistoryIInv, NEW w \in Writers, Put(w)
  PROVE  HistoryIInv'
  <1>1. PICK r \in Rows : /\ value' = [value EXCEPT ![w] = r] /\ now' = r.at
                          /\ now <= now' /\ now' <= now + 1 /\ now' \in 0..Calls
    <2>1. PICK s \in Stores, n \in Sizes, t \in Times :
             /\ value' = [value EXCEPT ![w] = [store |-> s, at |-> t, size |-> n]]
             /\ now' = t
      BY DEF Put
    <2>2. t \in {now, now + 1}
      BY DEF Times
    <2>3. now \in Nat /\ now <= calls /\ calls < Calls /\ calls \in Nat
      BY DEF HistoryIInv, TypeOK, TimesOrdered, Put, Called
    <2>4. t \in 0..Calls /\ now <= t /\ t <= now + 1
      BY <2>2, <2>3, HistoryAssumption
    <2>5. [store |-> s, at |-> t, size |-> n] \in Rows
      BY <2>4 DEF Rows
    <2>. QED BY <2>1, <2>4, <2>5
  <1>2. /\ stage[w] = "idle" /\ stage' = [stage EXCEPT ![w] = "opening"]
        /\ waiting' = Append(waiting, w) /\ calls' = calls + 1 /\ calls' \in 0..Calls
        /\ failures' = failures
        /\ UNCHANGED <<db, open, seen, read, page, history>>
    BY HistoryAssumption DEF HistoryIInv, TypeOK, Put, Called
  <1>3. waiting \in Seq(Callers) /\ w \in Callers
    BY DEF HistoryIInv, TypeOK, Callers
  <1>4. PICK n \in DOMAIN waiting' :
          /\ waiting'[n] = w /\ n \notin DOMAIN waiting
          /\ \A i \in DOMAIN waiting : i < n
          /\ DOMAIN waiting' = DOMAIN waiting \cup {n}
          /\ \A i \in DOMAIN waiting : waiting'[i] = waiting[i]
    BY <1>2, <1>3, QueueAppend
  <1>5. waiting' \in Seq(Callers) /\ DOMAIN waiting \subseteq Nat
    BY <1>2, <1>3, QueueAppend
  <1>6. TypeOK'
    BY <1>1, <1>2, <1>5 DEF HistoryIInv, TypeOK, Callers, Stages, page, history
  <1>7. QueueExact'
    BY <1>2, <1>4, ListIsNoWriter DEF HistoryIInv, TypeOK, QueueExact, page
  <1>8. WorkersConnected'
    BY <1>2 DEF HistoryIInv, TypeOK, WorkersConnected, page
  <1>9. TimesOrdered'
    BY <1>1, <1>2 DEF HistoryIInv, TypeOK, TimesOrdered, history
  <1>10. NothingOlder'
    <2>1. r.at >= cleared
      BY <1>1 DEF HistoryIInv, TypeOK, TimesOrdered
    <2>. QED BY <1>1, <1>2, <2>1 DEF HistoryIInv, TypeOK, NothingOlder, page, history
  <1>11. QueueOrdered'
    <2>1. r.at >= asked /\ asked' = asked
      BY <1>1, <1>2 DEF HistoryIInv, TypeOK, TimesOrdered, history
    <2>2. \A i \in DOMAIN waiting : waiting[i] # w
      BY <1>2 DEF HistoryIInv, QueueExact
    <2>3. \A v \in Writers \ {w} : value'[v] = value[v]
      BY <1>1 DEF HistoryIInv, TypeOK
    <2>4. value'[w] = r
      BY <1>1 DEF HistoryIInv, TypeOK
    <2>5. SUFFICES ASSUME NEW i \in DOMAIN waiting', NEW j \in DOMAIN waiting',
                          waiting'[i] = Delete, i < j, waiting'[j] \in Writers
                   PROVE  value'[waiting'[j]].at >= asked
      BY <2>1 DEF QueueOrdered
    <2>6. CASE j = n
      BY <1>4, <2>1, <2>4, <2>6
    <2>7. CASE j # n
      <3>1. i # n /\ i \in DOMAIN waiting /\ j \in DOMAIN waiting
        BY <1>4, <1>5, <2>5, <2>7, ListIsNoWriter
      <3>. QED BY <1>4, <2>2, <2>3, <2>5, <3>1 DEF HistoryIInv, QueueOrdered
    <2>. QED BY <2>6, <2>7
  <1>. QED BY <1>6, <1>7, <1>8, <1>9, <1>10, <1>11 DEF HistoryIInv

LEMMA ShowStep ==
  ASSUME HistoryIInv, Show
  PROVE  HistoryIInv'
  <1>2. /\ listing = "idle" /\ listing' = "waiting"
        /\ waiting' = Append(waiting, List) /\ calls' = calls + 1 /\ calls' \in 0..Calls
        /\ failures' = failures
        /\ UNCHANGED <<db, open, work, listed, shown, now, history>>
    BY HistoryAssumption DEF HistoryIInv, TypeOK, Show, Called
  <1>3. waiting \in Seq(Callers) /\ List \in Callers
    BY DEF HistoryIInv, TypeOK, Callers
  <1>4. PICK n \in DOMAIN waiting' :
          /\ waiting'[n] = List /\ n \notin DOMAIN waiting
          /\ \A i \in DOMAIN waiting : i < n
          /\ DOMAIN waiting' = DOMAIN waiting \cup {n}
          /\ \A i \in DOMAIN waiting : waiting'[i] = waiting[i]
    BY <1>2, <1>3, QueueAppend
  <1>5. waiting' \in Seq(Callers)
    BY <1>2, <1>3, QueueAppend
  <1>6. TypeOK'
    BY <1>2, <1>5 DEF HistoryIInv, TypeOK, Callers, work, history
  <1>7. QueueExact'
    BY <1>2, <1>4, ListIsNoWriter DEF HistoryIInv, QueueExact, work
  <1>8. WorkersConnected'
    BY <1>2 DEF HistoryIInv, WorkersConnected, work
  <1>9. TimesOrdered'
    BY <1>2 DEF HistoryIInv, TypeOK, TimesOrdered, history
  <1>10. NothingOlder'
    BY <1>2 DEF HistoryIInv, NothingOlder, work, history
  <1>11. QueueOrdered'
    BY <1>2, <1>4, ListIsNoWriter DEF HistoryIInv, QueueOrdered, work, history
  <1>. QED BY <1>6, <1>7, <1>8, <1>9, <1>10, <1>11 DEF HistoryIInv

LEMMA ClearStep ==
  ASSUME HistoryIInv, Clear
  PROVE  HistoryIInv'
  <1>1. \A i \in DOMAIN waiting : waiting[i] # Delete
    BY DEF Clear
  <1>2. /\ waiting' = Append(waiting, Delete) /\ calls' = calls + 1 /\ calls' \in 0..Calls
        /\ failures' = failures /\ now' = now + 1 /\ asked' = now'
        /\ UNCHANGED <<db, open, work, page, there, raced, cleared>>
    BY HistoryAssumption DEF HistoryIInv, TypeOK, Clear, Called
  <1>3. waiting \in Seq(Callers) /\ Delete \in Callers
    BY DEF HistoryIInv, TypeOK, Callers
  <1>4. PICK n \in DOMAIN waiting' :
          /\ waiting'[n] = Delete /\ n \notin DOMAIN waiting
          /\ \A i \in DOMAIN waiting : i < n
          /\ DOMAIN waiting' = DOMAIN waiting \cup {n}
          /\ \A i \in DOMAIN waiting : waiting'[i] = waiting[i]
    BY <1>2, <1>3, QueueAppend
  <1>5. waiting' \in Seq(Callers) /\ DOMAIN waiting \subseteq Nat
    BY <1>2, <1>3, QueueAppend
  <1>6. TimesOrdered' /\ now' \in 0..Calls
    <2>1. /\ now \in Nat /\ calls \in Nat /\ asked \in Nat /\ cleared \in Nat
          /\ now <= calls /\ asked <= now /\ cleared <= asked
      BY DEF HistoryIInv, TypeOK, TimesOrdered
    <2>2. now' = now + 1 /\ asked' = now + 1 /\ cleared' = cleared /\ calls' = calls + 1
      BY <1>2
    <2>3. now' \in 0..Calls
      BY <1>2, <2>1, <2>2, HistoryAssumption
    <2>. QED BY <2>1, <2>2, <2>3 DEF TimesOrdered
  <1>7. TypeOK'
    BY <1>2, <1>5, <1>6 DEF HistoryIInv, TypeOK, Callers, work, page
  <1>8. QueueExact'
    BY <1>1, <1>2, <1>4, ListIsNoWriter DEF HistoryIInv, QueueExact, work, page
  <1>9. WorkersConnected'
    BY <1>2 DEF HistoryIInv, WorkersConnected, work, page
  <1>10. NothingOlder'
    BY <1>2 DEF HistoryIInv, NothingOlder, work, page
  <1>11. QueueOrdered'
    <2>1. ASSUME NEW i \in DOMAIN waiting', NEW j \in DOMAIN waiting', waiting'[i] = Delete, i < j
          PROVE  FALSE
      <3>1. i = n
        BY <1>1, <1>4, <2>1
      <3>2. n \in Nat
        BY <1>5, LenProperties
      <3>. QED BY <1>4, <1>5, <2>1, <3>1, <3>2
    <2>. QED BY <2>1 DEF QueueOrdered
  <1>. QED BY <1>6, <1>7, <1>8, <1>9, <1>10, <1>11 DEF HistoryIInv

\* What is taken from the queue: everybody else moves up by one.
LEMMA FirstIsServed ==
  ASSUME HistoryIInv, waiting # <<>>, waiting' = Tail(waiting), asked' = asked,
         \A v \in Writers : v # Head(waiting) => stage'[v] = stage[v] /\ value'[v] = value[v],
         \A v \in Writers : v = Head(waiting) => stage'[v] # "opening",
         Head(waiting) # List => listing' = listing,
         Head(waiting) = List => listing' # "waiting"
  PROVE  /\ waiting' \in Seq(Callers)
         /\ QueueExact' /\ QueueOrdered'
  <1>1. waiting \in Seq(Callers)
    BY DEF HistoryIInv, TypeOK, Callers
  <1>2. /\ waiting' \in Seq(Callers) /\ waiting[1] = Head(waiting) /\ 1 \in DOMAIN waiting
        /\ \A i \in DOMAIN waiting' : /\ i \in Nat \ {0} /\ i + 1 \in DOMAIN waiting
                                      /\ waiting'[i] = waiting[i + 1]
        /\ \A i \in DOMAIN waiting : i # 1 => i - 1 \in DOMAIN waiting' /\ waiting'[i - 1] = waiting[i]
    BY <1>1, QueueTail
  <1>3. \A i \in DOMAIN waiting' : waiting'[i] # Head(waiting)
    BY <1>2 DEF HistoryIInv, QueueExact
  <1>4. \A i, j \in DOMAIN waiting' : waiting'[i] = waiting'[j] => i = j
    BY <1>2 DEF HistoryIInv, QueueExact
  <1>5. \A i \in DOMAIN waiting' : waiting'[i] \in Writers => stage'[waiting'[i]] = "opening"
    BY <1>2, <1>3 DEF HistoryIInv, QueueExact
  <1>6. \A i \in DOMAIN waiting' : waiting'[i] = List => listing' = "waiting"
    BY <1>2, <1>3 DEF HistoryIInv, QueueExact
  <1>7. \A v \in Writers : stage'[v] = "opening" => \E i \in DOMAIN waiting' : waiting'[i] = v
    <2>1. SUFFICES ASSUME NEW v \in Writers, stage'[v] = "opening"
                   PROVE  \E i \in DOMAIN waiting' : waiting'[i] = v
      OBVIOUS
    <2>2. v # Head(waiting) /\ stage[v] = "opening"
      BY <2>1
    <2>3. PICK i \in DOMAIN waiting : waiting[i] = v
      BY <2>2 DEF HistoryIInv, QueueExact
    <2>. QED BY <1>2, <2>2, <2>3
  <1>8. listing' = "waiting" => \E i \in DOMAIN waiting' : waiting'[i] = List
    <2>1. SUFFICES ASSUME listing' = "waiting"
                   PROVE  \E i \in DOMAIN waiting' : waiting'[i] = List
      OBVIOUS
    <2>2. PICK i \in DOMAIN waiting : waiting[i] = List
      BY <2>1 DEF HistoryIInv, QueueExact
    <2>. QED BY <1>2, <2>1, <2>2
  <1>9. QueueOrdered'
    BY <1>2, <1>3 DEF HistoryIInv, QueueOrdered
  <1>. QED BY <1>2, <1>4, <1>5, <1>6, <1>7, <1>8, <1>9 DEF QueueExact

LEMMA ConnectStep ==
  ASSUME HistoryIInv, NEW w \in Writers, Connect(w)
  PROVE  HistoryIInv'
  <1>1. /\ Head(waiting) = w /\ waiting' = Tail(waiting) /\ open' = open \cup {w}
        /\ stage' = [stage EXCEPT ![w] = "reading"]
        /\ there' = [there EXCEPT ![w] = db] /\ raced' = raced \ {w}
        /\ waiting # <<>>
        /\ UNCHANGED <<db, value, seen, read, page, now, bounds, asked, cleared>>
    BY DEF Connect
  <1>2. stage[w] = "opening"
    <2>1. waiting[1] = w /\ 1 \in DOMAIN waiting
      BY <1>1, QueueTail DEF HistoryIInv, TypeOK, Callers
    <2>. QED BY <2>1 DEF HistoryIInv, QueueExact
  <1>3. waiting' \in Seq(Callers) /\ QueueExact' /\ QueueOrdered'
    BY <1>1, FirstIsServed, ListIsNoWriter DEF HistoryIInv, TypeOK, page
  <1>4. TypeOK'
    BY <1>1, <1>3 DEF HistoryIInv, TypeOK, Callers, Stages, page, bounds
  <1>5. WorkersConnected'
    BY <1>1 DEF HistoryIInv, TypeOK, WorkersConnected, page
  <1>6. TimesOrdered'
    BY <1>1 DEF HistoryIInv, TimesOrdered, bounds
  <1>7. NothingOlder'
    BY <1>1, <1>2 DEF HistoryIInv, TypeOK, NothingOlder, page
  <1>. QED BY <1>3, <1>4, <1>5, <1>6, <1>7 DEF HistoryIInv

LEMMA RefuseStep ==
  ASSUME HistoryIInv, NEW w \in Writers, Refuse(w)
  PROVE  HistoryIInv'
  <1>1. /\ Head(waiting) = w /\ waiting' = Tail(waiting) /\ waiting # <<>>
        /\ Forgotten(w) /\ calls' = calls /\ failures' \in 0..Failures
        /\ UNCHANGED <<db, open, page, now, there, raced, asked, cleared>>
    BY HistoryAssumption DEF HistoryIInv, TypeOK, Refuse, Failing, history
  <1>2. waiting' \in Seq(Callers) /\ QueueExact' /\ QueueOrdered'
    BY <1>1, FirstIsServed, ListIsNoWriter DEF HistoryIInv, TypeOK, Forgotten, page
  <1>3. TypeOK'
    BY <1>1, <1>2 DEF HistoryIInv, TypeOK, Callers, Stages, Forgotten, page
  <1>4. WorkersConnected'
    BY <1>1 DEF HistoryIInv, TypeOK, WorkersConnected, Forgotten, page
  <1>5. TimesOrdered'
    BY <1>1 DEF HistoryIInv, TimesOrdered
  <1>6. NothingOlder'
    BY <1>1 DEF HistoryIInv, TypeOK, NothingOlder, Forgotten, page
  <1>. QED BY <1>2, <1>3, <1>4, <1>5, <1>6 DEF HistoryIInv

LEMMA ConnectListStep ==
  ASSUME HistoryIInv, ConnectList
  PROVE  HistoryIInv'
  <1>1. /\ Head(waiting) = List /\ waiting' = Tail(waiting) /\ waiting # <<>>
        /\ open' = open \cup {List} /\ listing' = "reading"
        /\ UNCHANGED <<db, work, listed, shown, now, bounds, history>>
    BY DEF ConnectList
  <1>2. waiting' \in Seq(Callers) /\ QueueExact' /\ QueueOrdered'
    <2>1. UNCHANGED <<stage, value, asked>>
      BY <1>1 DEF work, history
    <2>2. \A v \in Writers : v # Head(waiting)
      BY <1>1, ListIsNoWriter
    <2>. QED BY <1>1, <2>1, <2>2, FirstIsServed
  <1>3. listing = "waiting"
    <2>1. waiting[1] = List /\ 1 \in DOMAIN waiting
      BY <1>1, QueueTail DEF HistoryIInv, TypeOK, Callers
    <2>. QED BY <2>1 DEF HistoryIInv, QueueExact
  <1>4. TypeOK'
    BY <1>1, <1>2 DEF HistoryIInv, TypeOK, Callers, work, bounds, history
  <1>5. WorkersConnected'
    BY <1>1, <1>3 DEF HistoryIInv, WorkersConnected, work
  <1>6. TimesOrdered'
    BY <1>1 DEF HistoryIInv, TimesOrdered, bounds, history
  <1>7. NothingOlder'
    BY <1>1 DEF HistoryIInv, NothingOlder, work, history
  <1>. QED BY <1>2, <1>4, <1>5, <1>6, <1>7 DEF HistoryIInv

\* A deletion is carried out: every put() there is then asked for a connection after it.
LEMMA ClearedStep ==
  ASSUME HistoryIInv, Cleared
  PROVE  HistoryIInv'
  <1>1. /\ Head(waiting) = Delete /\ waiting' = Tail(waiting) /\ waiting # <<>> /\ open = {}
        /\ db' = {} /\ shown' = {} /\ cleared' = asked
        /\ UNCHANGED <<open, stage, value, seen, read, listing, listed, now, bounds, there, raced, asked>>
    BY DEF Cleared, work
  <1>2. waiting' \in Seq(Callers) /\ QueueExact' /\ QueueOrdered'
    <2>1. Head(waiting) # List /\ \A v \in Writers : v # Head(waiting)
      BY <1>1, ListIsNoWriter
    <2>. QED BY <1>1, <2>1, FirstIsServed
  <1>3. TypeOK'
    BY <1>1, <1>2 DEF HistoryIInv, TypeOK, Callers, bounds
  <1>4. WorkersConnected'
    BY <1>1 DEF HistoryIInv, WorkersConnected
  <1>5. TimesOrdered'
    BY <1>1 DEF HistoryIInv, TypeOK, TimesOrdered, bounds
  <1>6. listed' = {}
    BY <1>1 DEF HistoryIInv, WorkersConnected
  <1>7. ASSUME NEW v \in Writers, stage[v] # "idle"
        PROVE  value[v] \in Rows /\ value[v].at >= asked
    <2>1. stage[v] = "opening"
      BY <1>1, <1>7 DEF HistoryIInv, WorkersConnected
    <2>2. PICK i \in DOMAIN waiting : waiting[i] = v
      BY <2>1 DEF HistoryIInv, QueueExact
    <2>3. waiting[1] = Delete /\ 1 \in DOMAIN waiting
      BY <1>1, QueueTail DEF HistoryIInv, TypeOK, Callers
    <2>4. DOMAIN waiting = 1..Len(waiting) /\ Len(waiting) \in Nat
      BY LenProperties DEF HistoryIInv, TypeOK
    <2>5. 1 < i
      BY <2>2, <2>3, <2>4, ListIsNoWriter
    <2>. QED BY <1>7, <2>2, <2>3, <2>5 DEF HistoryIInv, NothingOlder, QueueOrdered
  <1>8. NothingOlder'
    BY <1>1, <1>6, <1>7 DEF NothingOlder
  <1>. QED BY <1>2, <1>3, <1>4, <1>5, <1>8 DEF HistoryIInv

LEMMA ClearFailsStep ==
  ASSUME HistoryIInv, ClearFails
  PROVE  HistoryIInv'
  <1>1. /\ Head(waiting) = Delete /\ waiting' = Tail(waiting) /\ waiting # <<>>
        /\ calls' = calls /\ failures' \in 0..Failures
        /\ UNCHANGED <<db, open, work, page, now, history>>
    BY HistoryAssumption DEF HistoryIInv, TypeOK, ClearFails, Failing
  <1>2. waiting' \in Seq(Callers) /\ QueueExact' /\ QueueOrdered'
    <2>1. UNCHANGED <<stage, value, asked, listing>>
      BY <1>1 DEF work, page, history
    <2>2. Head(waiting) # List /\ \A v \in Writers : v # Head(waiting)
      BY <1>1, ListIsNoWriter
    <2>. QED BY <1>1, <2>1, <2>2, FirstIsServed
  <1>3. TypeOK'
    BY <1>1, <1>2 DEF HistoryIInv, TypeOK, Callers, work, page, history
  <1>4. WorkersConnected' /\ TimesOrdered' /\ NothingOlder'
    BY <1>1 DEF HistoryIInv, WorkersConnected, TimesOrdered, NothingOlder, work, page, history
  <1>. QED BY <1>2, <1>3, <1>4 DEF HistoryIInv
-----------------------------------------------------------------------------
(* The list.                                                               *)

LEMMA ListReadStep ==
  ASSUME HistoryIInv, ListRead
  PROVE  HistoryIInv'
  <1>1. TypeOK'
    BY DEF HistoryIInv, TypeOK, ListRead, work, bounds, history
  <1>2. QueueExact' /\ QueueOrdered'
    BY DEF HistoryIInv, QueueExact, QueueOrdered, ListRead, work, history
  <1>3. WorkersConnected' /\ TimesOrdered' /\ NothingOlder'
    BY DEF HistoryIInv, WorkersConnected, TimesOrdered, NothingOlder, ListRead, work, bounds, history
  <1>. QED BY <1>1, <1>2, <1>3 DEF HistoryIInv

LEMMA ListedStep ==
  ASSUME HistoryIInv, Listed
  PROVE  HistoryIInv'
  <1>1. TypeOK'
    BY DEF HistoryIInv, TypeOK, Listed, work, bounds, history
  <1>2. QueueExact' /\ QueueOrdered'
    BY DEF HistoryIInv, QueueExact, QueueOrdered, Listed, work, history
  <1>3. WorkersConnected' /\ TimesOrdered' /\ NothingOlder'
    BY ListIsNoWriter
    DEF HistoryIInv, WorkersConnected, TimesOrdered, NothingOlder, Listed, work, bounds, history
  <1>. QED BY <1>1, <1>2, <1>3 DEF HistoryIInv

LEMMA ListFailsStep ==
  ASSUME HistoryIInv, ListFails
  PROVE  HistoryIInv'
  <1>1. /\ calls' = calls /\ failures' \in 0..Failures /\ listing' = "idle" /\ listing # "read"
        /\ UNCHANGED <<db, stage, value, seen, read, listed, shown, now, history, asked, cleared>>
    BY HistoryAssumption DEF HistoryIInv, TypeOK, ListFails, Failing, work, history
  <1>2. CASE listing = "waiting"
    <2>1. Head(waiting) = List /\ waiting' = Tail(waiting) /\ open' = open
      BY <1>2 DEF ListFails
    <2>2. waiting # <<>>
      <3>1. DOMAIN waiting # {}
        BY <1>2 DEF HistoryIInv, QueueExact
      <3>. QED BY <3>1
    <2>3. waiting' \in Seq(Callers) /\ QueueExact' /\ QueueOrdered'
      <3>1. \A v \in Writers : v # Head(waiting)
        BY <2>1, ListIsNoWriter
      <3>. QED BY <1>1, <2>1, <2>2, <3>1, FirstIsServed
    <2>4. TypeOK'
      BY <1>1, <2>1, <2>3 DEF HistoryIInv, TypeOK, Callers, history
    <2>5. WorkersConnected' /\ TimesOrdered' /\ NothingOlder'
      BY <1>1, <2>1 DEF HistoryIInv, WorkersConnected, TimesOrdered, NothingOlder
    <2>. QED BY <2>3, <2>4, <2>5 DEF HistoryIInv
  <1>3. CASE listing = "reading"
    <2>1. open' = open \ {List} /\ waiting' = waiting
      BY <1>3 DEF ListFails
    <2>2. TypeOK'
      BY <1>1, <2>1 DEF HistoryIInv, TypeOK, history
    <2>3. QueueExact' /\ QueueOrdered'
      BY <1>1, <1>3, <2>1 DEF HistoryIInv, QueueExact, QueueOrdered
    <2>4. WorkersConnected' /\ TimesOrdered' /\ NothingOlder'
      BY <1>1, <1>3, <2>1, ListIsNoWriter DEF HistoryIInv, WorkersConnected, TimesOrdered, NothingOlder
    <2>. QED BY <2>2, <2>3, <2>4 DEF HistoryIInv
  <1>. QED BY <1>2, <1>3 DEF ListFails
-----------------------------------------------------------------------------
LEMMA InitHistory == Init => HistoryIInv
  <1>1. Init => TypeOK
    BY HistoryAssumption, EmptySeq DEF Init, TypeOK, Stages
  <1>2. Init => QueueExact /\ WorkersConnected /\ TimesOrdered /\ NothingOlder /\ QueueOrdered
    BY HistoryAssumption DEF Init, QueueExact, WorkersConnected, TimesOrdered, NothingOlder, QueueOrdered
  <1>. QED BY <1>1, <1>2 DEF HistoryIInv

LEMMA StepKeepsHistory == HistoryIInv /\ [Next]_vars => HistoryIInv'
  <1>. SUFFICES ASSUME HistoryIInv, [Next]_vars PROVE HistoryIInv'
    OBVIOUS
  <1>1. ASSUME NEW w \in Writers,
               \/ Put(w) \/ Steps(w) \/ WriteNotCommitted(w) \/ WriteFails(w) \/ StepFails(w)
               \/ Connect(w) \/ Refuse(w)
        PROVE  HistoryIInv'
    BY <1>1, PutStep, ReadStep, EvictStep, SettleStep, WriteFailsStep, ConnectStep, RefuseStep
    DEF Steps
  <1>2. ASSUME Show \/ ConnectList \/ ListRead \/ Listed \/ ListFails
        PROVE  HistoryIInv'
    BY <1>2, ShowStep, ConnectListStep, ListReadStep, ListedStep, ListFailsStep
  <1>3. ASSUME Clear \/ Cleared \/ ClearFails
        PROVE  HistoryIInv'
    BY <1>3, ClearStep, ClearedStep, ClearFailsStep
  <1>4. CASE UNCHANGED vars
    <2>1. UNCHANGED <<db, waiting, open, stage, value, seen, read, listing, listed, shown, now,
                      calls, failures, there, raced, asked, cleared>>
      BY <1>4 DEF vars, work, page, bounds, history
    <2>2. TypeOK'
      BY <2>1 DEF HistoryIInv, TypeOK
    <2>3. QueueExact' /\ WorkersConnected' /\ TimesOrdered' /\ NothingOlder' /\ QueueOrdered'
      BY <2>1
      DEF HistoryIInv, QueueExact, WorkersConnected, TimesOrdered, NothingOlder, QueueOrdered
    <2>. QED BY <2>2, <2>3 DEF HistoryIInv
  <1>. QED BY <1>1, <1>2, <1>3, <1>4 DEF Next

\* The invariant of the history: the queue of requests, the connections, and the times of the
\* rows agree, whatever put()s, lists and deletions overlap (database.ts:93-130).
THEOREM HistoryInductive == Spec => []HistoryIInv
  <1>. QED BY InitHistory, StepKeepsHistory, PTL DEF Spec

\* What "delete all" deleted stays deleted, with any number of put()s under way
\* (App.tsx:477-482, database.ts:93-107, 125-130).
THEOREM DeletedAlwaysStays == Spec => []DeletedStaysDeleted
  <1>1. HistoryIInv => DeletedStaysDeleted
    BY DEF HistoryIInv, NothingOlder, DeletedStaysDeleted
  <1>. QED BY <1>1, HistoryInductive, PTL

\* Every connection is held by a put() or a list that has steps left to take, the last of which
\* closes it.
ConnectionsHeld ==
  \A c \in open : \/ c \in Writers /\ stage[c] \notin {"idle", "opening"}
                  \/ c = List /\ listing \in {"reading", "read"}

LEMMA PutKeepsConnections ==
  ASSUME HistoryIInv, ConnectionsHeld, NEW w \in Writers,
         \/ Put(w) \/ Steps(w) \/ WriteNotCommitted(w) \/ WriteFails(w) \/ StepFails(w)
         \/ Connect(w) \/ Refuse(w)
  PROVE  ConnectionsHeld'
  <1>1. stage \in [Writers -> Stages] BY DEF HistoryIInv, TypeOK
  <1>2. ASSUME UNCHANGED <<open, listing>>, stage'[w] = "idle" \/ stage'[w] = "opening" => w \notin open,
               \A v \in Writers \ {w} : stage'[v] = stage[v]
        PROVE  ConnectionsHeld'
    BY <1>2 DEF ConnectionsHeld
  <1>3. CASE Put(w)
    <2>1. w \notin open BY <1>3, ListIsNoWriter DEF ConnectionsHeld, Put
    <2>. QED BY <1>1, <1>2, <1>3, <2>1 DEF Put, page
  <1>4. CASE (\E s \in Stores : Read(w, s)) \/ Evict(w) \/ EvictOldest(w) \/ WriteFails(w)
    BY <1>1, <1>2, <1>4 DEF Read, Evict, EvictOldest, WriteFails, page
  <1>5. CASE Write(w) \/ WriteNotCommitted(w) \/ StepFails(w)
    <2>1. Settle(w) /\ UNCHANGED listing
      BY <1>5 DEF Write, WriteNotCommitted, StepFails, Rejected, page
    <2>2. open' = open \ {w} /\ \A v \in Writers \ {w} : stage'[v] = stage[v]
      BY <1>1, <2>1 DEF Settle, Forgotten
    <2>. QED BY <2>1, <2>2 DEF ConnectionsHeld
  <1>6. CASE Connect(w)
    <2>1. /\ open' = open \cup {w} /\ UNCHANGED listing
          /\ stage'[w] = "reading" /\ \A v \in Writers \ {w} : stage'[v] = stage[v]
      BY <1>1, <1>6 DEF Connect, page
    <2>. QED BY <2>1 DEF ConnectionsHeld
  <1>7. CASE Refuse(w)
    <2>1. stage[w] = "opening"
      BY <1>7, QueueTail DEF HistoryIInv, TypeOK, QueueExact, Refuse, Callers
    <2>2. w \notin open BY <2>1, ListIsNoWriter DEF ConnectionsHeld
    <2>. QED BY <1>1, <1>2, <1>7, <2>2 DEF Refuse, Forgotten, page
  <1>. QED BY <1>3, <1>4, <1>5, <1>6, <1>7 DEF Steps

\* No connection leaks, whatever puts and lists overlap and whichever of their requests fail,
\* so that "delete all" only ever waits for somebody who goes on (database.ts:93-107, 112-119).
THEOREM ConnectionsAlwaysHeld == Spec => []ConnectionsHeld
  <1>1. Init => ConnectionsHeld BY DEF Init, ConnectionsHeld
  <1>2. ASSUME HistoryIInv, ConnectionsHeld, [Next]_vars PROVE ConnectionsHeld'
    <2>1. CASE Show \/ ListRead \/ Clear \/ Cleared \/ ClearFails \/ UNCHANGED vars
      BY <1>2, <2>1 DEF ConnectionsHeld, Show, ListRead, Clear, Cleared, ClearFails, work, page, vars
    <2>2. CASE ConnectList
      BY <1>2, <2>2 DEF ConnectionsHeld, ConnectList, work
    <2>3. CASE Listed \/ ListFails
      <3>1. stage' = stage /\ \/ open' = open \ {List}
                              \/ open' = open /\ listing = "waiting"
        BY <2>3 DEF Listed, ListFails, work
      <3>. QED BY <1>2, <3>1 DEF ConnectionsHeld
    <2>. QED BY <1>2, <2>1, <2>2, <2>3, PutKeepsConnections DEF Next
  <1>. QED BY <1>1, <1>2, HistoryInductive, PTL DEF Spec
-----------------------------------------------------------------------------
(* Eviction, whatever rows were read.                                      *)

\* The larger, the older: the row of "speed" comes first of two of one time.
Age(r) == 2 * (Calls - r.at) + (IF r.store = "speed" THEN 1 ELSE 0)

LEMMA OlderByAge ==
  ASSUME NEW r \in Rows, NEW q \in Rows
  PROVE  /\ Age(r) \in 0..(2 * Calls + 1)
         /\ Older(r, q) <=> Age(r) > Age(q)
  <1>1. /\ r.at \in 0..Calls /\ q.at \in 0..Calls /\ Calls \in Nat
        /\ r.store \in {"speed", "stability"} /\ q.store \in {"speed", "stability"}
    BY HistoryAssumption DEF Rows, Stores
  <1>. QED BY <1>1 DEF Age, Older

LEMMA OldestExists ==
  ASSUME NEW A \in SUBSET Rows, A # {}
  PROVE  \E r \in A : \A q \in A : ~ Older(q, r)
  <1>. DEFINE Ages == {Age(r) : r \in A}
  <1>1. Ages \subseteq 0..(2 * Calls + 1) BY OlderByAge
  <1>2. 0..(2 * Calls + 1) \subseteq Nat /\ IsFiniteSet(0..(2 * Calls + 1))
    BY FS_Interval, HistoryAssumption
  <1>3. Ages \in SUBSET Nat /\ IsFiniteSet(Ages) /\ Ages # {}
    <2>1. Ages # {} OBVIOUS
    <2>. HIDE DEF Ages
    <2>2. Ages \in SUBSET (0..(2 * Calls + 1)) BY <1>1
    <2>3. IsFiniteSet(Ages) BY <1>2, <2>2, FS_Subset
    <2>. QED BY <1>2, <2>1, <2>2, <2>3
  <1>4. PICK m \in Ages : \A y \in Ages : y <= m
    BY <1>3, GreatestExists
  <1>5. PICK r \in A : Age(r) = m
    BY <1>4
  <1>6. ASSUME NEW q \in A, Older(q, r) PROVE FALSE
    <2>1. Age(q) > Age(r) /\ Age(q) \in Nat /\ Age(r) \in Nat BY <1>2, <1>6, OlderByAge
    <2>2. Age(q) <= Age(r) BY <1>4, <1>5
    <2>. QED BY <2>1, <2>2
  <1>. QED BY <1>6

\* evictToBudget() makes room, whatever rows it is given: what it keeps and the new row fit
\* the budget (database.ts:68-83).
THEOREM EvictionFits ==
  ASSUME NEW rows \in SUBSET Rows, NEW row \in Rows
  PROVE  Total(Without(rows, {row}) \ Doomed(rows, row)) + row.size <= Limit
  <1>. DEFINE Retained == Without(rows, {row})
              Kept == Retained \ Doomed(rows, row)
  <1>1. Retained \in SUBSET Rows /\ Kept \in SUBSET Retained BY WithoutIsLess
  <1>2. row.size \in 1..Limit BY TotalOfOne
  <1>3. CASE Kept = {}
    <2>1. Total(Kept) = 0 BY <1>3, TotalAddsUp
    <2>. QED BY <1>2, <2>1, HistoryAssumption
  <1>4. CASE Kept # {}
    <2>1. PICK r \in Kept : \A q \in Kept : ~ Older(q, r) BY <1>1, <1>4, OldestExists
    <2>. DEFINE Younger == {q \in Retained : ~ Older(q, r)}
    <2>2. ~ (Total(Younger) + row.size > Limit) BY <2>1 DEF Doomed
    <2>3. Kept \in SUBSET Younger /\ Younger \in SUBSET Rows BY <1>1, <2>1
    <2>. HIDE DEF Kept, Younger, Retained
    <2>4. Kept \in SUBSET Rows BY <2>3
    <2>5. Total(Kept) <= Total(Younger) BY <2>3, TotalGrows
    <2>6. Total(Kept) \in Nat /\ Total(Younger) \in Nat BY <2>3, <2>4, TotalTyped
    <2>. QED BY <1>2, <2>2, <2>5, <2>6, HistoryAssumption DEF Kept, Retained
  <1>. QED BY <1>3, <1>4

\* evictToBudget() evicts by age alone: with a row goes every older one but that of the key
\* that is written (database.ts:73-82).
THEOREM EvictionByAge ==
  ASSUME NEW rows \in SUBSET Rows, NEW row \in Rows,
         NEW q \in Doomed(rows, row), NEW r \in Without(rows, {row}), Older(r, q)
  PROVE  r \in Doomed(rows, row)
  <1>. DEFINE Retained == Without(rows, {row})
              Younger(x) == {p \in Retained : ~ Older(p, x)}
  <1>1. Retained \in SUBSET Rows BY WithoutIsLess
  <1>2. q \in Retained /\ r \in Retained /\ Total(Younger(q)) + row.size > Limit BY DEF Doomed
  <1>3. Younger(q) \in SUBSET Younger(r)
    <2>1. ASSUME NEW p \in Retained, Older(p, r) PROVE Older(p, q)
      <3>1. p \in Rows /\ q \in Rows /\ r \in Rows BY <1>1, <1>2
      <3>2. Age(p) > Age(r) /\ Age(r) > Age(q) BY <2>1, <3>1, OlderByAge
      <3>3. Age(p) \in Nat /\ Age(r) \in Nat /\ Age(q) \in Nat
        BY <3>1, OlderByAge, HistoryAssumption
      <3>. QED BY <3>1, <3>2, <3>3, OlderByAge
    <2>. QED BY <2>1
  <1>4. Younger(r) \in SUBSET Rows /\ Younger(q) \in SUBSET Rows BY <1>1
  <1>5. Total(Younger(q)) <= Total(Younger(r)) BY <1>3, <1>4, TotalGrows
  <1>6. Total(Younger(q)) \in Nat /\ Total(Younger(r)) \in Nat BY <1>4, TotalTyped
  <1>7. row.size \in Nat BY TotalOfOne
  <1>8. Total(Younger(r)) + row.size > Limit
    <2>. HIDE DEF Younger
    <2>. QED BY <1>2, <1>5, <1>6, <1>7, HistoryAssumption
  <1>. QED BY <1>2, <1>8 DEF Doomed
-----------------------------------------------------------------------------
(* What a put() has read, and what it knows.                               *)

\* Rows have keys of their own; what was read is kept only while it is needed; rows that are
\* still there have been read; who was not disturbed has read what is there, and makes room.
Reads ==
  \A w \in Writers :
    /\ stage[w] \notin {"reading", "rereading"} => seen[w] = {} /\ read[w] = {}
    /\ stage[w] \in {"idle", "opening"} => there[w] = {}

KeysUnique == \A r, q \in db : SameKey(r, q) => r = q

StillThere ==
  \A w \in Writers :
    /\ there[w] \subseteq db
    /\ \A r \in there[w] :
         stage[w] \in {"reading", "rereading"} /\ r.store \in read[w] => r \in seen[w]

Others(w) == Without(db, {value[w]})

Undisturbed ==
  \A w \in Writers \ raced :
    /\ stage[w] = "reading" => seen[w] = {r \in db : r.store \in read[w]}
    /\ stage[w] \in {"writing", "rereading", "rewriting"} =>
         Total(Others(w)) + value[w].size <= Limit

(* Whose reading others overlap.  Flying are the put()s that have begun to read.  Each has     *)
(* some others ahead that had begun before it, and makes room for all but one row of each of   *)
(* them; or it was overtaken by one that began after it and has written, and is ahead of that  *)
(* one, which has made room for it.  The put()s ahead of the latest such one are the base.      *)
Flying == {w \in Writers : stage[w] \notin {"idle", "opening"}
                            /\ (stage[w] = "reading" => read[w] # {})}

Room == Cardinality(Writers) - 1

Unread(w) == {r \in Others(w) : r.store \in read[w] /\ r \notin seen[w]}

Fits(w, ahead) ==
  \/ /\ stage[w] = "reading"
     /\ Cardinality(Unread(w)) + Cardinality(ahead) <= Room
  \/ /\ stage[w] # "reading"
     /\ \E C \in SUBSET db : /\ Total(C) + value[w].size <= Limit
                             /\ Cardinality(Others(w) \ C) + Cardinality(ahead) <= Room

BaseFits(ahead) ==
  \E C \in SUBSET db : Total(C) <= Limit /\ Cardinality(db \ C) + Cardinality(ahead) <= Room

InOrder(ahead) ==
  /\ \A w \in Flying : w \notin ahead[w]
  /\ \A u, w \in Flying : u # w => u \in ahead[w] \/ w \in ahead[u]
  /\ \A u, w \in Flying : u \in ahead[w] => ahead[u] \subseteq ahead[w]

Ordered(ahead, base) ==
  /\ InOrder(ahead)
  /\ \A w \in Flying \ base : base \subseteq ahead[w] /\ Fits(w, ahead[w])
  /\ BaseFits(base)

BudgetHeld ==
  \E ahead \in [Writers -> SUBSET Flying], base \in SUBSET Flying : Ordered(ahead, base)

KnownIInv == HistoryIInv /\ Reads /\ KeysUnique /\ StillThere /\ Undisturbed

BudgetIInv == KnownIInv /\ BudgetHeld
-----------------------------------------------------------------------------
(* Counting rows and put()s.                                               *)

LEMMA WritersCounted ==
  ASSUME NEW A \in SUBSET Writers
  PROVE  IsFiniteSet(A) /\ Cardinality(A) \in Nat /\ Cardinality(A) <= Cardinality(Writers)
  BY FS_Subset, FS_CardinalityType, HistoryAssumption

LEMMA RoomForOthers ==
  ASSUME NEW w \in Writers, NEW A \in SUBSET Writers, w \notin A
  PROVE  Cardinality(A) <= Room
  <1>1. A \in SUBSET (Writers \ {w}) OBVIOUS
  <1>2. /\ IsFiniteSet(Writers \ {w})
        /\ Cardinality(Writers \ {w}) = Cardinality(Writers) - 1
    BY FS_RemoveElement, HistoryAssumption
  <1>3. Cardinality(A) <= Cardinality(Writers \ {w}) BY <1>1, <1>2, FS_Subset
  <1>. QED BY <1>2, <1>3 DEF Room

LEMMA RoomIsNat == Room \in Nat
  <1>1. PICK w \in Writers : TRUE BY HistoryAssumption
  <1>2. Cardinality({}) <= Room BY <1>1, RoomForOthers
  <1>3. Cardinality({}) = 0 BY FS_EmptySet
  <1>4. Cardinality(Writers) \in Nat BY WritersCounted
  <1>. QED BY <1>2, <1>3, <1>4 DEF Room

LEMMA OneLess ==
  ASSUME NEW A \in SUBSET Writers, NEW w \in A
  PROVE  Cardinality(A \ {w}) + 1 = Cardinality(A)
  <1>1. IsFiniteSet(A) /\ Cardinality(A) \in Nat BY WritersCounted
  <1>2. Cardinality(A \ {w}) = Cardinality(A) - 1 BY <1>1, FS_RemoveElement
  <1>. QED BY <1>1, <1>2

LEMMA FewerAhead ==
  ASSUME NEW A \in SUBSET Writers, NEW B \in SUBSET A
  PROVE  Cardinality(B) <= Cardinality(A)
  BY WritersCounted, FS_Subset

LEMMA RowsCounted ==
  ASSUME NEW A \in SUBSET Rows, NEW B \in SUBSET Rows, NEW C \in SUBSET (A \cup B)
  PROVE  Cardinality(C) <= Cardinality(A) + Cardinality(B)
  <1>1. IsFiniteSet(A) /\ IsFiniteSet(B) /\ Cardinality(A) \in Nat /\ Cardinality(B) \in Nat
    BY TotalTyped
  <1>2. /\ IsFiniteSet(A \cup B)
        /\ Cardinality(A \cup B) = Cardinality(A) + Cardinality(B) - Cardinality(A \cap B)
    BY <1>1, FS_Union
  <1>3. Cardinality(A \cap B) \in Nat BY <1>1, FS_Intersection, FS_CardinalityType
  <1>4. Cardinality(C) <= Cardinality(A \cup B) BY <1>2, FS_Subset
  <1>5. C \in SUBSET Rows /\ Cardinality(C) \in Nat BY TotalTyped
  <1>. QED BY <1>1, <1>2, <1>3, <1>4, <1>5

LEMMA OneRow ==
  /\ Cardinality({}) = 0
  /\ \A r : Cardinality({r}) = 1
  BY FS_EmptySet, FS_Singleton

\* Whoever has room still has it after rows were added, if as many others are no longer ahead.
LEMMA RoomStays ==
  ASSUME NEW A \in SUBSET Rows, NEW N \in SUBSET Rows, NEW B \in SUBSET (A \cup N),
         NEW a \in SUBSET Writers, NEW b \in SUBSET Writers,
         Cardinality(A) + Cardinality(a) <= Room,
         Cardinality(N) + Cardinality(b) <= Cardinality(a)
  PROVE  Cardinality(B) + Cardinality(b) <= Room
  <1>1. Cardinality(B) <= Cardinality(A) + Cardinality(N) BY RowsCounted
  <1>2. /\ Cardinality(A) \in Nat /\ Cardinality(N) \in Nat
        /\ Cardinality(a) \in Nat /\ Cardinality(b) \in Nat /\ Cardinality(B) \in Nat
    <2>1. B \in SUBSET Rows OBVIOUS
    <2>. QED BY <2>1, TotalTyped, WritersCounted
  <1>. QED BY <1>1, <1>2, RoomIsNat

LEMMA FitsStays ==
  ASSUME db \in SUBSET Rows, NEW N \in SUBSET Rows, db' \subseteq db \cup N,
         NEW u \in Writers, value'[u] = value[u], value[u] \in Rows,
         \/ stage[u] = "reading" /\ stage'[u] = "reading"
              /\ seen'[u] = seen[u] /\ read'[u] = read[u]
         \/ stage[u] # "reading" /\ stage'[u] # "reading",
         NEW a \in SUBSET Writers, NEW b \in SUBSET Writers, Fits(u, a),
         Cardinality(N) + Cardinality(b) <= Cardinality(a)
  PROVE  Fits(u, b)'
  <1>1. CASE stage[u] = "reading"
    <2>1. Unread(u) \in SUBSET Rows BY DEF Unread, Others, Without
    <2>2. Unread(u)' \in SUBSET (Unread(u) \cup N)
      BY <1>1 DEF Unread, Others, Without
    <2>3. Cardinality(Unread(u)) + Cardinality(a) <= Room BY <1>1 DEF Fits
    <2>4. Cardinality(Unread(u)') + Cardinality(b) <= Room
      BY <2>1, <2>2, <2>3, RoomStays
    <2>. QED BY <1>1, <2>4 DEF Fits
  <1>2. CASE stage[u] # "reading"
    <2>1. PICK C \in SUBSET db : /\ Total(C) + value[u].size <= Limit
                                 /\ Cardinality(Others(u) \ C) + Cardinality(a) <= Room
      BY <1>2 DEF Fits
    <2>. DEFINE D == C \cap db'
    <2>2. D \in SUBSET C /\ D \in SUBSET db' /\ C \in SUBSET Rows /\ D \in SUBSET Rows OBVIOUS
    <2>3. Total(D) + value[u].size <= Limit
      <3>1. Total(D) <= Total(C) BY <2>2, TotalGrows
      <3>2. Total(D) \in Nat /\ Total(C) \in Nat BY <2>2, TotalTyped
      <3>3. value[u].size \in 1..Limit BY TotalOfOne
      <3>. QED BY <2>1, <3>1, <3>2, <3>3, HistoryAssumption
    <2>4. Cardinality(Others(u)' \ D) + Cardinality(b) <= Room
      <3>1. Others(u) \ C \in SUBSET Rows BY DEF Others, Without
      <3>2. Others(u)' \ D \in SUBSET ((Others(u) \ C) \cup N)
        BY DEF Others, Without
      <3>. QED BY <2>1, <3>1, <3>2, RoomStays
    <2>. HIDE DEF D
    <2>. QED BY <1>2, <2>2, <2>3, <2>4 DEF Fits
  <1>. QED BY <1>1, <1>2

LEMMA BaseStays ==
  ASSUME db \in SUBSET Rows, NEW N \in SUBSET Rows, db' \subseteq db \cup N,
         NEW a \in SUBSET Writers, NEW b \in SUBSET Writers, BaseFits(a),
         Cardinality(N) + Cardinality(b) <= Cardinality(a)
  PROVE  BaseFits(b)'
  <1>1. PICK C \in SUBSET db : Total(C) <= Limit /\ Cardinality(db \ C) + Cardinality(a) <= Room
    BY DEF BaseFits
  <1>. DEFINE D == C \cap db'
  <1>2. D \in SUBSET C /\ D \in SUBSET db' /\ C \in SUBSET Rows /\ D \in SUBSET Rows OBVIOUS
  <1>3. Total(D) <= Limit
    <2>1. Total(D) <= Total(C) BY <1>2, TotalGrows
    <2>2. Total(D) \in Nat /\ Total(C) \in Nat BY <1>2, TotalTyped
    <2>. QED BY <1>1, <2>1, <2>2, HistoryAssumption
  <1>4. Cardinality(db' \ D) + Cardinality(b) <= Room
    <2>1. db \ C \in SUBSET Rows /\ db' \ D \in SUBSET ((db \ C) \cup N) OBVIOUS
    <2>. QED BY <1>1, <2>1, RoomStays
  <1>. HIDE DEF D
  <1>. QED BY <1>2, <1>3, <1>4 DEF BaseFits
-----------------------------------------------------------------------------
(* What a put() knows stays true, step by step.                            *)

\* Everybody else goes on as before: put() w stopped reading, and may have changed the rows.
LEMMA DisturbingStep ==
  ASSUME KnownIInv, HistoryIInv', KeysUnique',
         NEW w \in Writers, Disturbs(w), Forget(w),
         \A v \in Writers \ {w} : stage'[v] = stage[v] /\ value'[v] = value[v],
         stage'[w] \in {"idle", "writing", "rewriting"},
         w \notin raced' /\ stage'[w] # "idle"
           => Total(Others(w))' + value'[w].size <= Limit
  PROVE  KnownIInv'
  <1>1. /\ \A v \in Writers \ {w} : seen'[v] = seen[v] /\ read'[v] = read[v]
        /\ seen'[w] = {} /\ read'[w] = {}
    BY DEF KnownIInv, HistoryIInv, TypeOK, Forget
  <1>2. /\ \A v \in Writers : there'[v] = IF stage'[v] = "idle" THEN {} ELSE there[v] \cap db'
        /\ raced' = IF db' = db THEN raced
                     ELSE raced \cup {v \in Writers \ {w} : stage[v] \notin {"idle", "opening"}}
    BY DEF Disturbs
  <1>3. Reads'
    BY <1>1, <1>2 DEF KnownIInv, Reads
  <1>4. StillThere'
    BY <1>1, <1>2 DEF KnownIInv, StillThere
  <1>5. Undisturbed'
    <2>. SUFFICES ASSUME NEW v \in Writers, v \notin raced'
         PROVE  /\ stage'[v] = "reading" => seen'[v] = {r \in db' : r.store \in read'[v]}
                /\ stage'[v] \in {"writing", "rereading", "rewriting"} =>
                     Total(Others(v))' + value'[v].size <= Limit
      BY DEF Undisturbed
    <2>1. CASE v = w
      BY <2>1
    <2>2. CASE v # w /\ db' = db
      <3>1. Others(v)' = Others(v) BY <2>2 DEF Others
      <3>. QED BY <1>1, <1>2, <2>2, <3>1 DEF KnownIInv, Undisturbed, Total, Bytes
    <2>3. CASE v # w /\ db' # db
      BY <1>2, <2>3
    <2>. QED BY <2>1, <2>2, <2>3
  <1>. QED BY <1>3, <1>4, <1>5 DEF KnownIInv

\* A step that changes no rows, and in which no put() begins or ends its reading.
LEMMA QuietStep ==
  ASSUME KnownIInv, HistoryIInv', UNCHANGED <<db, there, raced>>,
         \A v \in Writers : seen'[v] = seen[v] /\ read'[v] = read[v],
         \A v \in Writers :
           \/ stage'[v] = stage[v] /\ value'[v] = value[v]
           \/ stage[v] \in {"idle", "opening"} /\ stage'[v] \in {"idle", "opening"}
           \/ stage[v] = "writing" /\ stage'[v] = "rereading" /\ value'[v] = value[v]
  PROVE  KnownIInv'
  <1>1. Reads'
    BY DEF KnownIInv, Reads
  <1>2. KeysUnique'
    BY DEF KnownIInv, KeysUnique
  <1>3. StillThere'
    BY DEF KnownIInv, StillThere, Reads
  <1>4. Undisturbed'
    <2>. SUFFICES ASSUME NEW v \in Writers, v \notin raced'
         PROVE  /\ stage'[v] = "reading" => seen'[v] = {r \in db' : r.store \in read'[v]}
                /\ stage'[v] \in {"writing", "rereading", "rewriting"} =>
                     Total(Others(v))' + value'[v].size <= Limit
      BY DEF Undisturbed
    <2>1. value'[v] = value[v] => Others(v)' = Others(v) BY DEF Others
    <2>. QED BY <2>1 DEF KnownIInv, Undisturbed, Total, Bytes
  <1>. QED BY <1>1, <1>2, <1>3, <1>4 DEF KnownIInv

LEMMA KnownRead ==
  ASSUME KnownIInv, NEW w \in Writers, NEW s \in Stores, Read(w, s)
  PROVE  KnownIInv'
  <1>1. HistoryIInv' BY ReadStep DEF KnownIInv
  <1>2. /\ stage[w] \in {"reading", "rereading"}
        /\ seen'[w] = seen[w] \cup {r \in db : r.store = s}
        /\ read'[w] = read[w] \cup {s}
        /\ \A v \in Writers \ {w} : seen'[v] = seen[v] /\ read'[v] = read[v]
        /\ UNCHANGED <<db, stage, value, there, raced>>
    BY DEF KnownIInv, HistoryIInv, TypeOK, Read, history
  <1>3. Reads' /\ KeysUnique' /\ StillThere'
    BY <1>2 DEF KnownIInv, Reads, KeysUnique, StillThere
  <1>4. Undisturbed'
    <2>1. \A v \in Writers : Others(v)' = Others(v) BY <1>2 DEF Others
    <2>2. \A v \in Writers : Total(Others(v))' = Total(Others(v)) BY <2>1 DEF Total, Bytes
    <2>3. ASSUME NEW v \in Writers, v \notin raced, stage[v] = "reading"
          PROVE  seen'[v] = {r \in db : r.store \in read'[v]}
      <3>1. seen[v] = {r \in db : r.store \in read[v]} BY <2>3 DEF KnownIInv, Undisturbed
      <3>. QED BY <1>2, <3>1
    <2>. QED BY <1>2, <2>2, <2>3 DEF KnownIInv, Undisturbed
  <1>. QED BY <1>1, <1>3, <1>4 DEF KnownIInv

\* Who was not disturbed has read all that is there, and evicts what does not fit.
LEMMA EvictMakesRoom ==
  ASSUME NEW w \in Writers, db \in SUBSET Rows, value[w] \in Rows, value'[w] = value[w],
         db' = Without(db, Doomed(db, value[w]))
  PROVE  Total(Others(w))' + value'[w].size <= Limit
  <1>. DEFINE Kept == Without(db, {value[w]}) \ Doomed(db, value[w])
  <1>1. Others(w)' \in SUBSET Kept BY DEF Others, Without, SameKey
  <1>2. Kept \in SUBSET Rows BY WithoutIsLess
  <1>3. Total(Kept) + value[w].size <= Limit BY EvictionFits
  <1>. HIDE DEF Kept
  <1>4. Total(Others(w)') <= Total(Kept) BY <1>1, <1>2, TotalGrows
  <1>5. Total(Others(w)') \in Nat /\ Total(Kept) \in Nat
    <2>1. Others(w)' \in SUBSET Rows BY <1>1, <1>2
    <2>. QED BY <1>2, <2>1, TotalTyped
  <1>6. value[w].size \in 1..Limit BY TotalOfOne
  <1>7. Total(Others(w))' = Total(Others(w)') BY DEF Total, Bytes
  <1>. QED BY <1>3, <1>4, <1>5, <1>6, <1>7, HistoryAssumption

LEMMA KnownEvict ==
  ASSUME KnownIInv, NEW w \in Writers, Evict(w) \/ EvictOldest(w)
  PROVE  KnownIInv'
  <1>1. HistoryIInv' BY EvictStep DEF KnownIInv
  <1>2. /\ db' \subseteq db /\ stage[w] \in {"reading", "rereading"}
        /\ \E s \in {"writing", "rewriting"} : stage' = [stage EXCEPT ![w] = s]
        /\ UNCHANGED value /\ Disturbs(w) /\ Forget(w)
    BY WithoutIsLess DEF Evict, EvictOldest
  <1>3. db \in SUBSET Rows /\ value[w] \in Rows /\ stage \in [Writers -> Stages]
    BY <1>2 DEF KnownIInv, HistoryIInv, TypeOK, NothingOlder
  <1>4. KeysUnique' BY <1>2 DEF KnownIInv, KeysUnique
  <1>5. ASSUME w \notin raced'
        PROVE  Total(Others(w))' + value'[w].size <= Limit
    <2>1. w \notin raced BY <1>2, <1>5 DEF Disturbs
    <2>2. CASE Evict(w)
      <3>1. seen[w] = db
        <4>1. seen[w] = {r \in db : r.store \in Stores}
          BY <2>1, <2>2 DEF KnownIInv, Undisturbed, Evict
        <4>. QED BY <1>3, <4>1 DEF Rows
      <3>2. db' = Without(db, Doomed(db, value[w])) BY <2>2, <3>1 DEF Evict
      <3>. QED BY <1>2, <1>3, <3>2, EvictMakesRoom
    <2>3. CASE EvictOldest(w)
      <3>1. Total(Others(w)) + value[w].size <= Limit
        BY <2>1, <2>3 DEF KnownIInv, Undisturbed, EvictOldest
      <3>2. Others(w)' \in SUBSET Others(w) /\ Others(w) \in SUBSET Rows
        BY <1>2, <1>3 DEF Others, Without
      <3>3. Total(Others(w)') <= Total(Others(w)) BY <3>2, TotalGrows
      <3>4. Total(Others(w)') \in Nat /\ Total(Others(w)) \in Nat
        <4>1. Others(w)' \in SUBSET Rows BY <3>2
        <4>. QED BY <3>2, <4>1, TotalTyped
      <3>5. value[w].size \in 1..Limit BY <1>3, TotalOfOne
      <3>6. Total(Others(w))' = Total(Others(w)') BY DEF Total, Bytes
      <3>. QED BY <1>2, <3>1, <3>3, <3>4, <3>5, <3>6, HistoryAssumption
    <2>. QED BY <2>2, <2>3
  <1>. QED BY <1>1, <1>2, <1>3, <1>4, <1>5, DisturbingStep

LEMMA KnownSettle ==
  ASSUME KnownIInv, NEW w \in Writers,
         Write(w) \/ WriteNotCommitted(w) \/ StepFails(w)
  PROVE  KnownIInv'
  <1>1. HistoryIInv' BY SettleStep DEF KnownIInv
  <1>2. Forgotten(w) /\ Disturbs(w) /\ (db' = db \/ db' = Stored(w))
    BY DEF Write, WriteNotCommitted, StepFails, Rejected, Settle
  <1>3. stage \in [Writers -> Stages] /\ value \in [Writers -> Rows \cup {NoRow}]
    BY DEF KnownIInv, HistoryIInv, TypeOK
  <1>4. /\ Forget(w) /\ stage'[w] = "idle"
        /\ \A v \in Writers \ {w} : stage'[v] = stage[v] /\ value'[v] = value[v]
    BY <1>2, <1>3 DEF Forgotten, Forget
  <1>5. KeysUnique'
    BY <1>2 DEF KnownIInv, KeysUnique, Stored, Without, SameKey
  <1>. QED BY <1>1, <1>2, <1>4, <1>5, DisturbingStep

LEMMA KnownConnect ==
  ASSUME KnownIInv, NEW w \in Writers, Connect(w)
  PROVE  KnownIInv'
  <1>1. HistoryIInv' BY ConnectStep DEF KnownIInv
  <1>2. stage[w] = "opening"
    BY QueueTail DEF KnownIInv, HistoryIInv, TypeOK, QueueExact, Connect, Callers
  <1>3. /\ stage' = [stage EXCEPT ![w] = "reading"] /\ there' = [there EXCEPT ![w] = db]
        /\ raced' = raced \ {w} /\ UNCHANGED <<db, value, seen, read>>
    BY DEF Connect
  <1>4. stage \in [Writers -> Stages] /\ there \in [Writers -> SUBSET Rows]
    BY DEF KnownIInv, HistoryIInv, TypeOK
  <1>5. seen[w] = {} /\ read[w] = {} BY <1>2 DEF KnownIInv, Reads
  <1>6. Reads' /\ KeysUnique' /\ StillThere'
    BY <1>3, <1>4, <1>5 DEF KnownIInv, Reads, KeysUnique, StillThere
  <1>7. Undisturbed'
    <2>1. \A v \in Writers : Others(v)' = Others(v) BY <1>3 DEF Others
    <2>2. \A v \in Writers : Total(Others(v))' = Total(Others(v)) BY <2>1 DEF Total, Bytes
    <2>. QED BY <1>3, <1>4, <1>5, <2>2 DEF KnownIInv, Undisturbed
  <1>. QED BY <1>1, <1>6, <1>7 DEF KnownIInv

\* The steps that only ask, wait, list or fail.
LEMMA QuietPut ==
  ASSUME KnownIInv, NEW w \in Writers, Put(w) \/ WriteFails(w) \/ Refuse(w)
  PROVE  /\ HistoryIInv' /\ UNCHANGED <<db, there, raced>>
         /\ \A v \in Writers : seen'[v] = seen[v] /\ read'[v] = read[v]
         /\ \A v \in Writers :
              \/ stage'[v] = stage[v] /\ value'[v] = value[v]
              \/ stage[v] \in {"idle", "opening"} /\ stage'[v] \in {"idle", "opening"}
              \/ stage[v] = "writing" /\ stage'[v] = "rereading" /\ value'[v] = value[v]
  <1>1. HistoryIInv' BY PutStep, WriteFailsStep, RefuseStep DEF KnownIInv
  <1>2. /\ stage \in [Writers -> Stages] /\ value \in [Writers -> Rows \cup {NoRow}]
        /\ seen \in [Writers -> SUBSET Rows] /\ read \in [Writers -> SUBSET Stores]
    BY DEF KnownIInv, HistoryIInv, TypeOK
  <1>3. CASE Put(w)
    BY <1>1, <1>2, <1>3 DEF Put, history
  <1>4. CASE WriteFails(w)
    BY <1>1, <1>2, <1>4 DEF WriteFails, history
  <1>5. CASE Refuse(w)
    <2>1. stage[w] = "opening"
      BY <1>5, QueueTail DEF KnownIInv, HistoryIInv, TypeOK, QueueExact, Refuse, Callers
    <2>2. seen[w] = {} /\ read[w] = {} BY <2>1 DEF KnownIInv, Reads
    <2>. QED BY <1>1, <1>2, <1>5, <2>1, <2>2 DEF Refuse, Forgotten, history
  <1>. QED BY <1>3, <1>4, <1>5

LEMMA QuietPage ==
  ASSUME KnownIInv, \/ Show \/ ConnectList \/ ListRead \/ Listed \/ ListFails
                    \/ Clear \/ ClearFails \/ UNCHANGED vars
  PROVE  HistoryIInv' /\ UNCHANGED <<db, stage, value, seen, read, there, raced>>
  <1>1. HistoryIInv' BY StepKeepsHistory DEF KnownIInv, Next
  <1>. QED BY <1>1 DEF Show, ConnectList, ListRead, Listed, ListFails, Clear, ClearFails,
                       vars, work, history

\* The database is deleted when no put() is connected.
LEMMA ClearedAlone ==
  ASSUME KnownIInv, Cleared
  PROVE  /\ \A v \in Writers : stage[v] \in {"idle", "opening"}
         /\ db' = {} /\ UNCHANGED <<stage, value, seen, read, there, raced>>
  <1>1. open = {} /\ db' = {} /\ UNCHANGED <<stage, value, seen, read, there, raced>>
    BY DEF Cleared, work
  <1>. QED BY <1>1 DEF KnownIInv, HistoryIInv, WorkersConnected

LEMMA KnownCleared ==
  ASSUME KnownIInv, Cleared
  PROVE  KnownIInv'
  <1>1. HistoryIInv' BY ClearedStep DEF KnownIInv
  <1>2. Reads' BY ClearedAlone DEF KnownIInv, Reads
  <1>3. KeysUnique' /\ StillThere'
    BY ClearedAlone DEF KnownIInv, Reads, KeysUnique, StillThere
  <1>4. Undisturbed' BY ClearedAlone DEF Undisturbed
  <1>. QED BY <1>1, <1>2, <1>3, <1>4 DEF KnownIInv

LEMMA StepKeepsKnown == KnownIInv /\ [Next]_vars => KnownIInv'
  <1>. SUFFICES ASSUME KnownIInv, [Next]_vars PROVE KnownIInv'
    OBVIOUS
  <1>1. ASSUME NEW w \in Writers, Put(w) \/ WriteFails(w) \/ Refuse(w)
        PROVE  KnownIInv'
    BY <1>1, QuietPut, QuietStep
  <1>2. ASSUME NEW w \in Writers,
               Steps(w) \/ WriteNotCommitted(w) \/ StepFails(w) \/ Connect(w)
        PROVE  KnownIInv'
    BY <1>2, KnownRead, KnownEvict, KnownSettle, KnownConnect DEF Steps
  <1>3. CASE \/ Show \/ ConnectList \/ ListRead \/ Listed \/ ListFails
             \/ Clear \/ ClearFails \/ UNCHANGED vars
    BY <1>3, QuietPage, QuietStep
  <1>4. CASE Cleared
    BY <1>4, KnownCleared
  <1>. QED BY <1>1, <1>2, <1>3, <1>4 DEF Next

\* What every put() knows of the rows stays true, whatever others do to them
\* (database.ts:69-87, 93-107).
THEOREM KnownInductive == Spec => []KnownIInv
  <1>1. Init => KnownIInv
    BY InitHistory DEF Init, KnownIInv, Reads, KeysUnique, StillThere, Undisturbed
  <1>. QED BY <1>1, StepKeepsKnown, PTL DEF Spec
-----------------------------------------------------------------------------
(* The budget, step by step.                                               *)

LEMMA KnownTypes ==
  ASSUME KnownIInv
  PROVE  /\ db \in SUBSET Rows /\ Flying \in SUBSET Writers
         /\ stage \in [Writers -> Stages] /\ value \in [Writers -> Rows \cup {NoRow}]
         /\ seen \in [Writers -> SUBSET Rows] /\ read \in [Writers -> SUBSET Stores]
         /\ \A w \in Writers : stage[w] # "idle" => value[w] \in Rows
  BY DEF KnownIInv, HistoryIInv, TypeOK, NothingOlder, Flying

\* Nobody begins or leaves, no row is added, and everybody still has room.
LEMMA SameFlight ==
  ASSUME KnownIInv, BudgetHeld, db' \subseteq db, Flying' = Flying,
         \A u \in Flying, a \in SUBSET Writers : Fits(u, a) => Fits(u, a)'
  PROVE  BudgetHeld'
  <1>1. PICK ahead \in [Writers -> SUBSET Flying], base \in SUBSET Flying : Ordered(ahead, base)
    BY DEF BudgetHeld
  <1>2. base \in SUBSET Writers /\ \A u \in Flying : ahead[u] \in SUBSET Writers
    BY KnownTypes
  <1>3. BaseFits(base)'
    <2>1. Cardinality({}) + Cardinality(base) <= Cardinality(base)
      BY <1>2, OneRow, WritersCounted
    <2>. QED BY <1>1, <1>2, <2>1, KnownTypes, BaseStays DEF Ordered
  <1>4. InOrder(ahead)'
    BY <1>1 DEF Ordered, InOrder
  <1>5. ASSUME NEW u \in Flying' \ base
        PROVE  base \subseteq ahead[u] /\ Fits(u, ahead[u])'
    BY <1>1, <1>2 DEF Ordered
  <1>6. Ordered(ahead, base)'
    BY <1>3, <1>4, <1>5 DEF Ordered
  <1>. QED BY <1>6 DEF BudgetHeld

\* Whoever reads no more, or has read nothing new, has the room it had.
LEMMA FitsShrinks ==
  ASSUME KnownIInv, db' \subseteq db, NEW u \in Flying, value'[u] = value[u],
         \/ stage[u] = "reading" /\ stage'[u] = "reading"
              /\ seen'[u] = seen[u] /\ read'[u] = read[u]
         \/ stage[u] # "reading" /\ stage'[u] # "reading",
         NEW a \in SUBSET Writers, Fits(u, a)
  PROVE  Fits(u, a)'
  <1>1. Cardinality({}) + Cardinality(a) <= Cardinality(a)
    BY OneRow, WritersCounted
  <1>2. u \in Writers /\ value[u] \in Rows /\ db \in SUBSET Rows
    BY KnownTypes DEF Flying
  <1>3. {} \in SUBSET Rows /\ db' \subseteq db \cup {}
    OBVIOUS
  <1>. QED BY <1>1, <1>2, <1>3, FitsStays

\* Steps that change neither the rows nor what a put() that has begun has read.
LEMMA BudgetQuiet ==
  ASSUME KnownIInv, BudgetHeld, db' = db,
         \A v \in Writers : seen'[v] = seen[v] /\ read'[v] = read[v],
         \A v \in Writers :
           \/ stage'[v] = stage[v] /\ value'[v] = value[v]
           \/ stage[v] \in {"idle", "opening"} /\ stage'[v] \in {"idle", "opening"}
           \/ stage[v] = "writing" /\ stage'[v] = "rereading" /\ value'[v] = value[v]
           \/ stage[v] = "opening" /\ stage'[v] = "reading" /\ read[v] = {}
  PROVE  BudgetHeld'
  <1>1. Flying' = Flying
    BY DEF Flying
  <1>2. ASSUME NEW u \in Flying, NEW a \in SUBSET Writers, Fits(u, a)
        PROVE  Fits(u, a)'
    <2>1. /\ value'[u] = value[u]
          /\ \/ stage[u] = "reading" /\ stage'[u] = "reading"
                  /\ seen'[u] = seen[u] /\ read'[u] = read[u]
             \/ stage[u] # "reading" /\ stage'[u] # "reading"
      BY DEF Flying
    <2>2. db' \subseteq db OBVIOUS
    <2>. QED BY <1>2, <2>1, <2>2, FitsShrinks
  <1>. QED BY <1>1, <1>2, SameFlight

\* A put() reads its second store, or reads again: it has missed no more than before.
LEMMA BudgetReadsOn ==
  ASSUME KnownIInv, BudgetHeld, NEW w \in Flying, NEW s \in Stores, Read(w, s)
  PROVE  BudgetHeld'
  <1>1. /\ UNCHANGED <<db, stage, value>> /\ w \in Writers
        /\ seen'[w] = seen[w] \cup {r \in db : r.store = s}
        /\ read'[w] = read[w] \cup {s}
        /\ \A v \in Writers \ {w} : seen'[v] = seen[v] /\ read'[v] = read[v]
    BY KnownTypes DEF Read, Flying
  <1>2. Flying' = Flying
    BY <1>1 DEF Flying
  <1>3. ASSUME NEW u \in Flying, NEW a \in SUBSET Writers, Fits(u, a)
        PROVE  Fits(u, a)'
    <2>1. CASE u # w \/ stage[u] # "reading"
      <3>1. u \in Writers BY DEF Flying
      <3>2. \/ stage[u] = "reading" /\ stage'[u] = "reading"
                 /\ seen'[u] = seen[u] /\ read'[u] = read[u]
            \/ stage[u] # "reading" /\ stage'[u] # "reading"
        BY <1>1, <2>1, <3>1
      <3>3. db' \subseteq db /\ value'[u] = value[u] BY <1>1
      <3>. QED BY <1>3, <3>2, <3>3, FitsShrinks
    <2>2. CASE u = w /\ stage[u] = "reading"
      <3>1. Unread(w) \in SUBSET Rows /\ {} \in SUBSET Rows
        BY KnownTypes DEF Unread, Others, Without
      <3>2. Unread(w)' \in SUBSET (Unread(w) \cup {})
        BY <1>1 DEF Unread, Others, Without
      <3>3. Cardinality(Unread(w)) + Cardinality(a) <= Room
        BY <1>3, <2>2 DEF Fits
      <3>4. Cardinality({}) + Cardinality(a) <= Cardinality(a) BY OneRow, WritersCounted
      <3>5. Cardinality(Unread(w)') + Cardinality(a) <= Room
        BY <3>1, <3>2, <3>3, <3>4, RoomStays
      <3>. QED BY <1>1, <2>2, <3>5 DEF Fits
    <2>. QED BY <2>1, <2>2
  <1>. QED BY <1>1, <1>2, <1>3, SameFlight

\* A put() begins to read: all that have begun are ahead of it.
LEMMA BudgetReadsFirst ==
  ASSUME KnownIInv, BudgetHeld, NEW w \in Writers \ Flying, NEW s \in Stores, Read(w, s)
  PROVE  BudgetHeld'
  <1>1. PICK ahead \in [Writers -> SUBSET Flying], base \in SUBSET Flying : Ordered(ahead, base)
    BY DEF BudgetHeld
  <1>2. /\ stage[w] = "reading" /\ read[w] = {}
        /\ UNCHANGED <<db, stage, value>>
        /\ seen'[w] = seen[w] \cup {r \in db : r.store = s}
        /\ read'[w] = {s}
        /\ \A v \in Writers \ {w} : seen'[v] = seen[v] /\ read'[v] = read[v]
    BY KnownTypes DEF Read, Flying
  <1>3. Flying' = Flying \cup {w}
    BY <1>2 DEF Flying
  <1>a. PICK flight \in SUBSET Writers : flight = Flying
    BY KnownTypes
  <1>b. PICK next \in [Writers -> SUBSET (flight \cup {w})] : next = [ahead EXCEPT ![w] = flight]
    BY <1>a
  <1>4. next \in [Writers -> SUBSET Flying'] /\ base \in SUBSET Flying'
    BY <1>3, <1>a
  <1>5. next[w] = flight /\ \A v \in Flying : next[v] = ahead[v]
    BY <1>b, KnownTypes
  <1>6. \A v \in Flying : ahead[v] \subseteq Flying
    BY KnownTypes
  <1>7. InOrder(next)'
    <2>1. \A v \in Flying' : v \notin next[v]
      BY <1>1, <1>3, <1>5, <1>a DEF Ordered, InOrder
    <2>2. \A u, v \in Flying' : u # v => u \in next[v] \/ v \in next[u]
      BY <1>1, <1>3, <1>5, <1>a DEF Ordered, InOrder
    <2>3. \A u, v \in Flying' : u \in next[v] => next[u] \subseteq next[v]
      BY <1>1, <1>3, <1>5, <1>6, <1>a DEF Ordered, InOrder
    <2>. QED BY <2>1, <2>2, <2>3 DEF InOrder
  <1>8. Fits(w, flight)'
    <2>1. Unread(w)' = {}
      BY <1>2 DEF Unread, Others, Without
    <2>2. Cardinality(Unread(w)') = 0 BY <2>1, OneRow
    <2>3. Cardinality(flight) <= Room /\ Cardinality(flight) \in Nat
      BY <1>a, RoomForOthers, WritersCounted
    <2>4. Cardinality(Unread(w)') + Cardinality(flight) <= Room BY <2>2, <2>3
    <2>5. stage'[w] = "reading" BY <1>2
    <2>. QED BY <2>4, <2>5, <1>2 DEF Fits
  <1>9. ASSUME NEW u \in Flying' \ base
        PROVE  base \subseteq next[u] /\ Fits(u, next[u])'
    <2>1. CASE u = w
      BY <1>5, <1>8, <1>a, <2>1
    <2>2. CASE u # w
      <3>1. u \in Flying \ base BY <1>3, <2>2
      <3>2. base \subseteq ahead[u] /\ Fits(u, ahead[u]) BY <1>1, <3>1 DEF Ordered
      <3>3. /\ u \in Writers /\ ahead[u] \in SUBSET Writers
            /\ db' \subseteq db /\ value'[u] = value[u]
        BY <1>2, <1>6, <3>1, KnownTypes
      <3>4. Fits(u, ahead[u])' BY <1>2, <2>2, <3>1, <3>2, <3>3, FitsShrinks
      <3>. QED BY <1>5, <3>1, <3>2, <3>4
    <2>. QED BY <2>1, <2>2
  <1>10. BaseFits(base)'
    <2>1. base \in SUBSET Writers /\ {} \in SUBSET Rows /\ db' \subseteq db \cup {}
      BY <1>2, KnownTypes
    <2>2. Cardinality({}) + Cardinality(base) <= Cardinality(base)
      BY <2>1, OneRow, WritersCounted
    <2>. QED BY <1>1, <2>1, <2>2, KnownTypes, BaseStays DEF Ordered
  <1>11. Ordered(next, base)'
    BY <1>7, <1>9, <1>10 DEF Ordered
  <1>. QED BY <1>4, <1>11 DEF BudgetHeld

\* A put() evicts: of what it read it keeps what fits, and it missed what it missed.
LEMMA BudgetEvicts ==
  ASSUME KnownIInv, BudgetHeld, NEW w \in Writers, Evict(w) \/ EvictOldest(w)
  PROVE  BudgetHeld'
  <1>1. /\ db' \in SUBSET db /\ read[w] = Stores /\ UNCHANGED value
        /\ \E from \in {"reading", "rereading"}, to \in {"writing", "rewriting"} :
             stage[w] = from /\ stage' = [stage EXCEPT ![w] = to]
        /\ Forget(w)
    BY WithoutIsLess DEF Evict, EvictOldest
  <1>2. /\ stage'[w] \in {"writing", "rewriting"}
        /\ \A v \in Writers \ {w} :
             stage'[v] = stage[v] /\ seen'[v] = seen[v] /\ read'[v] = read[v]
    BY <1>1, KnownTypes DEF Forget
  <1>3. Flying' = Flying
    BY <1>1, <1>2 DEF Flying, Stores
  <1>4. ASSUME NEW u \in Flying, NEW a \in SUBSET Writers, Fits(u, a)
        PROVE  Fits(u, a)'
    <2>1. CASE u # w \/ stage[u] # "reading"
      <3>1. u \in Writers BY DEF Flying
      <3>2. \/ stage[u] = "reading" /\ stage'[u] = "reading"
                 /\ seen'[u] = seen[u] /\ read'[u] = read[u]
            \/ stage[u] # "reading" /\ stage'[u] # "reading"
        BY <1>2, <2>1, <3>1
      <3>3. db' \subseteq db /\ value'[u] = value[u] BY <1>1
      <3>. QED BY <1>4, <3>2, <3>3, FitsShrinks
    <2>2. CASE u = w /\ stage[u] = "reading"
      <3>1. /\ db' = Without(db, Doomed(seen[w], value[w]))
            /\ value[w] \in Rows /\ seen[w] \in SUBSET Rows /\ db \in SUBSET Rows
        BY <2>2, KnownTypes DEF Evict, EvictOldest
      <3>. DEFINE Kept == Without(seen[w], {value[w]}) \ Doomed(seen[w], value[w])
      <3>2. PICK C \in SUBSET Rows : C = Others(w)' \cap seen[w] BY <3>1
      <3>3. C \in SUBSET db' /\ C \in SUBSET Kept /\ Kept \in SUBSET Rows
        BY <1>1, <3>1, <3>2 DEF Others, Without, SameKey
      <3>4. Total(Kept) + value[w].size <= Limit BY <3>1, EvictionFits
      <3>. HIDE DEF Kept
      <3>5. Total(C) + value[w].size <= Limit
        <4>1. Total(C) <= Total(Kept) BY <3>3, TotalGrows
        <4>2. Total(C) \in Nat /\ Total(Kept) \in Nat BY <3>3, TotalTyped
        <4>3. value[w].size \in 1..Limit BY <3>1, TotalOfOne
        <4>. QED BY <3>4, <4>1, <4>2, <4>3, HistoryAssumption
      <3>6. Unread(w) \in SUBSET Rows /\ {} \in SUBSET Rows
        BY <3>1 DEF Unread, Others, Without
      <3>7. Others(w)' \ C \in SUBSET (Unread(w) \cup {})
        BY <1>1, <3>1, <3>2 DEF Unread, Others, Without, Rows
      <3>8. Cardinality(Unread(w)) + Cardinality(a) <= Room BY <1>4, <2>2 DEF Fits
      <3>9. Cardinality({}) + Cardinality(a) <= Cardinality(a) BY OneRow, WritersCounted
      <3>10. Cardinality(Others(w)' \ C) + Cardinality(a) <= Room
        BY <3>6, <3>7, <3>8, <3>9, RoomStays
      <3>11. value'[w] = value[w] /\ stage'[w] # "reading" BY <1>1, <1>2
      <3>. QED BY <2>2, <3>3, <3>5, <3>10, <3>11 DEF Fits
    <2>. QED BY <2>1, <2>2
  <1>5. db' \subseteq db BY <1>1
  <1>. QED BY <1>3, <1>4, <1>5, SameFlight

\* When a put() has settled, it is ahead of nobody.
Ahead(ahead, w) == [u \in Writers |-> ahead[u] \ {w}]

LEMMA LeavesInOrder ==
  ASSUME NEW ahead \in [Writers -> SUBSET Flying], NEW w \in Writers, InOrder(ahead),
         Flying \in SUBSET Writers, Flying' = Flying \ {w}
  PROVE  /\ Ahead(ahead, w) \in [Writers -> SUBSET Flying']
         /\ InOrder(Ahead(ahead, w))'
  <1>1. PICK next \in [Writers -> SUBSET Flying'] : next = Ahead(ahead, w)
    BY DEF Ahead
  <1>2. \A u \in Writers : next[u] = ahead[u] \ {w}
    BY <1>1 DEF Ahead
  <1>3. InOrder(next)'
    <2>1. \A v \in Flying' : v \notin next[v]
      BY <1>2 DEF InOrder
    <2>2. \A u, v \in Flying' : u # v => u \in next[v] \/ v \in next[u]
      BY <1>2 DEF InOrder
    <2>3. \A u, v \in Flying' : u \in next[v] => next[u] \subseteq next[v]
      BY <1>2 DEF InOrder
    <2>. QED BY <2>1, <2>2, <2>3 DEF InOrder
  <1>. QED BY <1>1, <1>3 DEF Ahead

\* A put() fails: nobody has less room.
LEMMA BudgetLeaves ==
  ASSUME KnownIInv, BudgetHeld, NEW w \in Writers, WriteNotCommitted(w) \/ StepFails(w)
  PROVE  BudgetHeld'
  <1>1. PICK ahead \in [Writers -> SUBSET Flying], base \in SUBSET Flying : Ordered(ahead, base)
    BY DEF BudgetHeld
  <1>2. UNCHANGED db /\ Forgotten(w)
    BY DEF WriteNotCommitted, StepFails, Rejected, Settle
  <1>3. /\ stage'[w] = "idle"
        /\ \A v \in Writers \ {w} :
             stage'[v] = stage[v] /\ value'[v] = value[v] /\ seen'[v] = seen[v] /\ read'[v] = read[v]
    BY <1>2, KnownTypes DEF Forgotten
  <1>4. Flying' = Flying \ {w}
    BY <1>3 DEF Flying
  <1>5. PICK next \in [Writers -> SUBSET Flying'] : next = Ahead(ahead, w) /\ InOrder(next)'
    <2>1. Ahead(ahead, w) \in [Writers -> SUBSET Flying'] /\ InOrder(Ahead(ahead, w))'
      BY <1>1, <1>4, KnownTypes, LeavesInOrder DEF Ordered
    <2>. QED BY <2>1 DEF Ahead
  <1>6. \A u \in Writers : next[u] = ahead[u] \ {w}
    BY <1>5 DEF Ahead
  <1>7. ASSUME NEW u \in Flying' \ (base \ {w})
        PROVE  base \ {w} \subseteq next[u] /\ Fits(u, next[u])'
    <2>1. u \in Flying \ base /\ u # w /\ u \in Writers BY <1>4, KnownTypes
    <2>2. base \subseteq ahead[u] /\ Fits(u, ahead[u]) BY <1>1, <2>1 DEF Ordered
    <2>3. /\ ahead[u] \in SUBSET Writers /\ next[u] \in SUBSET ahead[u]
          /\ {} \in SUBSET Rows /\ db \in SUBSET Rows /\ db' \subseteq db \cup {}
          /\ value[u] \in Rows
      BY <1>2, <1>6, <2>1, KnownTypes DEF Flying
    <2>4. Cardinality({}) + Cardinality(next[u]) <= Cardinality(ahead[u])
      BY <2>3, OneRow, FewerAhead, WritersCounted
    <2>5. \/ stage[u] = "reading" /\ stage'[u] = "reading"
               /\ seen'[u] = seen[u] /\ read'[u] = read[u]
          \/ stage[u] # "reading" /\ stage'[u] # "reading"
      BY <1>3, <2>1
    <2>6. value'[u] = value[u] /\ next[u] \in SUBSET Writers BY <1>3, <2>1, <2>3
    <2>7. Fits(u, next[u])' BY <2>1, <2>2, <2>3, <2>4, <2>5, <2>6, FitsStays
    <2>. QED BY <1>6, <2>1, <2>2, <2>7
  <1>8. BaseFits(base \ {w})'
    <2>1. /\ base \in SUBSET Writers /\ base \ {w} \in SUBSET Writers
          /\ {} \in SUBSET Rows /\ db \in SUBSET Rows /\ db' \subseteq db \cup {}
      BY <1>2, KnownTypes
    <2>2. Cardinality({}) + Cardinality(base \ {w}) <= Cardinality(base)
      BY <2>1, OneRow, FewerAhead, WritersCounted
    <2>. QED BY <1>1, <2>1, <2>2, BaseStays DEF Ordered
  <1>9. Ordered(next, base \ {w})'
    BY <1>5, <1>7, <1>8 DEF Ordered
  <1>. QED BY <1>4, <1>9 DEF BudgetHeld

\* A put() writes: whoever it was ahead of has one row more and one put() less to make room for,
\* and if nobody had overtaken it, those ahead of it are now all that can exceed the budget.
LEMMA BudgetWrites ==
  ASSUME KnownIInv, BudgetHeld, NEW w \in Writers, Write(w)
  PROVE  BudgetHeld'
  <1>1. PICK ahead \in [Writers -> SUBSET Flying], base \in SUBSET Flying : Ordered(ahead, base)
    BY DEF BudgetHeld
  <1>2. db' = Others(w) \cup {value[w]} /\ Forgotten(w) /\ stage[w] \in {"writing", "rewriting"}
    BY DEF Write, Settle, Stored, Others
  <1>3. /\ stage'[w] = "idle"
        /\ \A v \in Writers \ {w} :
             stage'[v] = stage[v] /\ value'[v] = value[v] /\ seen'[v] = seen[v] /\ read'[v] = read[v]
    BY <1>2, KnownTypes DEF Forgotten
  <1>4. w \in Flying /\ Flying' = Flying \ {w}
    BY <1>2, <1>3 DEF Flying
  <1>5. PICK next \in [Writers -> SUBSET Flying'] : next = Ahead(ahead, w) /\ InOrder(next)'
    <2>1. Ahead(ahead, w) \in [Writers -> SUBSET Flying'] /\ InOrder(Ahead(ahead, w))'
      BY <1>1, <1>4, KnownTypes, LeavesInOrder DEF Ordered
    <2>. QED BY <2>1 DEF Ahead
  <1>6. \A u \in Writers : next[u] = ahead[u] \ {w}
    BY <1>5 DEF Ahead
  <1>7. /\ value[w] \in Rows /\ db \in SUBSET Rows /\ Others(w) \in SUBSET db
    BY <1>2, KnownTypes, WithoutIsLess DEF Others
  <1>8. PICK row \in Rows : row = value[w]
    BY <1>7
  <1>9. /\ {row} \in SUBSET Rows /\ db' \subseteq db \cup {row} /\ Cardinality({row}) = 1
    BY <1>2, <1>7, <1>8, OneRow
  <1>10. ASSUME NEW u \in Flying \ base, w \in ahead[u], u # w
         PROVE  Fits(u, next[u])'
    <2>1. Fits(u, ahead[u]) /\ u \in Writers /\ value[u] \in Rows
      BY <1>1, <1>10, KnownTypes DEF Ordered, Flying
    <2>2. /\ ahead[u] \in SUBSET Writers /\ next[u] \in SUBSET Writers
      BY <1>6, <2>1, KnownTypes
    <2>3. Cardinality({row}) + Cardinality(next[u]) <= Cardinality(ahead[u])
      <3>1. next[u] = ahead[u] \ {w} BY <1>6, <2>1
      <3>2. Cardinality(ahead[u] \ {w}) + 1 = Cardinality(ahead[u]) BY <1>10, <2>2, OneLess
      <3>. QED BY <1>9, <2>2, <3>1, <3>2, WritersCounted
    <2>4. \/ stage[u] = "reading" /\ stage'[u] = "reading"
               /\ seen'[u] = seen[u] /\ read'[u] = read[u]
          \/ stage[u] # "reading" /\ stage'[u] # "reading"
      BY <1>3, <1>10, <2>1
    <2>5. value'[u] = value[u] BY <1>3, <1>10, <2>1
    <2>. QED BY <1>7, <1>9, <2>1, <2>2, <2>3, <2>4, <2>5, FitsStays
  <1>11. CASE w \in base
    <2>1. ASSUME NEW u \in Flying' \ (base \ {w})
          PROVE  base \ {w} \subseteq next[u] /\ Fits(u, next[u])'
      <3>1. u \in Flying \ base /\ u # w /\ u \in Writers BY <1>4, <1>11, KnownTypes
      <3>2. base \subseteq ahead[u] BY <1>1, <3>1 DEF Ordered
      <3>. QED BY <1>6, <1>10, <1>11, <3>1, <3>2
    <2>2. BaseFits(base \ {w})'
      <3>1. base \in SUBSET Writers /\ base \ {w} \in SUBSET Writers BY KnownTypes
      <3>2. Cardinality({row}) + Cardinality(base \ {w}) <= Cardinality(base)
        BY <1>9, <1>11, <3>1, OneLess, WritersCounted
      <3>3. BaseFits(base) BY <1>1 DEF Ordered
      <3>. QED BY <1>7, <1>9, <3>1, <3>2, <3>3, BaseStays
    <2>3. Ordered(next, base \ {w})'
      BY <1>5, <2>1, <2>2 DEF Ordered
    <2>. QED BY <1>4, <2>3 DEF BudgetHeld
  <1>12. CASE w \notin base
    <2>1. PICK before \in SUBSET Flying' : before = ahead[w]
      BY <1>1, <1>4, KnownTypes DEF Ordered, InOrder
    <2>2. base \subseteq before /\ Fits(w, before)
      BY <1>1, <1>4, <1>12, <2>1 DEF Ordered
    <2>3. ASSUME NEW u \in Flying' \ before
          PROVE  before \subseteq next[u] /\ Fits(u, next[u])'
      <3>1. u \in Flying \ base /\ u # w /\ u \in Writers /\ u \notin ahead[w]
        BY <1>4, <2>1, <2>2, KnownTypes
      <3>2. w \in ahead[u] BY <1>1, <1>4, <3>1 DEF Ordered, InOrder
      <3>3. ahead[w] \subseteq ahead[u] /\ w \notin ahead[w]
        BY <1>1, <1>4, <3>1, <3>2 DEF Ordered, InOrder
      <3>. QED BY <1>6, <1>10, <2>1, <3>1, <3>2, <3>3
    <2>4. BaseFits(before)'
      <3>1. PICK C \in SUBSET db : /\ Total(C) + value[w].size <= Limit
                                   /\ Cardinality(Others(w) \ C) + Cardinality(before) <= Room
        BY <1>2, <2>2 DEF Fits
      <3>2. PICK K \in SUBSET Rows : K = C \cap Others(w)
        BY <1>7
      <3>3. K \cup {row} \in SUBSET db' /\ K \in SUBSET C /\ C \in SUBSET Rows
        BY <1>2, <1>7, <1>8, <3>2
      <3>4. Total(K \cup {row}) <= Limit
        <4>1. Total(K \cup {row}) <= Total(K) + Total({row}) BY <1>9, <3>2, TotalOfUnion
        <4>2. Total(K) <= Total(C) BY <3>3, TotalGrows
        <4>3. Total({row}) = row.size /\ row.size \in 1..Limit BY TotalOfOne
        <4>4. Total(K) \in Nat /\ Total(C) \in Nat /\ Total(K \cup {row}) \in Nat
          <5>1. K \cup {row} \in SUBSET Rows BY <1>9
          <5>. QED BY <3>3, <5>1, TotalTyped
        <4>. QED BY <1>8, <3>1, <4>1, <4>2, <4>3, <4>4, HistoryAssumption
      <3>5. Cardinality(db' \ (K \cup {row})) + Cardinality(before) <= Room
        <4>1. before \in SUBSET Writers /\ {} \in SUBSET Rows /\ Others(w) \ C \in SUBSET Rows
          BY <1>4, <1>7, KnownTypes
        <4>2. db' \ (K \cup {row}) \in SUBSET ((Others(w) \ C) \cup {})
          BY <1>2, <1>8, <3>2
        <4>3. Cardinality({}) + Cardinality(before) <= Cardinality(before)
          BY <4>1, OneRow, WritersCounted
        <4>. QED BY <3>1, <4>1, <4>2, <4>3, RoomStays
      <3>. QED BY <3>3, <3>4, <3>5 DEF BaseFits
    <2>5. Ordered(next, before)'
      BY <1>5, <2>3, <2>4 DEF Ordered
    <2>. QED BY <2>5 DEF BudgetHeld
  <1>. QED BY <1>11, <1>12

\* Nobody works on the rows and there are none.
LEMMA BudgetOfNone == db = {} /\ Flying = {} => BudgetHeld
  <1>. SUFFICES ASSUME db = {}, Flying = {} PROVE BudgetHeld
    OBVIOUS
  <1>1. PICK ahead \in [Writers -> SUBSET {}] : TRUE
    <2>1. [w \in Writers |-> {}] \in [Writers -> SUBSET {}] OBVIOUS
    <2>. QED BY <2>1
  <1>2. BaseFits({})
    <2>1. db \ {} = {} /\ {} \in SUBSET db OBVIOUS
    <2>2. Total({}) <= Limit /\ Cardinality(db \ {}) + Cardinality({}) <= Room
      BY <2>1, TotalAddsUp, OneRow, RoomIsNat, HistoryAssumption
    <2>. QED BY <2>1, <2>2 DEF BaseFits
  <1>3. InOrder(ahead) BY DEF InOrder
  <1>4. Ordered(ahead, {}) BY <1>2, <1>3 DEF Ordered
  <1>. QED BY <1>1, <1>4 DEF BudgetHeld

LEMMA BudgetCleared ==
  ASSUME KnownIInv, Cleared
  PROVE  BudgetHeld'
  <1>1. db' = {} /\ Flying' = {} BY ClearedAlone DEF Flying
  <1>2. (db = {} /\ Flying = {})' => BudgetHeld'
    BY BudgetOfNone, PTL
  <1>. QED BY <1>1, <1>2

LEMMA StepKeepsBudget == BudgetIInv /\ [Next]_vars => BudgetIInv'
  <1>. SUFFICES ASSUME KnownIInv, BudgetHeld, [Next]_vars PROVE BudgetHeld'
    BY StepKeepsKnown DEF BudgetIInv
  <1>1. ASSUME NEW w \in Writers, Put(w) \/ WriteFails(w) \/ Refuse(w)
        PROVE  BudgetHeld'
    BY <1>1, QuietPut, BudgetQuiet
  <1>2. ASSUME NEW w \in Writers, NEW s \in Stores, Read(w, s)
        PROVE  BudgetHeld'
    BY <1>2, BudgetReadsOn, BudgetReadsFirst
  <1>3. ASSUME NEW w \in Writers, Connect(w)
        PROVE  BudgetHeld'
    <2>1. stage[w] = "opening"
      BY <1>3, QueueTail DEF KnownIInv, HistoryIInv, TypeOK, QueueExact, Connect, Callers
    <2>2. /\ read[w] = {} /\ stage' = [stage EXCEPT ![w] = "reading"]
          /\ UNCHANGED <<db, value, seen, read>>
      BY <1>3, <2>1 DEF KnownIInv, Reads, Connect
    <2>3. \A v \in Writers : v # w => stage'[v] = stage[v]
      BY <2>2, KnownTypes
    <2>4. stage'[w] = "reading"
      BY <2>2, KnownTypes
    <2>. QED BY <2>1, <2>2, <2>3, <2>4, BudgetQuiet
  <1>4. ASSUME NEW w \in Writers,
               Evict(w) \/ EvictOldest(w) \/ Write(w) \/ WriteNotCommitted(w) \/ StepFails(w)
        PROVE  BudgetHeld'
    BY <1>4, BudgetEvicts, BudgetWrites, BudgetLeaves
  <1>5. CASE \/ Show \/ ConnectList \/ ListRead \/ Listed \/ ListFails
             \/ Clear \/ ClearFails \/ UNCHANGED vars
    BY <1>5, QuietPage, BudgetQuiet
  <1>6. CASE Cleared
    BY <1>6, BudgetCleared
  <1>. QED BY <1>1, <1>2, <1>3, <1>4, <1>5, <1>6 DEF Next, Steps

\* The budget is held by an order among the put()s under way: each makes room for all but one
\* row of every one ahead of it, however their reads, deletions and writes overlap
\* (database.ts:69-87, 93-107).
THEOREM BudgetInductive == Spec => []BudgetIInv
  <1>1. Init => KnownIInv
    BY InitHistory DEF Init, KnownIInv, Reads, KeysUnique, StillThere, Undisturbed
  <1>2. Init => BudgetHeld
    <2>1. Init => db = {} /\ Flying = {}
      BY DEF Init, Flying
    <2>. QED BY <2>1, BudgetOfNone
  <1>3. Init => BudgetIInv
    BY <1>1, <1>2 DEF BudgetIInv
  <1>. QED BY <1>3, StepKeepsBudget, PTL DEF Spec

LEMMA BudgetBounds ==
  ASSUME KnownIInv, BudgetHeld
  PROVE  OvershootIsBounded
  <1>. DEFINE M == Max(Sizes)
  <1>1. PICK base \in SUBSET Flying : BaseFits(base)
    BY DEF BudgetHeld, Ordered
  <1>2. PICK C \in SUBSET db : Total(C) <= Limit /\ Cardinality(db \ C) + Cardinality(base) <= Room
    BY <1>1 DEF BaseFits
  <1>3. C \in SUBSET Rows /\ db \ C \in SUBSET Rows /\ C \cup (db \ C) = db
    BY KnownTypes
  <1>4. Cardinality(db \ C) \in Nat /\ Cardinality(db \ C) <= Room
    <2>1. Cardinality(db \ C) \in Nat BY <1>3, TotalTyped
    <2>2. base \in SUBSET Writers BY KnownTypes
    <2>3. Cardinality(base) \in Nat BY <2>2, WritersCounted
    <2>. QED BY <1>2, <2>1, <2>3, RoomIsNat
  <1>5. Total(db \ C) <= Cardinality(db \ C) * M
    BY <1>3, TotalBounded
  <1>6. Total(db) <= Total(C) + Total(db \ C)
    BY <1>3, TotalOfUnion
  <1>7. M \in Nat /\ Total(C) \in Nat /\ Total(db \ C) \in Nat /\ Total(db) \in Nat
    <2>1. M \in 1..Limit BY LargestSize
    <2>2. db \in SUBSET Rows BY KnownTypes
    <2>. QED BY <1>3, <2>1, <2>2, TotalTyped, HistoryAssumption
  <1>. HIDE DEF M
  <1>8. Cardinality(db \ C) * M <= Room * M
    <2>1. \A a, b, c \in Nat : a <= b => a * c <= b * c
      OBVIOUS
    <2>. QED BY <1>4, <1>7, <2>1, RoomIsNat
  <1>9. Cardinality(db \ C) * M \in Nat /\ Room * M \in Nat
    BY <1>4, <1>7, RoomIsNat
  <1>10. Total(db) <= Limit + Room * M
    BY <1>2, <1>5, <1>6, <1>7, <1>8, <1>9, HistoryAssumption
  <1>. QED BY <1>10 DEF OvershootIsBounded, Room, M

\* However many put()s overlap, and whatever their values, the store exceeds the budget by
\* no more than one value for each of the others (database.ts:69-87, 93-107).
THEOREM HistoryAlwaysBounded == Spec => []HistoryInv
  <1>1. BudgetIInv => HistoryInv
    BY BudgetBounds DEF BudgetIInv, KnownIInv, HistoryIInv, HistoryInv
  <1>. QED BY <1>1, BudgetInductive, PTL

LEMMA UndisturbedStep ==
  ASSUME KnownIInv, NEW w \in Writers, w \notin raced
  PROVE  /\ Write(w) => Total(db') <= Limit
         /\ Evict(w) => \A r \in db \ db' :
              Total({q \in Without(db, {value[w]}) : ~ Older(q, r)}) + value[w].size > Limit
  <1>1. ASSUME Write(w) PROVE Total(db') <= Limit
    <2>1. /\ db' = Others(w) \cup {value[w]} /\ value[w] \in Rows
          /\ stage[w] \in {"writing", "rewriting"}
      BY <1>1, KnownTypes DEF Write, Stored, Others
    <2>2. Total(Others(w)) + value[w].size <= Limit
      BY <2>1 DEF KnownIInv, Undisturbed
    <2>3. Others(w) \in SUBSET Rows /\ {value[w]} \in SUBSET Rows
      BY <2>1, KnownTypes DEF Others, Without
    <2>4. Total(db') <= Total(Others(w)) + Total({value[w]})
      BY <2>1, <2>3, TotalOfUnion
    <2>5. Total({value[w]}) = value[w].size
      BY <2>1, TotalOfOne
    <2>6. /\ Total(db') \in Nat /\ Total(Others(w)) \in Nat /\ value[w].size \in 1..Limit
      <3>1. db' \in SUBSET Rows BY <2>1, <2>3
      <3>. QED BY <2>1, <2>3, <3>1, TotalTyped, TotalOfOne
    <2>. QED BY <2>2, <2>4, <2>5, <2>6, HistoryAssumption
  <1>2. ASSUME Evict(w), NEW r \in db \ db'
        PROVE  Total({q \in Without(db, {value[w]}) : ~ Older(q, r)}) + value[w].size > Limit
    <2>1. seen[w] = db
      <3>1. seen[w] = {q \in db : q.store \in Stores}
        BY <1>2 DEF KnownIInv, Undisturbed, Evict
      <3>. QED BY <3>1, KnownTypes DEF Rows
    <2>2. PICK q \in Doomed(db, value[w]) : SameKey(r, q)
      BY <1>2, <2>1 DEF Evict, Without
    <2>3. q \in db BY <2>2 DEF Doomed, Without
    <2>4. r = q BY <2>2, <2>3 DEF KnownIInv, KeysUnique
    <2>. QED BY <2>2, <2>4 DEF Doomed
  <1>. QED BY <1>1, <1>2

\* Every put() that no other one disturbed writes within the budget, and evicts no row that
\* would have fitted (database.ts:72-86).
THEOREM UndisturbedAlwaysFits == Spec => UndisturbedFits
  <1>1. KnownIInv /\ [Next]_vars =>
          [\A w \in Writers : w \notin raced =>
             /\ Write(w) => Total(db') <= Limit
             /\ Evict(w) => \A r \in db \ db' :
                  Total({q \in Without(db, {value[w]}) : ~ Older(q, r)}) + value[w].size > Limit]_vars
    BY UndisturbedStep
  <1>. QED BY <1>1, KnownInductive, PTL DEF Spec, UndisturbedFits

LEMMA OldestFirstStep ==
  ASSUME KnownIInv, NEW w \in Writers, Evict(w) \/ EvictOldest(w),
         NEW gone \in db \ db', NEW kept \in db' \cap there[w], Older(kept, gone)
  PROVE  SameKey(kept, value[w])
  <1>1. /\ stage[w] \in {"reading", "rereading"} /\ read[w] = Stores
        /\ seen[w] \in SUBSET Rows /\ value[w] \in Rows /\ gone \in Rows /\ kept \in Rows
    BY KnownTypes DEF KnownIInv, StillThere, Evict, EvictOldest
  <1>2. kept \in seen[w] BY <1>1 DEF KnownIInv, StillThere, Rows
  <1>3. CASE Evict(w)
    <2>1. PICK q \in Doomed(seen[w], value[w]) : SameKey(gone, q)
      BY <1>3 DEF Evict, Without
    <2>2. Older(kept, q) BY <2>1 DEF Older, SameKey
    <2>3. ASSUME ~ SameKey(kept, value[w]) PROVE FALSE
      <3>1. kept \in Without(seen[w], {value[w]}) BY <1>2, <2>3 DEF Without
      <3>2. kept \in Doomed(seen[w], value[w]) BY <1>1, <2>1, <2>2, <3>1, EvictionByAge
      <3>. QED BY <1>3, <3>2 DEF Evict, Without, SameKey
    <2>. QED BY <2>3
  <1>4. CASE EvictOldest(w)
    <2>1. PICK q \in Oldest(seen[w]) : SameKey(gone, q)
      BY <1>4 DEF EvictOldest, Without
    <2>2. Older(kept, q) BY <2>1 DEF Older, SameKey
    <2>. QED BY <1>2, <2>1, <2>2 DEF Oldest
  <1>. QED BY <1>3, <1>4

\* The budget is shared by age alone, whatever others delete and write between the reading and
\* the deletion (database.ts:82, 89).
THEOREM AlwaysOldestFirst == Spec => OldestFirst
  <1>1. KnownIInv /\ [Next]_vars =>
          [\A w \in Writers : Evict(w) \/ EvictOldest(w) =>
             \A gone \in db \ db', kept \in db' \cap there[w] :
               Older(kept, gone) => SameKey(kept, value[w])]_vars
    BY OldestFirstStep
  <1>. QED BY <1>1, KnownInductive, PTL DEF Spec, OldestFirst
=============================================================================
