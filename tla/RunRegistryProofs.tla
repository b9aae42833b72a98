------------------------- MODULE RunRegistryProofs -------------------------
(***************************************************************************)
(* Proofs about RunRegistry, for every number of runs, sessions, requests  *)
(* and every limit.  RegistryInv is inductive; the invariants and the      *)
(* action properties follow from it.                                       *)
(***************************************************************************)
EXTENDS RunRegistry, FiniteSetTheorems, TLAPS

-----------------------------------------------------------------------------
(* Sets of streams are finite, and so are the registry's runs.             *)

\* The handlers that hold or use a run are finitely many (Streams is).
LEMMA HandlersFinite ==
  ASSUME NEW r
  PROVE  /\ IsFiniteSet(Holding(r)) /\ Cardinality(Holding(r)) \in Nat
         /\ IsFiniteSet(Using(r)) /\ Cardinality(Using(r)) \in Nat
  <1>1. Holding(r) \in SUBSET Streams /\ Using(r) \in SUBSET Streams
    BY DEF Holding, Using
  <1>. QED BY <1>1, FS_Subset, FS_CardinalityType, RegistryAssumption

\* A part of the registry is finite and no larger than the registry.
LEMMA PartOfRuns ==
  ASSUME NEW R \in SUBSET Runs, NEW Q \in SUBSET R
  PROVE  /\ IsFiniteSet(R) /\ IsFiniteSet(Q)
         /\ Cardinality(R) \in Nat /\ Cardinality(Q) \in Nat
         /\ Cardinality(Q) <= Cardinality(R)
  <1>1. IsFiniteSet(R) BY FS_Subset, RegistryAssumption
  <1>. QED BY <1>1, FS_Subset, FS_CardinalityType

\* One more element makes a set at most one larger.
LEMMA OneMore ==
  ASSUME NEW S, NEW x, IsFiniteSet(S), NEW n \in Nat, Cardinality(S) < n
  PROVE  Cardinality(S \cup {x}) <= n
  <1>1. Cardinality(S) \in Nat BY FS_CardinalityType
  <1>2. CASE x \in S
    <2>1. S \cup {x} = S BY <1>2
    <2>. QED BY <1>1, <2>1
  <1>3. CASE x \notin S
    <2>1. Cardinality(S \cup {x}) = Cardinality(S) + 1 BY <1>3, FS_AddElement
    <2>. QED BY <1>1, <2>1
  <1>. QED BY <1>2, <1>3

\* Removing runs keeps the registry within its bounds, for every session.
LEMMA FewerRunsFit ==
  ASSUME TypeOK, CapacityBound, NEW R \in SUBSET runs
  PROVE  /\ Cardinality(R) <= MaxRuns
         /\ \A o \in Owners : Cardinality(OwnedBy(o, R)) <= PerOwner
  <1>1. runs \in SUBSET Runs BY DEF TypeOK
  <1>2. Cardinality(R) <= MaxRuns
    BY <1>1, PartOfRuns, RegistryAssumption DEF CapacityBound
  <1>3. ASSUME NEW o \in Owners PROVE Cardinality(OwnedBy(o, R)) <= PerOwner
    <2>1. OwnedBy(o, R) \in SUBSET OwnedBy(o, runs) /\ OwnedBy(o, runs) \in SUBSET Runs
      BY <1>1 DEF OwnedBy
    <2>. QED BY <2>1, PartOfRuns, RegistryAssumption DEF CapacityBound
  <1>. QED BY <1>2, <1>3

\* Granting a run when Create finds room keeps the registry within its bounds.
LEMMA GrantFits ==
  ASSUME TypeOK, CapacityBound, NEW R \in SUBSET runs, NEW o \in Owners,
         NEW r \in Runs, owner[r] = NoOwner, ~ Full(o, R),
         runs' = R \cup {r}, owner' = [owner EXCEPT ![r] = o]
  PROVE  CapacityBound'
  <1>1. R \in SUBSET Runs /\ owner \in [Runs -> Owners \cup {NoOwner}] BY DEF TypeOK
  <1>2. IsFiniteSet(R) /\ Cardinality(R) \in Nat BY <1>1, PartOfRuns
  <1>3. Cardinality(R) < MaxRuns /\ Cardinality(OwnedBy(o, R)) < PerOwner
    <2>1. OwnedBy(o, R) \in SUBSET R BY DEF OwnedBy
    <2>. QED BY <1>1, <1>2, <2>1, PartOfRuns, RegistryAssumption DEF Full
  <1>4. Cardinality(R \cup {r}) <= MaxRuns
    BY <1>2, <1>3, OneMore, RegistryAssumption
  <1>5. ASSUME NEW p \in Owners PROVE Cardinality(OwnedBy(p, runs)') <= PerOwner
    <2>1. CASE p = o
      <3>1. OwnedBy(o, runs)' = OwnedBy(o, R) \cup {r} BY <1>1, <2>1 DEF OwnedBy
      <3>2. IsFiniteSet(OwnedBy(o, R)) /\ Cardinality(OwnedBy(o, R)) \in Nat
        <4>1. OwnedBy(o, R) \in SUBSET R BY DEF OwnedBy
        <4>. QED BY <1>1, <4>1, PartOfRuns
      <3>. QED BY <2>1, <3>1, <3>2, <1>3, OneMore, RegistryAssumption
    <2>2. CASE p # o
      <3>1. OwnedBy(p, runs)' = OwnedBy(p, R) BY <1>1, <2>2, RegistryAssumption DEF OwnedBy
      <3>. QED BY <3>1, FewerRunsFit
    <2>. QED BY <2>1, <2>2
  <1>. QED BY <1>4, <1>5 DEF CapacityBound

-----------------------------------------------------------------------------
(* The two halves of the accounting.                                       *)

\* A step that moves no handler between the stages that count keeps the accounting.
LEMMA AccountingKept ==
  ASSUME AccountingExact, UNCHANGED countVars,
         \A r \in Runs : Holding(r)' = Holding(r) /\ Using(r)' = Using(r)
  PROVE  AccountingExact'
  BY DEF AccountingExact, countVars

\* A handler that counts makes both counters positive.
LEMMA CountedPositive ==
  ASSUME TypeOK, AccountingExact, NEW s \in Streams, uses[s] \in Runs
  PROVE  /\ stage[s] = "holding" => slots[uses[s]] > 0
         /\ stage[s] \in {"holding", "releasing"} => active[uses[s]] > 0
  <1>. DEFINE r == uses[s]
  <1>1. stage[s] = "holding" => slots[r] > 0
    <2>1. stage[s] = "holding" => s \in Holding(r) BY DEF Holding
    <2>2. slots[r] = Cardinality(Holding(r)) BY DEF AccountingExact
    <2>. QED BY <2>1, <2>2, HandlersFinite, FS_EmptySet
  <1>2. stage[s] \in {"holding", "releasing"} => active[r] > 0
    <2>1. stage[s] \in {"holding", "releasing"} => s \in Using(r) BY DEF Using
    <2>2. active[r] = Cardinality(Using(r)) BY DEF AccountingExact
    <2>. QED BY <2>1, <2>2, HandlersFinite, FS_EmptySet
  <1>. QED BY <1>1, <1>2

-----------------------------------------------------------------------------
(* Every step preserves RegistryInv.                                       *)

\* The parts of RegistryInv about runs, closing and draining.
RunsInv ==
  /\ DrainIsFinal
  /\ FreshIsNowhere
  /\ LeavesOnlyDrained
  /\ closed \subseteq ctxDone

\* cleanupLocked removes drained runs only: whatever of them it found drained
\* meanwhile was closed by it and empty.
LEMMA CleanupKeepsRuns ==
  ASSUME RegistryInv, NEW D \in DrainedMeanwhile, Cleanup(D), runs' = Kept(D),
         UNCHANGED <<owner, expired, active>>
  PROVE  RunsInv' /\ Kept(D) \in SUBSET runs
                  /\ {closed', ctxDone', drained'} \subseteq SUBSET Runs
  <1>1. /\ D \subseteq Stale /\ Stale \subseteq runs /\ runs \subseteq Runs
        /\ \A r \in D : active[r] = 0
    BY DEF DrainedMeanwhile, Stale, RegistryInv, TypeOK
  <1>2. DrainIsFinal'
    BY <1>1 DEF RegistryInv, TypeOK, DrainIsFinal, Cleanup, BeginClose
  <1>3. FreshIsNowhere'
    BY <1>1 DEF RegistryInv, FreshIsNowhere, Cleanup, BeginClose, Kept
  <1>4. LeavesOnlyDrained'
    BY <1>1 DEF RegistryInv, LeavesOnlyDrained, Cleanup, BeginClose, Kept
  <1>5. (closed \subseteq ctxDone)'
    BY DEF RegistryInv, Cleanup, BeginClose
  <1>6. Kept(D) \in SUBSET runs /\ {closed', ctxDone', drained'} \subseteq SUBSET Runs
    BY <1>1 DEF RegistryInv, TypeOK, Cleanup, BeginClose, Kept
  <1>. QED BY <1>2, <1>3, <1>4, <1>5, <1>6 DEF RunsInv

\* A step that leaves the streams alone and only removes runs has to answer for the
\* types and for RunsInv.
LEMMA QuietStep ==
  ASSUME RegistryInv, UNCHANGED <<owner, countVars, streamVars>>, runs' \in SUBSET runs,
         TypeOK', RunsInv'
  PROVE  RegistryInv'
  <1>1. CapacityBound'
    <2>1. \A o \in Owners : OwnedBy(o, runs)' = OwnedBy(o, runs') BY DEF OwnedBy
    <2>. QED BY <2>1, FewerRunsFit DEF RegistryInv, CapacityBound
  <1>2. AccountingExact'
    <2>1. \A r \in Runs : Holding(r)' = Holding(r) /\ Using(r)' = Using(r)
      BY DEF Holding, Using, streamVars
    <2>. QED BY <2>1, AccountingKept DEF RegistryInv, countVars
  <1>3. HandlersUseRuns' BY DEF RegistryInv, HandlersUseRuns, streamVars
  <1>. QED BY <1>1, <1>2, <1>3 DEF RegistryInv, RunsInv

\* A step of a streaming handler changes neither the runs nor their closing.
LEMMA StreamStep ==
  ASSUME RegistryInv, UNCHANGED <<runVars, closeVars>>,
         NEW s \in Streams, NEW st \in {"idle", "holding", "releasing"}, NEW u,
         stage[s] # "idle",
         stage' = [stage EXCEPT ![s] = st], uses' = [uses EXCEPT ![s] = u],
         IF st = "idle" THEN u = NoRun ELSE u = uses[s],
         slots' \in [Runs -> Nat], active' \in [Runs -> Nat],
         AccountingExact', \A r \in closed : active'[r] <= active[r]
  PROVE  RegistryInv'
  <1>. USE DEF runVars, closeVars
  <1>1. TypeOK' BY DEF RegistryInv, TypeOK
  <1>2. CapacityBound' BY DEF RegistryInv, CapacityBound, OwnedBy
  <1>3. DrainIsFinal'
    <2>1. ASSUME NEW r \in drained PROVE r \in closed /\ active'[r] = 0
      <3>1. r \in Runs /\ r \in closed /\ active[r] = 0
        BY DEF RegistryInv, TypeOK, DrainIsFinal
      <3>. QED BY <3>1
    <2>. QED BY <2>1 DEF DrainIsFinal
  <1>4. FreshIsNowhere' /\ LeavesOnlyDrained' /\ (closed \subseteq ctxDone)'
    BY DEF RegistryInv, FreshIsNowhere, LeavesOnlyDrained
  <1>5. HandlersUseRuns' BY DEF RegistryInv, TypeOK, HandlersUseRuns
  <1>. QED BY <1>1, <1>2, <1>3, <1>4, <1>5 DEF RegistryInv

\* Acquire counts the handler in both counters at once, and only in an open run.
LEMMA AcquireKeeps ==
  ASSUME RegistryInv, NEW s \in Streams, Acquire(s)
  PROVE  RegistryInv' /\ \A r \in closed : active'[r] <= active[r]
  <1>0. PICK r \in Runs : r = uses[s]
    BY DEF RegistryInv, HandlersUseRuns, Acquire
  <1>1. TypeOK /\ AccountingExact /\ r \notin closed /\ slots[r] < MaxStreams
    BY <1>0 DEF RegistryInv, Acquire
  <1>2. slots' \in [Runs -> Nat] /\ active' \in [Runs -> Nat]
    BY <1>0, <1>1 DEF TypeOK, Acquire
  <1>3. AccountingExact'
    <2>1. ASSUME NEW q \in Runs, q # r
          PROVE  Holding(q)' = Holding(q) /\ Using(q)' = Using(q)
                 /\ slots'[q] = slots[q] /\ active'[q] = active[q]
      BY <1>0, <1>1, <2>1 DEF TypeOK, Acquire, Holding, Using
    <2>2. /\ Holding(r)' = Holding(r) \cup {s} /\ s \notin Holding(r)
          /\ Using(r)' = Using(r) \cup {s} /\ s \notin Using(r)
          /\ slots'[r] = slots[r] + 1 /\ active'[r] = active[r] + 1
      BY <1>0, <1>1 DEF TypeOK, Acquire, Holding, Using
    <2>3. /\ Cardinality(Holding(r)') = Cardinality(Holding(r)) + 1
          /\ Cardinality(Using(r)') = Cardinality(Using(r)) + 1
      BY <2>2, HandlersFinite, FS_AddElement
    <2>4. slots'[r] <= MaxStreams BY <1>0, <1>1, <2>2, RegistryAssumption DEF TypeOK
    <2>5. slots'[r] = Cardinality(Holding(r)') /\ active'[r] = Cardinality(Using(r)')
      BY <1>0, <1>1, <2>2, <2>3 DEF AccountingExact
    <2>. QED BY <1>0, <1>1, <2>1, <2>4, <2>5 DEF AccountingExact
  <1>4. \A q \in closed : active'[q] <= active[q]
    BY <1>0, <1>1 DEF TypeOK, Acquire
  <1>5. RegistryInv'
    <2>1. stage' = [stage EXCEPT ![s] = "holding"] /\ uses' = [uses EXCEPT ![s] = uses[s]]
          /\ stage[s] # "idle" /\ UNCHANGED <<runVars, closeVars>>
      BY <1>0, <1>1 DEF TypeOK, Acquire
    <2>. QED BY <1>2, <1>3, <1>4, <2>1, StreamStep
  <1>. QED BY <1>4, <1>5

\* A refused handler was counted nowhere.
LEMMA AcquireRefusedKeeps ==
  ASSUME RegistryInv, NEW s \in Streams, AcquireRefused(s)
  PROVE  RegistryInv'
  <1>1. AccountingExact'
    <2>1. \A r \in Runs : Holding(r)' = Holding(r) /\ Using(r)' = Using(r)
      BY DEF RegistryInv, TypeOK, AcquireRefused, Holding, Using
    <2>. QED BY <2>1, AccountingKept DEF RegistryInv, AcquireRefused
  <1>2. /\ stage' = [stage EXCEPT ![s] = "idle"] /\ uses' = [uses EXCEPT ![s] = NoRun]
        /\ stage[s] # "idle" /\ UNCHANGED <<runVars, countVars, closeVars>>
    BY DEF AcquireRefused
  <1>3. slots' \in [Runs -> Nat] /\ active' \in [Runs -> Nat]
        /\ \A r \in closed : active'[r] <= active[r]
    BY <1>2 DEF RegistryInv, TypeOK, countVars
  <1>. QED BY <1>1, <1>2, <1>3, StreamStep

\* Release always finds its token: the first half of it takes one, and the handler
\* stays in the WaitGroup until the second.
LEMMA ReleaseKeeps ==
  ASSUME RegistryInv, NEW s \in Streams, Release(s)
  PROVE  RegistryInv'
  <1>0. PICK r \in Runs : r = uses[s]
    BY DEF RegistryInv, HandlersUseRuns, Release
  <1>1. TypeOK /\ AccountingExact /\ stage[s] = "holding"
    BY <1>0 DEF RegistryInv, Release
  <1>2. slots[r] > 0 BY <1>0, <1>1, CountedPositive
  <1>3. /\ slots' = [slots EXCEPT ![r] = @ - 1] /\ active' = active
        /\ stage' = [stage EXCEPT ![s] = "releasing"] /\ uses' = uses
        /\ UNCHANGED <<runVars, closeVars>>
    BY <1>0, <1>2 DEF Release
  <1>4. slots' \in [Runs -> Nat] /\ active' \in [Runs -> Nat]
        /\ \A q \in closed : active'[q] <= active[q]
    BY <1>0, <1>1, <1>2, <1>3 DEF RegistryInv, TypeOK
  <1>5. AccountingExact'
    <2>1. \A q \in Runs : Using(q)' = Using(q) BY <1>0, <1>1, <1>3 DEF TypeOK, Using
    <2>2. ASSUME NEW q \in Runs, q # r
          PROVE  Holding(q)' = Holding(q) /\ slots'[q] = slots[q]
      BY <1>0, <1>1, <1>3, <2>2 DEF TypeOK, Holding
    <2>3. Holding(r)' = Holding(r) \ {s} /\ s \in Holding(r) /\ slots'[r] = slots[r] - 1
      BY <1>0, <1>1, <1>3 DEF TypeOK, Holding
    <2>4. Cardinality(Holding(r)') = Cardinality(Holding(r)) - 1
      BY <2>3, HandlersFinite, FS_RemoveElement
    <2>5. slots'[r] <= MaxStreams
      BY <1>0, <1>1, <2>3, RegistryAssumption DEF AccountingExact, TypeOK
    <2>. QED BY <1>0, <1>1, <1>3, <2>1, <2>2, <2>3, <2>4, <2>5 DEF AccountingExact
  <1>6. uses' = [uses EXCEPT ![s] = uses[s]] BY <1>0, <1>1, <1>3 DEF TypeOK
  <1>. QED BY <1>0, <1>1, <1>3, <1>4, <1>5, <1>6, StreamStep

\* active.Done() takes the handler out of the WaitGroup.
LEMMA ReleaseDoneKeeps ==
  ASSUME RegistryInv, NEW s \in Streams, ReleaseDone(s)
  PROVE  RegistryInv' /\ \A r \in closed : active'[r] <= active[r]
  <1>0. PICK r \in Runs : r = uses[s]
    BY DEF RegistryInv, HandlersUseRuns, ReleaseDone
  <1>1. TypeOK /\ AccountingExact /\ stage[s] = "releasing"
    BY <1>0 DEF RegistryInv, ReleaseDone
  <1>2. active[r] > 0 BY <1>0, <1>1, CountedPositive
  <1>3. /\ active' = [active EXCEPT ![r] = @ - 1] /\ slots' = slots
        /\ stage' = [stage EXCEPT ![s] = "idle"] /\ uses' = [uses EXCEPT ![s] = NoRun]
        /\ UNCHANGED <<runVars, closeVars>>
    BY <1>0 DEF ReleaseDone
  <1>4. slots' \in [Runs -> Nat] /\ active' \in [Runs -> Nat]
        /\ \A q \in closed : active'[q] <= active[q]
    BY <1>0, <1>1, <1>2, <1>3 DEF RegistryInv, TypeOK
  <1>5. AccountingExact'
    <2>1. \A q \in Runs : Holding(q)' = Holding(q) BY <1>0, <1>1, <1>3 DEF TypeOK, Holding
    <2>2. ASSUME NEW q \in Runs, q # r
          PROVE  Using(q)' = Using(q) /\ active'[q] = active[q]
      BY <1>0, <1>1, <1>3, <2>2 DEF TypeOK, Using
    <2>3. Using(r)' = Using(r) \ {s} /\ s \in Using(r) /\ active'[r] = active[r] - 1
      <3>1. s \in Using(r) /\ active'[r] = active[r] - 1
        BY <1>0, <1>1, <1>3 DEF TypeOK, Using
      <3>2. \A t \in Streams : t \in Using(r)' <=> t \in Using(r) \ {s}
        BY <1>0, <1>1, <1>3 DEF TypeOK, Using
      <3>. QED BY <3>1, <3>2 DEF Using
    <2>4. Cardinality(Using(r)') = Cardinality(Using(r)) - 1
      BY <2>3, HandlersFinite, FS_RemoveElement
    <2>5. active'[r] = Cardinality(Using(r)') BY <1>0, <1>1, <2>3, <2>4 DEF AccountingExact
    <2>. QED BY <1>0, <1>1, <1>3, <2>1, <2>2, <2>5 DEF AccountingExact
  <1>. QED BY <1>0, <1>1, <1>3, <1>4, <1>5, StreamStep

\* Nothing has happened yet.
LEMMA InitEstablishes == Init => RegistryInv
  <1>. SUFFICES ASSUME Init PROVE RegistryInv OBVIOUS
  <1>1. TypeOK BY RegistryAssumption DEF Init, TypeOK
  <1>2. CapacityBound
    <2>1. runs = {} /\ \A o \in Owners : OwnedBy(o, runs) = {} BY DEF Init, OwnedBy
    <2>. QED BY <2>1, FS_EmptySet, RegistryAssumption DEF CapacityBound
  <1>3. AccountingExact
    <2>1. \A r \in Runs : Holding(r) = {} /\ Using(r) = {} BY DEF Init, Holding, Using
    <2>. QED BY <2>1, FS_EmptySet, RegistryAssumption DEF Init, AccountingExact
  <1>4. DrainIsFinal /\ FreshIsNowhere /\ LeavesOnlyDrained /\ HandlersUseRuns
        /\ closed \subseteq ctxDone
    BY DEF Init, DrainIsFinal, FreshIsNowhere, LeavesOnlyDrained, HandlersUseRuns
  <1>. QED BY <1>1, <1>2, <1>3, <1>4 DEF RegistryInv

\* Create, granted or not.
LEMMA CreateKeeps ==
  ASSUME RegistryInv, NEW o \in Owners,
         CreateRefused(o) \/ \E r \in Runs : CreateGranted(o, r)
  PROVE  RegistryInv'
  <1>1. CASE CreateRefused(o)
    <2>1. PICK D \in DrainedMeanwhile :
            /\ Cleanup(D) /\ runs' = Kept(D)
            /\ UNCHANGED <<owner, expired, watcher, countVars, streamVars, closeVars>>
      BY <1>1 DEF CreateRefused
    <2>2. UNCHANGED <<owner, expired, active>> BY <2>1 DEF countVars
    <2>3. RunsInv' /\ runs' \in SUBSET runs
          /\ {closed', ctxDone', drained'} \subseteq SUBSET Runs
      BY <2>1, <2>2, CleanupKeepsRuns
    <2>4. TypeOK'
      BY <2>1, <2>3 DEF RegistryInv, TypeOK, countVars, streamVars, closeVars
    <2>. QED BY <2>1, <2>3, <2>4, QuietStep
  <1>2. CASE \E r \in Runs : CreateGranted(o, r)
    <2>1. PICK r \in Runs, D \in DrainedMeanwhile :
            /\ ~ Full(o, Kept(D)) /\ owner[r] = NoOwner
            /\ Cleanup(D) /\ runs' = Kept(D) \cup {r}
            /\ owner' = [owner EXCEPT ![r] = o]
            /\ watcher' = [watcher EXCEPT ![r] = "armed"]
            /\ UNCHANGED <<expired, countVars, streamVars, closeVars>>
      BY <1>2 DEF CreateGranted
    <2>2. /\ D \subseteq Stale /\ Stale \subseteq runs /\ runs \subseteq Runs
          /\ Kept(D) \subseteq runs /\ \A q \in D : active[q] = 0
      BY DEF DrainedMeanwhile, Stale, Kept, RegistryInv, TypeOK
    <2>3. TypeOK'
      BY <2>1, <2>2
      DEF RegistryInv, TypeOK, Cleanup, BeginClose, countVars, streamVars, closeVars
    <2>4. CapacityBound' BY <2>1, <2>2, GrantFits DEF RegistryInv
    <2>5. AccountingExact'
      <3>1. \A q \in Runs : Holding(q)' = Holding(q) /\ Using(q)' = Using(q)
        BY <2>1 DEF Holding, Using, streamVars
      <3>. QED BY <2>1, <3>1, AccountingKept DEF RegistryInv
    <2>6. DrainIsFinal'
      BY <2>1, <2>2 DEF RegistryInv, TypeOK, DrainIsFinal, Cleanup, BeginClose, countVars
    <2>7. FreshIsNowhere'
      BY <2>1, <2>2, RegistryAssumption
      DEF RegistryInv, TypeOK, FreshIsNowhere, Cleanup, BeginClose
    <2>8. LeavesOnlyDrained'
      BY <2>1, <2>2 DEF RegistryInv, TypeOK, LeavesOnlyDrained, Cleanup, BeginClose, Kept
    <2>9. HandlersUseRuns' /\ (closed \subseteq ctxDone)'
      BY <2>1, <2>2, RegistryAssumption
      DEF RegistryInv, TypeOK, HandlersUseRuns, streamVars, Cleanup, BeginClose
    <2>. QED BY <2>3, <2>4, <2>5, <2>6, <2>7, <2>8, <2>9 DEF RegistryInv
  <1>. QED BY <1>1, <1>2

\* Get, whether it finds the run or not.
LEMMA GetKeeps ==
  ASSUME RegistryInv, NEW o \in Owners, NEW r \in Runs,
         GetMissed(o, r) \/ \E s \in Streams : GetFound(s, o, r)
  PROVE  RegistryInv'
  <1>1. CASE GetMissed(o, r)
    <2>1. PICK D \in DrainedMeanwhile :
            /\ Cleanup(D) /\ runs' = Kept(D)
            /\ UNCHANGED <<owner, expired, watcher, countVars, streamVars, closeVars>>
      BY <1>1 DEF GetMissed
    <2>2. UNCHANGED <<owner, expired, active>> BY <2>1 DEF countVars
    <2>3. RunsInv' /\ runs' \in SUBSET runs
          /\ {closed', ctxDone', drained'} \subseteq SUBSET Runs
      BY <2>1, <2>2, CleanupKeepsRuns
    <2>4. TypeOK'
      BY <2>1, <2>3 DEF RegistryInv, TypeOK, countVars, streamVars, closeVars
    <2>. QED BY <2>1, <2>3, <2>4, QuietStep
  <1>2. CASE \E s \in Streams : GetFound(s, o, r)
    <2>1. PICK s \in Streams, D \in DrainedMeanwhile :
            /\ stage[s] = "idle" /\ Servable(o, r, D)
            /\ Cleanup(D) /\ runs' = Kept(D)
            /\ stage' = [stage EXCEPT ![s] = "found"] /\ uses' = [uses EXCEPT ![s] = r]
            /\ UNCHANGED <<owner, expired, watcher, countVars, closeVars>>
      BY <1>2 DEF GetFound
    <2>2. UNCHANGED <<owner, expired, active>> BY <2>1 DEF countVars
    <2>3. RunsInv' /\ runs' \in SUBSET runs
          /\ {closed', ctxDone', drained'} \subseteq SUBSET Runs
      BY <2>1, <2>2, CleanupKeepsRuns
    <2>4. TypeOK'
      BY <2>1, <2>3 DEF RegistryInv, TypeOK, countVars, closeVars
    <2>5. CapacityBound'
      <3>1. \A p \in Owners : OwnedBy(p, runs)' = OwnedBy(p, runs') BY <2>1 DEF OwnedBy
      <3>. QED BY <2>3, <3>1, FewerRunsFit DEF RegistryInv, CapacityBound
    <2>6. AccountingExact'
      <3>1. \A q \in Runs : Holding(q)' = Holding(q) /\ Using(q)' = Using(q)
        BY <2>1 DEF RegistryInv, TypeOK, Holding, Using
      <3>. QED BY <2>1, <3>1, AccountingKept DEF RegistryInv
    <2>7. HandlersUseRuns'
      <3>1. owner[r] # NoOwner
        BY <2>1, RegistryAssumption DEF Servable
      <3>. QED BY <2>1, <3>1 DEF RegistryInv, TypeOK, HandlersUseRuns
    <2>. QED BY <2>3, <2>4, <2>5, <2>6, <2>7 DEF RegistryInv, RunsInv
  <1>. QED BY <1>1, <1>2

\* A step that closes some runs, or removes drained ones, or lets time pass, and
\* touches nothing else that RegistryInv is about.
LEMMA CloserStep ==
  ASSUME RegistryInv, UNCHANGED <<owner, countVars, streamVars, drained>>,
         NEW B \in SUBSET runs, closed' = closed \cup B,
         NEW C \in SUBSET runs, ctxDone' = ctxDone \cup B \cup C,
         NEW E \in SUBSET runs, expired' = expired \cup E,
         NEW Q \in SUBSET drained, runs' = runs \ Q,
         watcher' \in [Runs -> {"none", "armed", "draining", "exited"}],
         deleting' \in [Deletes -> Runs \cup {NoRun}], sweeping' \in SUBSET Runs,
         shutdown' \in {"up", "closing", "closed"}
  PROVE  RegistryInv'
  <1>. USE DEF countVars, streamVars
  <1>1. TypeOK' BY DEF RegistryInv, TypeOK
  <1>2. RunsInv'
    BY DEF RegistryInv, TypeOK, RunsInv, DrainIsFinal, FreshIsNowhere, LeavesOnlyDrained
  <1>. QED BY <1>1, <1>2, QuietStep

\* DELETE, the watcher, the deadline and App.Close.
LEMMA ClosersKeep ==
  ASSUME RegistryInv,
         \/ \E d \in Deletes, o \in Owners, r \in Runs : CloseOwned(d, o, r)
         \/ \E d \in Deletes : CloseOwnedReturns(d)
         \/ \E r \in Runs : WatcherCloses(r)
         \/ \E r \in Runs : WatcherReturns(r)
         \/ CloseAll
         \/ \E r \in Runs : CloseAllFinishes(r)
         \/ CloseAllReturns
  PROVE  RegistryInv'
  <1>. USE DEF runVars, countVars, streamVars, BeginClose
  <1>0. TypeOK /\ {} \in SUBSET runs /\ {} \in SUBSET drained BY DEF RegistryInv
  <1>1. ASSUME NEW d \in Deletes, NEW o \in Owners, NEW r \in Runs, CloseOwned(d, o, r)
        PROVE  RegistryInv'
    <2>1. {r} \in SUBSET runs BY <1>1 DEF CloseOwned, OwnedBy
    <2>2. /\ UNCHANGED <<owner, countVars, streamVars, drained>>
          /\ closed' = closed \cup {r} /\ ctxDone' = ctxDone \cup {r} \cup {}
          /\ expired' = expired \cup {} /\ runs' = runs \ {}
      BY <1>1 DEF CloseOwned
    <2>3. /\ watcher' \in [Runs -> {"none", "armed", "draining", "exited"}]
          /\ deleting' \in [Deletes -> Runs \cup {NoRun}] /\ sweeping' \in SUBSET Runs
          /\ shutdown' \in {"up", "closing", "closed"}
      BY <1>0, <1>1 DEF CloseOwned, TypeOK
    <2>. QED BY <1>0, <2>1, <2>2, <2>3, CloserStep
  <1>2. ASSUME NEW d \in Deletes, CloseOwnedReturns(d) PROVE RegistryInv'
    <2>1. {deleting[d]} \in SUBSET drained BY <1>2 DEF CloseOwnedReturns
    <2>2. /\ UNCHANGED <<owner, countVars, streamVars, drained>>
          /\ closed' = closed \cup {} /\ ctxDone' = ctxDone \cup {} \cup {}
          /\ expired' = expired \cup {} /\ runs' = runs \ {deleting[d]}
      BY <1>2 DEF CloseOwnedReturns
    <2>3. /\ watcher' \in [Runs -> {"none", "armed", "draining", "exited"}]
          /\ deleting' \in [Deletes -> Runs \cup {NoRun}] /\ sweeping' \in SUBSET Runs
          /\ shutdown' \in {"up", "closing", "closed"}
      BY <1>0, <1>2 DEF CloseOwnedReturns, TypeOK
    <2>. QED BY <1>0, <2>1, <2>2, <2>3, CloserStep
  <1>3. ASSUME NEW r \in Runs, WatcherCloses(r) PROVE RegistryInv'
    <2>1. runs \cap {r} \in SUBSET runs OBVIOUS
    <2>2. /\ UNCHANGED <<owner, countVars, streamVars, drained>>
          /\ closed' = closed \cup (runs \cap {r})
          /\ ctxDone' = ctxDone \cup (runs \cap {r}) \cup {}
          /\ expired' = expired \cup {} /\ runs' = runs \ {}
      BY <1>3 DEF WatcherCloses
    <2>3. /\ watcher' \in [Runs -> {"none", "armed", "draining", "exited"}]
          /\ deleting' \in [Deletes -> Runs \cup {NoRun}] /\ sweeping' \in SUBSET Runs
          /\ shutdown' \in {"up", "closing", "closed"}
      BY <1>0, <1>3 DEF WatcherCloses, TypeOK, closeVars
    <2>. QED BY <1>0, <2>1, <2>2, <2>3, CloserStep
  <1>4. ASSUME NEW r \in Runs, WatcherReturns(r) PROVE RegistryInv'
    <2>1. {r} \in SUBSET drained BY <1>4 DEF WatcherReturns
    <2>2. /\ UNCHANGED <<owner, countVars, streamVars, drained>>
          /\ closed' = closed \cup {} /\ ctxDone' = ctxDone \cup {} \cup {}
          /\ expired' = expired \cup {} /\ runs' = runs \ {r}
      BY <1>4 DEF WatcherReturns
    <2>3. /\ watcher' \in [Runs -> {"none", "armed", "draining", "exited"}]
          /\ deleting' \in [Deletes -> Runs \cup {NoRun}] /\ sweeping' \in SUBSET Runs
          /\ shutdown' \in {"up", "closing", "closed"}
      BY <1>0, <1>4 DEF WatcherReturns, TypeOK, closeVars
    <2>. QED BY <1>0, <2>1, <2>2, <2>3, CloserStep
  <1>5. ASSUME CloseAll PROVE RegistryInv'
    <2>1. runs \in SUBSET runs OBVIOUS
    <2>2. /\ UNCHANGED <<owner, countVars, streamVars, drained>>
          /\ closed' = closed \cup runs /\ ctxDone' = ctxDone \cup runs \cup {}
          /\ expired' = expired \cup {} /\ runs' = runs \ {}
      BY <1>5 DEF CloseAll
    <2>3. /\ watcher' \in [Runs -> {"none", "armed", "draining", "exited"}]
          /\ deleting' \in [Deletes -> Runs \cup {NoRun}] /\ sweeping' \in SUBSET Runs
          /\ shutdown' \in {"up", "closing", "closed"}
      BY <1>0, <1>5 DEF CloseAll, TypeOK
    <2>. QED BY <1>0, <2>1, <2>2, <2>3, CloserStep
  <1>6. ASSUME NEW r \in Runs, CloseAllFinishes(r) PROVE RegistryInv'
    <2>1. {r} \in SUBSET drained BY <1>6 DEF CloseAllFinishes
    <2>2. /\ UNCHANGED <<owner, countVars, streamVars, drained>>
          /\ closed' = closed \cup {} /\ ctxDone' = ctxDone \cup {} \cup {}
          /\ expired' = expired \cup {} /\ runs' = runs \ {r}
      BY <1>6 DEF CloseAllFinishes
    <2>3. /\ watcher' \in [Runs -> {"none", "armed", "draining", "exited"}]
          /\ deleting' \in [Deletes -> Runs \cup {NoRun}] /\ sweeping' \in SUBSET Runs
          /\ shutdown' \in {"up", "closing", "closed"}
      BY <1>0, <1>6 DEF CloseAllFinishes, TypeOK
    <2>. QED BY <1>0, <2>1, <2>2, <2>3, CloserStep
  <1>7. ASSUME CloseAllReturns PROVE RegistryInv'
    <2>2. /\ UNCHANGED <<owner, countVars, streamVars, drained>>
          /\ closed' = closed \cup {} /\ ctxDone' = ctxDone \cup {} \cup {}
          /\ expired' = expired \cup {} /\ runs' = runs \ {}
      BY <1>7 DEF CloseAllReturns
    <2>3. /\ watcher' \in [Runs -> {"none", "armed", "draining", "exited"}]
          /\ deleting' \in [Deletes -> Runs \cup {NoRun}] /\ sweeping' \in SUBSET Runs
          /\ shutdown' \in {"up", "closing", "closed"}
      BY <1>0, <1>7 DEF CloseAllReturns, TypeOK
    <2>. QED BY <1>0, <2>2, <2>3, CloserStep
  <1>. QED BY <1>1, <1>2, <1>3, <1>4, <1>5, <1>6, <1>7

\* The deadline, its timer and the drainer.
LEMMA BackgroundKeeps ==
  ASSUME RegistryInv, NEW r \in Runs, Expire(r) \/ ContextTimeout(r) \/ Drain(r)
  PROVE  RegistryInv'
  <1>1. TypeOK'
    BY DEF RegistryInv, TypeOK, Expire, ContextTimeout, Drain, countVars, streamVars, closeVars
  <1>2. RunsInv'
    BY DEF RegistryInv, RunsInv, TypeOK, DrainIsFinal, FreshIsNowhere, LeavesOnlyDrained,
           Expire, ContextTimeout, Drain, countVars
  <1>3. UNCHANGED <<owner, countVars, streamVars>> /\ runs' \in SUBSET runs
    BY DEF Expire, ContextTimeout, Drain
  <1>. QED BY <1>1, <1>2, <1>3, QuietStep

\* RegistryInv is inductive.
THEOREM StepKeepsRegistryInv == RegistryInv /\ [Next]_vars => RegistryInv'
  <1>. SUFFICES ASSUME RegistryInv, [Next]_vars PROVE RegistryInv' OBVIOUS
  <1>1. CASE UNCHANGED vars
    <2>1. UNCHANGED <<owner, countVars, streamVars>> /\ runs' \in SUBSET runs
      BY <1>1 DEF vars, countVars, streamVars
    <2>2. TypeOK' BY <1>1 DEF vars, RegistryInv, TypeOK
    <2>3. RunsInv'
      BY <1>1 DEF vars, RegistryInv, RunsInv, DrainIsFinal, FreshIsNowhere, LeavesOnlyDrained
    <2>. QED BY <2>1, <2>2, <2>3, QuietStep
  <1>2. CASE Next
    <2>1. CASE \E o \in Owners : CreateRefused(o) \/ \E r \in Runs : CreateGranted(o, r)
      BY <2>1, CreateKeeps
    <2>2. CASE \E o \in Owners, r \in Runs :
                 GetMissed(o, r) \/ \E s \in Streams : GetFound(s, o, r)
      BY <2>2, GetKeeps
    <2>3. CASE \E s \in Streams : Acquire(s) \/ AcquireRefused(s) \/ Release(s) \/ ReleaseDone(s)
      BY <2>3, AcquireKeeps, AcquireRefusedKeeps, ReleaseKeeps, ReleaseDoneKeeps
    <2>4. CASE \E r \in Runs : Expire(r) \/ ContextTimeout(r) \/ Drain(r)
      BY <2>4, BackgroundKeeps
    <2>5. CASE \/ \E d \in Deletes, o \in Owners, r \in Runs : CloseOwned(d, o, r)
               \/ \E d \in Deletes : CloseOwnedReturns(d)
               \/ \E r \in Runs : WatcherCloses(r)
               \/ \E r \in Runs : WatcherReturns(r)
               \/ CloseAll
               \/ \E r \in Runs : CloseAllFinishes(r)
               \/ CloseAllReturns
      BY <2>5, ClosersKeep
    <2>. QED BY <1>2, <2>1, <2>2, <2>3, <2>4, <2>5 DEF Next
  <1>. QED BY <1>1, <1>2

-----------------------------------------------------------------------------
(* What follows for every behaviour.                                       *)

\* The strengthened invariant holds in every reachable state.
THEOREM RegistryInvariant == Spec => []RegistryInv
  BY InitEstablishes, StepKeepsRegistryInv, PTL DEF Spec

\* Every variable keeps its type; in particular no counter goes below zero.
THEOREM TypeCorrect == Spec => []TypeOK
  BY RegistryInvariant, PTL DEF RegistryInv

\* Neither the registry nor a session ever exceeds its limit (runs.go:88-99).
THEOREM CapacityNeverExceeded == Spec => []CapacityBound
  BY RegistryInvariant, PTL DEF RegistryInv

\* Tokens and WaitGroup always count the handlers (runs.go:26-48).
THEOREM AccountingAlwaysExact == Spec => []AccountingExact
  BY RegistryInvariant, PTL DEF RegistryInv

\* A drained run is closed and empty for good (runs.go:52-57).
THEOREM DrainAlwaysFinal == Spec => []DrainIsFinal
  BY RegistryInvariant, PTL DEF RegistryInv

\* A run with a stream in it is in the registry: it was created, since a handler works
\* with it; it is not drained, since the WaitGroup counts the handler; and a run
\* leaves only drained (runs.go:155-173).
LEMMA StreamingRunsAreKept == RegistryInv => CapacityHeldWhileStreaming
  <1>. SUFFICES ASSUME RegistryInv, NEW r \in Runs, Using(r) # {} PROVE r \in runs
    BY DEF CapacityHeldWhileStreaming
  <1>1. PICK s \in Streams : stage[s] \in {"holding", "releasing"} /\ uses[s] = r
    BY DEF Using
  <1>2. active[r] > 0 BY <1>1, CountedPositive DEF RegistryInv
  <1>3. r \notin drained BY <1>2 DEF RegistryInv, DrainIsFinal
  <1>4. owner[r] # NoOwner BY <1>1 DEF RegistryInv, HandlersUseRuns
  <1>. QED BY <1>3, <1>4 DEF RegistryInv, LeavesOnlyDrained

\* No run gives its capacity back under a stream.
THEOREM CapacityAlwaysHeld == Spec => []CapacityHeldWhileStreaming
  BY RegistryInvariant, StreamingRunsAreKept, PTL

\* Only Acquire adds to a WaitGroup, and not to that of a closing run (runs.go:29-36).
THEOREM NeverAdmittedAfterClose == Spec => NoAdmissionAfterClose
  <1>1. RegistryInv /\ [Next]_vars => \A r \in Runs : r \in closed => active'[r] <= active[r]
    <2>. SUFFICES ASSUME RegistryInv, [Next]_vars, NEW r \in Runs, r \in closed
                  PROVE  active'[r] <= active[r]
      OBVIOUS
    <2>1. CASE UNCHANGED active
      BY <2>1 DEF RegistryInv, TypeOK
    <2>2. CASE \E s \in Streams : Acquire(s) \/ ReleaseDone(s)
      BY <2>2, AcquireKeeps, ReleaseDoneKeeps
    <2>. QED BY <2>1, <2>2
      DEF vars, Next, countVars, CreateRefused, CreateGranted, GetFound, GetMissed,
          AcquireRefused, Release, CloseOwned, CloseOwnedReturns, Expire, ContextTimeout,
          WatcherCloses, WatcherReturns, Drain, CloseAll, CloseAllFinishes, CloseAllReturns
  <1>. QED BY <1>1, RegistryInvariant, PTL DEF Spec, NoAdmissionAfterClose

\* DELETE answers only when its run is out of the registry and no handler streams on
\* it (runs.go:127-130, 155-162).
THEOREM DeleteAlwaysQuiescent == Spec => DeleteAnswersQuiescent
  <1>1. RegistryInv /\ [Next]_vars =>
          \A d \in Deletes, r \in Runs :
            deleting[d] = r /\ deleting'[d] = NoRun => r \notin runs' /\ Using(r)' = {}
    <2>. SUFFICES ASSUME RegistryInv, [Next]_vars, NEW d \in Deletes, NEW r \in Runs,
                         deleting[d] = r, deleting'[d] = NoRun
                  PROVE  r \notin runs' /\ Using(r)' = {}
      OBVIOUS
    <2>1. CloseOwnedReturns(d)
      <3>1. CASE UNCHANGED deleting
        BY <3>1, RegistryAssumption
      <3>2. CASE \E e \in Deletes, o \in Owners, q \in Runs : CloseOwned(e, o, q)
        BY <3>2, RegistryAssumption DEF CloseOwned, RegistryInv, TypeOK
      <3>3. CASE \E e \in Deletes : CloseOwnedReturns(e)
        BY <3>3, RegistryAssumption DEF CloseOwnedReturns, RegistryInv, TypeOK
      <3>. QED BY <3>1, <3>2, <3>3
        DEF vars, Next, closeVars, CreateRefused, CreateGranted, GetFound, GetMissed, Acquire,
            AcquireRefused, Release, ReleaseDone, Expire, ContextTimeout, WatcherCloses,
            WatcherReturns, Drain, CloseAll, CloseAllFinishes, CloseAllReturns
    <2>2. r \notin runs' BY <2>1 DEF CloseOwnedReturns
    <2>3. CapacityHeldWhileStreaming'
      <3>1. RegistryInv' BY StepKeepsRegistryInv
      <3>. QED BY <3>1, StreamingRunsAreKept, PTL
    <2>. QED BY <2>2, <2>3 DEF CapacityHeldWhileStreaming
  <1>. QED BY <1>1, RegistryInvariant, PTL DEF Spec, DeleteAnswersQuiescent

-----------------------------------------------------------------------------
(* The registry implements RunLeases.                                      *)

\* In the states of the invariant the four states of a lease are these.
LEMMA LeaseStates ==
  ASSUME RegistryInv
  PROVE  /\ Leases!InState("none") = {r \in Runs : owner[r] = NoOwner}
         /\ Leases!InState("open") = runs \ ctxDone
         /\ Leases!InState("closing") = runs \cap ctxDone
         /\ Leases!Outstanding = runs
  <1>1. runs \subseteq Runs /\ \A r \in runs : owner[r] # NoOwner
    BY DEF RegistryInv, TypeOK, FreshIsNowhere
  <1>2. /\ Leases!InState("none") = {r \in Runs : owner[r] = NoOwner}
        /\ Leases!InState("open") = runs \ ctxDone
        /\ Leases!InState("closing") = runs \cap ctxDone
    BY <1>1 DEF Leases!InState, lease
  <1>. QED BY <1>2 DEF Leases!Outstanding

\* The instance counts as FiniteSets does.
LEMMA SameCardinality == \A S : Leases!Cardinality(S) = Cardinality(S)
  BY DEF Leases!Cardinality, Cardinality, Leases!IsFiniteSet, IsFiniteSet

\* A step that admits and releases no stream, never reopens a context, and lets runs
\* enter only fresh and leave only drained, is a turnover of leases.
LEMMA TurnoverStep ==
  ASSUME RegistryInv, RegistryInv', UNCHANGED users, ctxDone \subseteq ctxDone',
         runs \ runs' \subseteq drained',
         \A r \in Runs : owner'[r] # owner[r] => owner[r] = NoOwner /\ r \in runs',
         \A r \in runs' \ runs : owner[r] = NoOwner /\ r \notin ctxDone'
  PROVE  Leases!Next
  <1>. DEFINE begin == (runs \ ctxDone) \cap ctxDone'
              end == runs \ runs'
              grant == runs' \ runs
  <1>1. /\ runs \subseteq Runs /\ runs' \subseteq Runs
        /\ \A r \in runs : owner[r] # NoOwner
        /\ \A r \in runs' : owner'[r] # NoOwner
    BY DEF RegistryInv, TypeOK, FreshIsNowhere
  <1>2. begin \in SUBSET Leases!InState("open") BY LeaseStates
  <1>3. end \in SUBSET (Leases!InState("closing") \cup begin)
    <2>1. drained' \subseteq ctxDone' BY DEF RegistryInv, DrainIsFinal
    <2>. QED BY <2>1, LeaseStates
  <1>4. grant \in SUBSET Leases!InState("none") BY <1>1, LeaseStates
  <1>5. \A r \in end : users[r] = {}
    <2>1. CapacityHeldWhileStreaming' BY StreamingRunsAreKept, PTL
    <2>2. ASSUME NEW r \in end PROVE users[r] = {}
      <3>1. Using(r)' = {} BY <1>1, <2>1 DEF CapacityHeldWhileStreaming
      <3>2. Holding(r)' = {} BY <3>1 DEF Using, Holding
      <3>3. users'[r] = {} BY <1>1, <3>2 DEF users
      <3>. QED BY <3>3
    <2>. QED BY <2>2
  <1>6. Cardinality((Leases!Outstanding \ end) \cup grant) <= MaxRuns
    <2>1. (Leases!Outstanding \ end) \cup grant = runs' BY LeaseStates
    <2>. QED BY <2>1 DEF RegistryInv, CapacityBound
  <1>7. lease' = [r \in Runs |-> IF r \in end THEN "ended"
                                ELSE IF r \in begin THEN "closing"
                                ELSE IF r \in grant THEN "open"
                                ELSE lease[r]]
    <2>1. ASSUME NEW r \in Runs
          PROVE  lease'[r] = IF r \in end THEN "ended"
                             ELSE IF r \in begin THEN "closing"
                             ELSE IF r \in grant THEN "open"
                             ELSE lease[r]
      <3>1. CASE r \in end BY <1>1, <3>1 DEF lease
      <3>2. CASE r \in begin /\ r \notin end BY <1>1, <3>2 DEF lease
      <3>3. CASE r \in grant BY <1>1, <3>3 DEF lease
      <3>4. CASE r \notin end \cup begin \cup grant BY <1>1, <3>4 DEF lease
      <3>. QED BY <3>1, <3>2, <3>3, <3>4
    <2>. QED BY <2>1 DEF lease
  <1>8. Leases!Turnover(begin, end, grant)
    BY <1>2, <1>3, <1>4, <1>5, <1>6, <1>7, SameCardinality DEF Leases!Turnover
  <1>. QED BY <1>2, <1>3, <1>4, <1>8 DEF Leases!Next

\* Acquire is a stream joining an open lease.
LEMMA AcquireJoins ==
  ASSUME RegistryInv, NEW s \in Streams, Acquire(s)
  PROVE  Leases!Next
  <1>1. PICK r \in Runs : r = uses[s] BY DEF RegistryInv, HandlersUseRuns, Acquire
  <1>2. TypeOK /\ AccountingExact /\ stage[s] = "found" BY DEF RegistryInv, Acquire
  <1>3. lease[r] = "open"
    <2>1. r \notin closed \cup ctxDone /\ owner[r] # NoOwner
      BY <1>1 DEF RegistryInv, HandlersUseRuns, Acquire
    <2>2. r \in runs BY <2>1 DEF RegistryInv, LeavesOnlyDrained, DrainIsFinal
    <2>. QED BY <2>1, <2>2 DEF lease
  <1>4. s \notin UNION {users[q] : q \in Runs} BY <1>2 DEF users, Holding
  <1>5. Leases!Cardinality(users[r]) < MaxStreams
    <2>1. users[r] = Holding(r) /\ slots[r] < MaxStreams BY <1>1 DEF users, Acquire
    <2>. QED BY <2>1, <1>2, SameCardinality DEF AccountingExact
  <1>6. users' = [users EXCEPT ![r] = @ \cup {s}]
    <2>1. ASSUME NEW q \in Runs
          PROVE  Holding(q)' = IF q = r THEN Holding(q) \cup {s} ELSE Holding(q)
      <3>1. CASE q = r BY <1>1, <1>2, <3>1 DEF TypeOK, Acquire, Holding
      <3>2. CASE q # r BY <1>1, <1>2, <3>2 DEF TypeOK, Acquire, Holding
      <3>. QED BY <3>1, <3>2
    <2>. QED BY <2>1 DEF users
  <1>7. lease' = lease BY DEF Acquire, runVars, lease
  <1>8. Leases!Join(s, r) BY <1>3, <1>4, <1>5, <1>6, <1>7 DEF Leases!Join
  <1>. QED BY <1>8 DEF Leases!Next

\* The first half of Release is a stream leaving.
LEMMA ReleaseLeaves ==
  ASSUME RegistryInv, NEW s \in Streams, Release(s)
  PROVE  Leases!Next
  <1>1. PICK r \in Runs : r = uses[s] BY DEF RegistryInv, HandlersUseRuns, Release
  <1>2. TypeOK /\ stage[s] = "holding" BY DEF RegistryInv, Release
  <1>3. slots[r] > 0 BY <1>1, <1>2, CountedPositive DEF RegistryInv
  <1>4. stage' = [stage EXCEPT ![s] = "releasing"] /\ uses' = uses /\ UNCHANGED runVars
    BY <1>1, <1>3 DEF Release
  <1>5. users' = [users EXCEPT ![r] = @ \ {s}]
    <2>1. ASSUME NEW q \in Runs
          PROVE  Holding(q)' = IF q = r THEN Holding(q) \ {s} ELSE Holding(q)
      <3>1. CASE q = r BY <1>1, <1>2, <1>4, <3>1 DEF TypeOK, Holding
      <3>2. CASE q # r BY <1>1, <1>2, <1>4, <3>2 DEF TypeOK, Holding
      <3>. QED BY <3>1, <3>2
    <2>. QED BY <2>1 DEF users
  <1>6. s \in users[r] BY <1>1, <1>2 DEF users, Holding
  <1>7. lease' = lease BY <1>4 DEF runVars, lease
  <1>8. Leases!Leave(s, r) BY <1>5, <1>6, <1>7 DEF Leases!Leave
  <1>. QED BY <1>8 DEF Leases!Next

\* The requests that sweep and the steps that close are turnovers.
LEMMA CloseTurnsOver ==
  ASSUME RegistryInv, RegistryInv',
         \/ \E o \in Owners : CreateRefused(o)
         \/ \E o \in Owners, r \in Runs : CreateGranted(o, r)
         \/ \E s \in Streams, o \in Owners, r \in Runs : GetFound(s, o, r)
         \/ \E o \in Owners, r \in Runs : GetMissed(o, r)
         \/ \E d \in Deletes, o \in Owners, r \in Runs : CloseOwned(d, o, r)
         \/ \E d \in Deletes : CloseOwnedReturns(d)
         \/ \E r \in Runs : Expire(r) \/ ContextTimeout(r) \/ Drain(r)
         \/ \E r \in Runs : WatcherCloses(r) \/ WatcherReturns(r)
         \/ CloseAll
         \/ \E r \in Runs : CloseAllFinishes(r)
  PROVE  Leases!Next
  <1>. USE DEF CreateRefused, CreateGranted, GetFound, GetMissed, CloseOwned,
               CloseOwnedReturns, Expire, ContextTimeout, Drain, WatcherCloses,
               WatcherReturns, CloseAll, CloseAllFinishes
  <1>0. /\ TypeOK /\ FreshIsNowhere /\ LeavesOnlyDrained
        /\ Stale \subseteq runs /\ DrainedMeanwhile \subseteq SUBSET Stale
    BY DEF RegistryInv, Stale, DrainedMeanwhile
  <1>1. UNCHANGED users
    <2>1. \A r \in Runs : Holding(r)' = Holding(r)
      <3>1. CASE UNCHANGED streamVars BY <3>1 DEF Holding, streamVars
      <3>2. CASE \E s \in Streams, o \in Owners, r \in Runs : GetFound(s, o, r)
        BY <1>0, <3>2 DEF TypeOK, Holding
      <3>. QED BY <3>1, <3>2
    <2>. QED BY <2>1 DEF users
  <1>2. ctxDone \subseteq ctxDone' BY DEF Cleanup, BeginClose
  <1>3. runs \ runs' \subseteq drained' BY DEF Cleanup, Kept
  <1>4. \A r \in Runs : owner'[r] # owner[r] => owner[r] = NoOwner /\ r \in runs'
    BY <1>0 DEF TypeOK
  <1>5. \A r \in runs' \ runs : owner[r] = NoOwner /\ r \notin ctxDone'
    <2>1. CASE runs' \subseteq runs BY <2>1
    <2>2. CASE \E o \in Owners, r \in Runs : CreateGranted(o, r)
      <3>1. PICK o \in Owners, r \in Runs : CreateGranted(o, r) BY <2>2
      <3>2. owner[r] = NoOwner /\ runs' \subseteq runs \cup {r} BY <3>1 DEF Kept
      <3>3. ctxDone' = ctxDone \cup Stale BY <3>1 DEF Cleanup, BeginClose
      <3>. QED BY <1>0, <3>2, <3>3 DEF FreshIsNowhere
    <2>. QED BY <2>1, <2>2 DEF Kept
  <1>. QED BY <1>1, <1>2, <1>3, <1>4, <1>5, TurnoverStep

\* Every step shows as a step of the leases or as none.
LEMMA StepRefines ==
  RegistryInv /\ RegistryInv' /\ [Next]_vars => [Leases!Next]_(Leases!vars)
  <1>. SUFFICES ASSUME RegistryInv, RegistryInv', [Next]_vars
                PROVE  Leases!Next \/ UNCHANGED <<lease, users>>
    BY DEF Leases!vars
  <1>1. CASE UNCHANGED <<runVars, streamVars>>
    BY <1>1 DEF runVars, streamVars, lease, users, Holding
  <1>2. CASE \E s \in Streams : Acquire(s) \/ Release(s)
    BY <1>2, AcquireJoins, ReleaseLeaves
  <1>3. CASE \E s \in Streams : AcquireRefused(s) \/ ReleaseDone(s)
    <2>1. \A r \in Runs : Holding(r)' = Holding(r)
      BY <1>3 DEF RegistryInv, TypeOK, AcquireRefused, ReleaseDone, Holding
    <2>2. UNCHANGED runVars BY <1>3 DEF AcquireRefused, ReleaseDone
    <2>. QED BY <2>1, <2>2 DEF lease, users, runVars
  <1>4. CASE vars' = vars BY <1>1, <1>4 DEF vars, runVars, streamVars
  <1>5. CASE CloseAllReturns BY <1>1, <1>5 DEF CloseAllReturns
  <1>. QED BY <1>2, <1>3, <1>4, <1>5, CloseTurnsOver DEF Next

\* Whatever the goroutines interleave, the server keeps the promises of RunLeases:
\* places are never oversubscribed, a lease ends only empty, and no stream joins a run
\* that is closing or is full.
THEOREM RegistryImplementsLeases == Spec => ImplementsLeases
  <1>1. Init => Leases!Init
    <2>1. Init => \A r \in Runs : lease[r] = "none" /\ users[r] = {}
      BY DEF Init, lease, users, Holding
    <2>. QED BY <2>1 DEF Leases!Init, lease, users
  <1>. QED BY <1>1, RegistryInvariant, StepRefines, PTL
    DEF Spec, ImplementsLeases, Leases!Spec

=============================================================================
