------------------------- MODULE MeasureFlowProofs -------------------------
(***************************************************************************)
(* Proofs about MeasureFlow, for any number of runs, requests and losses   *)
(* and every ramp: a run that stays behind is one the page has lost sight  *)
(* of, and the requests of one phase never crowd each other out.           *)
(***************************************************************************)
EXTENDS MeasureFlow, FiniteSetTheorems, TLAPS

\* What the page holds: a run from its grant to the end of its DELETE, and nothing before.
PageHolds ==
  /\ pc \in {"measuring", "closing", "retrying"} => run \in Runs
  /\ pc \in {"idle", "pinging", "creating"} => run = NoRun
  /\ create \in Runs => pc = "creating"

\* The page only speaks of runs that were granted, and a DELETE is done when its run is over.
RunsKnown ==
  /\ \A r \in {run, create} \cap Runs : lease[r] # "none"
  /\ \A r \in Runs : delete[r] # "none" => lease[r] # "none"
  /\ \A r \in Runs : delete[r] = "done" => lease[r] = "ended"

\* Requests are for runs that were granted, and nothing else uses them.
RequestsKnown ==
  /\ \A s \in Streams : request[s] # "free" => target[s] \in Runs /\ lease[target[s]] # "none"
  /\ \A r \in Runs, s \in Streams : s \in users[r] => request[s] = "served" /\ target[s] = r

FlowIInv == TypeOK /\ OnlyLostRunsLinger /\ PageHolds /\ RunsKnown /\ RequestsKnown

-----------------------------------------------------------------------------
(* What the leases may do.                                                 *)

LEMMA TurnoverKeeps ==
  ASSUME Server!TypeOK, NEW begin, NEW end, NEW grant, Server!Turnover(begin, end, grant)
  PROVE  /\ Server!TypeOK' /\ users' = users
         /\ \A r \in Runs : lease[r] # "none" => lease'[r] # "none"
         /\ \A r \in Runs : lease[r] = "ended" => lease'[r] = "ended"
         /\ Server!Outstanding' \subseteq Server!Outstanding \cup grant
         /\ grant \subseteq Runs
         /\ \A r \in grant : lease'[r] # "none"
  BY DEF Server!TypeOK, Server!Turnover, Server!InState, Server!Outstanding

LEMMA InitFlow == Init => FlowIInv
  <1>. SUFFICES ASSUME Init PROVE FlowIInv OBVIOUS
  <1>1. 0 \in 0..Len(Ramp) /\ 0 \in 0..Losses
    <2>1. Len(Ramp) \in Nat /\ Losses \in Nat BY MeasureAssumption
    <2>. QED BY <2>1
  <1>. QED BY <1>1, MeasureAssumption
         DEF Init, Server!Init, FlowIInv, TypeOK, Server!TypeOK, OnlyLostRunsLinger, PageHolds,
             RunsKnown, RequestsKnown, Server!Outstanding, Server!InState
-----------------------------------------------------------------------------
(* The server.                                                             *)

LEMMA TurnoverStep ==
  ASSUME FlowIInv, NEW r \in Runs,
         Granted(r) \/ Expires(r) \/ Drained(r) \/ DeleteArrives(r) \/ DeleteAnswered(r)
  PROVE  FlowIInv'
  <1>. USE MeasureAssumption
           DEF FlowIInv, TypeOK, OnlyLostRunsLinger, PageHolds, RunsKnown, RequestsKnown
  <1>1. CASE Granted(r)
    <2>1. Server!Turnover({}, {}, {r}) BY <1>1 DEF Granted
    <2>2. /\ Server!TypeOK' /\ users' = users
          /\ \A q \in Runs : lease[q] # "none" => lease'[q] # "none"
          /\ \A q \in Runs : lease[q] = "ended" => lease'[q] = "ended"
          /\ Server!Outstanding' \subseteq Server!Outstanding \cup {r}
          /\ lease'[r] # "none"
      BY <2>1, TurnoverKeeps
    <2>3. /\ create = "sent" /\ create \notin Runs
          /\ create' = IF pc = "creating" THEN r ELSE "none"
          /\ left' = IF pc = "creating" THEN left ELSE left \cup {r}
          /\ UNCHANGED <<pc, run, phase, awaited, delete, request, target, losses>>
      BY <1>1 DEF Granted, streamVars
    <2>4. create' \in {"none", "sent", "refused"} \cup Runs /\ left' \in SUBSET Runs BY <2>3
    <2>5. TypeOK' BY <2>2, <2>3, <2>4
    <2>6. PageHolds' /\ RunsKnown' BY <2>2, <2>3
    <2>7. ASSUME NEW q \in Server!Outstanding' PROVE q = run' \/ q = create' \/ q \in left'
      <3>1. CASE q = r BY <2>3, <3>1
      <3>2. CASE q # r
        <4>1. q \in Server!Outstanding /\ q \in Runs
          BY <2>2, <2>7, <3>2 DEF Server!Outstanding, Server!InState
        <4>. QED BY <2>3, <4>1
      <3>. QED BY <3>1, <3>2
    <2>8. RequestsKnown' BY <2>2, <2>3
    <2>. QED BY <2>5, <2>6, <2>7, <2>8
  <1>2. CASE Expires(r)
    <2>1. Server!Turnover({r}, {}, {}) BY <1>2 DEF Expires
    <2>. QED BY <1>2, <2>1, TurnoverKeeps DEF Expires, streamVars, callVars
  <1>3. CASE Drained(r)
    <2>1. Server!Turnover({}, {r}, {}) BY <1>3 DEF Drained
    <2>. QED BY <1>3, <2>1, TurnoverKeeps DEF Drained, streamVars, callVars
  <1>4. CASE DeleteArrives(r) /\ lease[r] = "open"
    <2>1. Server!Turnover({r}, {}, {}) BY <1>4 DEF DeleteArrives
    <2>. QED BY <1>4, <2>1, TurnoverKeeps DEF DeleteArrives, streamVars
  <1>5. CASE DeleteArrives(r) /\ lease[r] # "open"
    <2>1. /\ delete' = [delete EXCEPT ![r] = IF lease[r] = "closing" THEN "draining" ELSE "done"]
          /\ delete[r] = "sent"
          /\ UNCHANGED <<lease, users, pc, run, phase, awaited, create, request, target, left, losses>>
      BY <1>5 DEF DeleteArrives, streamVars, server
    <2>2. lease[r] = "closing" \/ lease[r] = "ended" BY <1>5, <2>1 DEF Server!TypeOK
    <2>3. RunsKnown' BY <2>1, <2>2
    <2>4. TypeOK' BY <2>1 DEF Server!TypeOK
    <2>. QED BY <2>1, <2>3, <2>4 DEF Server!Outstanding, Server!InState
  <1>6. CASE DeleteAnswered(r)
    BY <1>6 DEF DeleteAnswered, streamVars, server, Server!TypeOK, Server!Outstanding, Server!InState
  <1>. QED BY <1>1, <1>2, <1>3, <1>4, <1>5, <1>6

LEMMA StreamStep ==
  ASSUME FlowIInv, NEW s \in Streams, Admitted(s) \/ TurnedAway(s) \/ Served(s)
  PROVE  FlowIInv'
  <1>. USE MeasureAssumption
           DEF FlowIInv, TypeOK, Server!TypeOK, OnlyLostRunsLinger, PageHolds, RunsKnown,
               RequestsKnown, Server!Outstanding, Server!InState
  <1>1. CASE Admitted(s) BY <1>1 DEF Admitted, Server!Join, callVars
  <1>2. CASE TurnedAway(s) BY <1>2 DEF TurnedAway, server, callVars
  <1>3. CASE Served(s) BY <1>3 DEF Served, Server!Leave, callVars
  <1>. QED BY <1>1, <1>2, <1>3

-----------------------------------------------------------------------------
(* The page.                                                               *)

LEMMA PageKeeps ==
  ASSUME FlowIInv, Refused \/ PageStep
  PROVE  FlowIInv'
  <1>. USE MeasureAssumption
           DEF FlowIInv, TypeOK, Server!TypeOK, OnlyLostRunsLinger, PageHolds, RunsKnown,
               RequestsKnown, Server!Outstanding, Server!InState
  <1>1. CASE Refused BY <1>1 DEF Refused, server, streamVars
  <1>2. CASE Start BY <1>2 DEF Start, server, streamVars, callVars
  <1>3. CASE Pinged BY <1>3 DEF Pinged, server, streamVars
  <1>4. CASE Created BY <1>4 DEF Created, server, streamVars
  <1>5. CASE CreateFails BY <1>5 DEF CreateFails, Lose, server, streamVars
  <1>6. CASE PhaseBegins
    <2>1. PICK S \in SUBSET {s \in Streams : request[s] = "free"} :
            /\ awaited' = S
            /\ request' = [s \in Streams |-> IF s \in S THEN "queued" ELSE request[s]]
            /\ target' = [s \in Streams |-> IF s \in S THEN run ELSE target[s]]
      BY <1>6 DEF PhaseBegins
    <2>2. /\ pc = "measuring" /\ phase' = phase + 1 /\ phase < Len(Ramp)
          /\ UNCHANGED <<lease, users, pc, run, create, delete, left, losses>>
      BY <1>6 DEF PhaseBegins, server, callVars
    <2>3. Len(Ramp) \in Nat OBVIOUS
    <2>4. phase' \in 0..Len(Ramp) BY <2>2, <2>3
    <2>5. TypeOK' BY <2>1, <2>2, <2>4
    <2>6. RequestsKnown' BY <2>1, <2>2
    <2>. QED BY <2>2, <2>5, <2>6
  <1>7. CASE MeasuringFails BY <1>7 DEF MeasuringFails, GiveUp, server
  <1>8. CASE Measured BY <1>8 DEF Measured, server, streamVars
  <1>9. ASSUME NEW s \in Streams, Settles(s) PROVE FlowIInv'
    BY <1>9 DEF Settles, server, callVars
  <1>10. CASE Closed BY <1>10 DEF Closed, server, streamVars
  <1>11. CASE CloseLost BY <1>11 DEF CloseLost, Lose, server, streamVars
  <1>12. CASE Saved BY <1>12 DEF Saved, server, streamVars
  <1>13. CASE Finished BY <1>13 DEF Finished, Lose, server, streamVars
  <1>14. CASE Reload BY <1>14 DEF Reload, Lose, GiveUp, server
  <1>. QED BY <1>1, <1>2, <1>3, <1>4, <1>5, <1>6, <1>7, <1>8, <1>9, <1>10, <1>11, <1>12, <1>13,
              <1>14 DEF PageStep

LEMMA FlowStep == FlowIInv /\ [Next]_vars => FlowIInv'
  <1>. SUFFICES ASSUME FlowIInv, [Next]_vars PROVE FlowIInv' OBVIOUS
  <1>1. CASE UNCHANGED vars
    BY <1>1 DEF vars, FlowIInv, TypeOK, Server!TypeOK, OnlyLostRunsLinger, PageHolds, RunsKnown,
                RequestsKnown, Server!Outstanding, Server!InState
  <1>. QED BY <1>1, TurnoverStep, StreamStep, PageKeeps DEF Next, ServerStep
-----------------------------------------------------------------------------
(* Admission.                                                              *)

\* The server has slots for the largest phase, if not for the whole ramp.
PhasesFit ==
  /\ IsFiniteSet(Streams) /\ MaxStreams \in Nat
  /\ \A i \in 1..Len(Ramp) : Ramp[i] <= MaxStreams

\* Nor does the page wait for more.
AwaitedFit == IsFiniteSet(awaited) /\ Cardinality(awaited) <= MaxStreams

LEMMA FewerFit ==
  ASSUME AwaitedFit, MaxStreams \in Nat, awaited' \subseteq awaited
  PROVE  AwaitedFit'
  <1>1. /\ IsFiniteSet(awaited') /\ Cardinality(awaited') <= Cardinality(awaited)
        /\ Cardinality(awaited) \in Nat /\ Cardinality(awaited') \in Nat
    BY FS_Subset, FS_CardinalityType DEF AwaitedFit
  <1>. QED BY <1>1 DEF AwaitedFit

LEMMA PhaseFits ==
  ASSUME PhasesFit, FlowIInv, PhaseBegins
  PROVE  AwaitedFit'
  <1>1. PICK S \in SUBSET {s \in Streams : request[s] = "free"} :
          Cardinality(S) = Ramp[phase + 1] /\ awaited' = S
    BY DEF PhaseBegins
  <1>2. phase + 1 \in 1..Len(Ramp)
    BY MeasureAssumption DEF PhaseBegins, FlowIInv, TypeOK
  <1>3. IsFiniteSet(S) BY <1>1, FS_Subset DEF PhasesFit
  <1>. QED BY <1>1, <1>2, <1>3 DEF PhasesFit, AwaitedFit

LEMMA AwaitedStep ==
  ASSUME PhasesFit, FlowIInv, AwaitedFit, [Next]_vars
  PROVE  AwaitedFit'
  <1>1. CASE PhaseBegins BY <1>1, PhaseFits
  <1>2. CASE ~ PhaseBegins
    <2>1. awaited' \subseteq awaited
      BY <1>2 DEF Next, ServerStep, PageStep, vars, Granted, Expires, Drained, DeleteArrives,
                  DeleteAnswered, Refused, Admitted, TurnedAway, Served, Start, Pinged, Created,
                  CreateFails, MeasuringFails, GiveUp, Measured, Settles, Closed, CloseLost, Saved,
                  Finished, Reload
    <2>. QED BY <2>1, FewerFit DEF PhasesFit
  <1>. QED BY <1>1, <1>2

\* Only the server turns a request away.
LEMMA OnlyTurnedAway ==
  ASSUME FlowIInv, [Next]_vars, NEW s \in Streams,
         request[s] = "queued", request'[s] = "refused"
  PROVE  TurnedAway(s)
  <1>. USE DEF FlowIInv, TypeOK
  <1>1. ASSUME NEW t \in Streams, Admitted(t) \/ TurnedAway(t) \/ Served(t) \/ Settles(t)
        PROVE  t = s /\ TurnedAway(s)
    BY <1>1 DEF Admitted, TurnedAway, Served, Settles
  <1>2. ASSUME NEW r \in Runs,
               Granted(r) \/ Expires(r) \/ Drained(r) \/ DeleteArrives(r) \/ DeleteAnswered(r)
        PROVE  FALSE
    BY <1>2 DEF Granted, Expires, Drained, DeleteArrives, DeleteAnswered, streamVars
  <1>3. ~ (PhaseBegins \/ MeasuringFails \/ Reload)
    BY DEF PhaseBegins, MeasuringFails, Reload, GiveUp
  <1>4. ~ (\/ Refused \/ Start \/ Pinged \/ Created \/ CreateFails \/ Measured
           \/ Closed \/ CloseLost \/ Saved \/ Finished \/ UNCHANGED vars)
    BY DEF Refused, Start, Pinged, Created, CreateFails, Measured, Closed, CloseLost, Saved,
           Finished, vars, streamVars
  <1>. QED BY <1>1, <1>2, <1>3, <1>4 DEF Next, ServerStep, PageStep

\* A request on its way uses no slot yet: with its siblings alone there is one left for it.
LEMMA SlotIsLeft ==
  ASSUME FlowIInv, AwaitedFit, MaxStreams \in Nat, NEW s \in awaited, request[s] = "queued",
         users[target[s]] \subseteq awaited
  PROVE  ~ (Cardinality(users[target[s]]) >= MaxStreams)
  <1>. DEFINE inside == users[target[s]]
  <1>1. target[s] \in Runs BY DEF FlowIInv, RequestsKnown, TypeOK
  <1>2. inside \in SUBSET (awaited \ {s})
    BY <1>1 DEF FlowIInv, RequestsKnown, TypeOK, Server!TypeOK
  <1>. HIDE DEF inside
  <1>3. IsFiniteSet(awaited \ {s}) /\ Cardinality(awaited \ {s}) = Cardinality(awaited) - 1
    BY FS_RemoveElement DEF AwaitedFit
  <1>4. Cardinality(inside) <= Cardinality(awaited \ {s}) /\ IsFiniteSet(inside)
    BY <1>2, <1>3, FS_Subset
  <1>5. Cardinality(awaited) \in Nat /\ Cardinality(inside) \in Nat
    BY <1>4, FS_CardinalityType DEF AwaitedFit
  <1>6. ~ (Cardinality(inside) >= MaxStreams) BY <1>3, <1>4, <1>5 DEF AwaitedFit
  <1>. QED BY <1>6 DEF inside

LEMMA TurnedAwayByOthers ==
  ASSUME PhasesFit, FlowIInv, AwaitedFit, [Next]_vars, NEW s \in Streams,
         request[s] = "queued", request'[s] = "refused", lease[target[s]] = "open"
  PROVE  \E t \in users[target[s]] : t \notin awaited
  <1>1. TurnedAway(s) BY OnlyTurnedAway
  <1>2. s \in awaited /\ Cardinality(users[target[s]]) >= MaxStreams
    BY <1>1 DEF TurnedAway, FlowIInv, TypeOK
  <1>3. ~ (users[target[s]] \subseteq awaited) BY <1>2, SlotIsLeft DEF PhasesFit
  <1>. QED BY <1>3
-----------------------------------------------------------------------------
(* The theorems.                                                           *)

\* The inductive invariant of page and server.
THEOREM FlowInductive == Spec => []FlowIInv
  BY InitFlow, FlowStep, PTL DEF Spec

\* The server of the flow is one that RunLeases allows, as the registry is one: whatever the
\* page asks for, gives up or loses, it takes the steps of the leases only.
THEOREM FlowDrivesLeases == Spec => Server!Spec
  <1>1. Init => Server!Init BY DEF Init
  <1>2. ASSUME NEW begin, NEW end, NEW grant, Server!Turnover(begin, end, grant)
        PROVE  Server!Next
    <2>1. /\ begin \in SUBSET Server!InState("open")
          /\ end \in SUBSET (Server!InState("closing") \cup begin)
          /\ grant \in SUBSET Server!InState("none")
      BY <1>2 DEF Server!Turnover
    <2>. QED BY <1>2, <2>1 DEF Server!Next
  <1>3. FlowIInv /\ [Next]_vars => [Server!Next]_(Server!vars)
    <2>. SUFFICES ASSUME FlowIInv, [Next]_vars PROVE Server!Next \/ UNCHANGED server
      BY DEF Server!vars, server
    <2>1. ASSUME NEW r \in Runs,
                 Granted(r) \/ Expires(r) \/ Drained(r) \/ DeleteArrives(r) \/ DeleteAnswered(r)
          PROVE  Server!Next \/ UNCHANGED server
      BY <1>2, <2>1 DEF Granted, Expires, Drained, DeleteArrives, DeleteAnswered
    <2>2. ASSUME NEW s \in Streams, Admitted(s) \/ TurnedAway(s) \/ Served(s)
          PROVE  Server!Next \/ UNCHANGED server
      <3>1. Admitted(s) \/ Served(s) => target[s] \in Runs
        BY DEF FlowIInv, RequestsKnown, Admitted, Served
      <3>. QED BY <2>2, <3>1 DEF Admitted, TurnedAway, Served, Server!Next
    <2>3. CASE Refused \/ PageStep \/ UNCHANGED vars
      BY <2>3 DEF Refused, PageStep, Start, Pinged, Created, CreateFails, PhaseBegins,
                  MeasuringFails, Measured, Settles, Closed, CloseLost, Saved, Finished, Reload,
                  vars, server
    <2>. QED BY <2>1, <2>2, <2>3 DEF Next, ServerStep
  <1>. QED BY <1>1, <1>3, FlowInductive, PTL DEF Spec, Server!Spec

\* However many requests are lost and pages closed, a run that stays on the server is the one
\* in use or one the page has lost sight of.
THEOREM OnlyLostRunsEverLinger == Spec => []FlowInv
  <1>1. FlowIInv => FlowInv BY DEF FlowIInv, FlowInv
  <1>. QED BY <1>1, FlowInductive, PTL

\* Whatever the ramp, with slots for its largest phase: what an open run turns away lost its
\* slot to a phase before, never to its own.
THEOREM SiblingsAlwaysFit ==
  ASSUME PhasesFit
  PROVE  Spec => SiblingsNeverCrowdOut
  <1>1. Init => AwaitedFit BY FS_EmptySet DEF Init, AwaitedFit, PhasesFit
  <1>2. FlowIInv /\ AwaitedFit /\ [Next]_vars => AwaitedFit' BY AwaitedStep
  <1>3. FlowIInv /\ AwaitedFit /\ [Next]_vars
          => [\A s \in Streams :
               request[s] = "queued" /\ request'[s] = "refused" /\ lease[target[s]] = "open"
                 => \E t \in users[target[s]] : t \notin awaited]_vars
    BY TurnedAwayByOthers
  <1>. QED BY <1>1, <1>2, <1>3, FlowInductive, PTL DEF Spec, SiblingsNeverCrowdOut
=============================================================================
