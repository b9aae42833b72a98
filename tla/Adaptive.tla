------------------------------ MODULE Adaptive ------------------------------
(***************************************************************************)
(* The adaptive engine of the browser (web/src/features/speed/engine.ts):  *)
(* runAdaptive measures the download direction and then the upload         *)
(* direction; measureDirection runs one phase after the other with more    *)
(* and more streams, races each against the limit of the direction and     *)
(* the user's cancellation, and stops early once more streams do not help. *)
(*                                                                         *)
(* Time is counted in phases of 1.25 seconds.  A phase is whatever the     *)
(* transport makes of it: it may settle at any time or never, and also     *)
(* answer an abort with a result.  The samples of a phase are whole Mbps.   *)
(***************************************************************************)
EXTENDS Naturals, Sequences, FiniteSetsExt, Functions

CONSTANTS
  Ramp,          \* RAMP, the streams of each phase
  Target,        \* TARGET_MS
  Limit,         \* DIRECTION_LIMIT_MS
  MaxDirection,  \* PCC_MAX_DIRECTION_DURATION of the server
  Margin,        \* runCleanupMargin of the server
  Rates,         \* the rates a sample may have
  MaxSamples     \* a bound: samples of a phase

ASSUME AdaptiveAssumption ==
  /\ Ramp \in Seq(Nat \ {0}) /\ Ramp # <<>>
  /\ Target \in Nat /\ Limit \in Nat /\ MaxDirection \in Nat /\ Margin \in Nat
  /\ Rates \subseteq Nat /\ MaxSamples \in Nat

VARIABLES
  direction,  \* the direction being measured
  step,       \* the phase of the ramp
  elapsed,    \* now() - started of the direction
  spent,      \* the time the direction before took
  cancelled,  \* external.aborted
  result,     \* what the direction has measured so far
  download,   \* the result of the download direction
  admitted,   \* history: incomplete streams the phases have reported
  outcome     \* what runAdaptive has done

vars == <<direction, step, elapsed, spent, cancelled, result, download, admitted, outcome>>

Nothing == [rate |-> 0, streams |-> 1, incomplete |-> 0]

Results == [rate : Rates \cup {0}, streams : Nat, incomplete : Nat]

TypeOK ==
  /\ direction \in {"download", "upload"}
  /\ step \in 1..Len(Ramp)
  /\ elapsed \in 0..Limit
  /\ spent \in 0..Limit
  /\ cancelled \in BOOLEAN
  /\ result \in Results
  /\ download \in Results
  /\ admitted \in Nat
  /\ outcome \in {"running", "returned", "cancelled", "failed"}

Init ==
  /\ direction = "download" /\ step = 1 /\ elapsed = 0 /\ spent = 0
  /\ cancelled = FALSE
  /\ result = Nothing /\ download = Nothing /\ admitted = 0
  /\ outcome = "running"
-----------------------------------------------------------------------------
(* What the samples of a phase say                                         *)

\* The element in the middle of the sorted samples, the upper one of two.
median(v) ==
  IF v = <<>> THEN 0
  ELSE CHOOSE m \in Range(v) :
         /\ 2 * Cardinality({i \in DOMAIN v : v[i] < m}) <= Len(v)
         /\ 2 * Cardinality({i \in DOMAIN v : v[i] <= m}) > Len(v)

\* The last two samples differ by at most five percent.
stable(w) ==
  /\ Len(w) >= 2
  /\ LET a == w[Len(w)]
         b == w[Len(w) - 1]
     IN  20 * (IF a > b THEN a - b ELSE b - a) <= Max({1, b})

\* Fault: the first sample counts like the others.
rateOfAll(samples) == median(samples)

\* The first sample counts only when the others come to nothing.
rate(samples) ==
  LET later == IF samples = <<>> THEN 0 ELSE median(Tail(samples))
  IN  IF later # 0 THEN later ELSE median(samples)

Samples == UNION {[1..n -> Rates] : n \in 0..MaxSamples}

\* What the engine takes from the samples of any phase.
Phases == {[rate |-> rate(v), steady |-> stable(v)] : v \in Samples}
-----------------------------------------------------------------------------
\* The loop ends: measureDirection returns res and runAdaptive goes on. Whether the user
\* has cancelled is asked again here.
DirectionReturns(res, gone) ==
  \/ /\ gone
     /\ outcome' = "cancelled"
     /\ UNCHANGED <<direction, step, elapsed, spent, result, download>>
  \/ /\ ~ gone /\ direction = "download"
     /\ direction' = "upload" /\ step' = 1 /\ elapsed' = 0 /\ spent' = elapsed
     /\ download' = res /\ result' = Nothing
     /\ UNCHANGED outcome
  \/ /\ ~ gone /\ direction = "upload"
     /\ outcome' = "returned"
     /\ result' = res
     /\ UNCHANGED <<direction, step, elapsed, spent, download>>

\* More streams gave less than five percent more.
Marginal(r) == result.rate > 0 /\ 20 * r < 21 * result.rate

\* The two break statements after a phase, and the end of the ramp.
Enough(r, steady) ==
  \/ elapsed >= Target /\ (steady \/ Marginal(r))
  \/ elapsed >= Limit
  \/ step = Len(Ramp)

\* Fault: only the last phase is asked whether it was complete.
MeasuredLast(r, missing) ==
  [rate |-> r, streams |-> Ramp[step], incomplete |-> missing]

\* The result once a phase has ended with rate r.
Measured(r, missing) ==
  [rate |-> r, streams |-> Ramp[step], incomplete |-> result.incomplete + missing]
-----------------------------------------------------------------------------
Tick ==
  /\ outcome = "running"
  /\ elapsed < Limit
  /\ elapsed' = elapsed + 1
  /\ UNCHANGED <<direction, step, spent, cancelled, result, download, admitted, outcome>>

\* The work of a phase resolves, with the streams a download admits to have missed.
PhaseEnds(r, steady, missing) ==
  /\ outcome = "running"
  /\ direction = "upload" => missing = 0
  /\ admitted' = IF direction = "download" THEN admitted + missing ELSE admitted
  /\ IF Enough(r, steady)
       THEN DirectionReturns(Measured(r, missing), FALSE)
       ELSE /\ result' = Measured(r, missing)
            /\ step' = step + 1
            /\ UNCHANGED <<direction, elapsed, spent, download, outcome>>
  /\ UNCHANGED cancelled

PhaseFails ==
  /\ outcome = "running"
  /\ outcome' = "failed"
  /\ UNCHANGED <<direction, step, elapsed, spent, cancelled, result, download, admitted>>

\* Fault: the limit aborts the phase, and the engine waits for it to settle.
TimesOutUnraced ==
  /\ outcome = "running"
  /\ elapsed = Limit
  /\ UNCHANGED vars

\* The timer wins the race: what the phases before have measured stands.
TimesOut ==
  /\ outcome = "running"
  /\ elapsed = Limit
  /\ DirectionReturns(result, FALSE)
  /\ UNCHANGED <<cancelled, admitted>>

\* Fault: nobody asks about the user when the loop has ended by itself.
CancelForgotten(r, steady, answers) ==
  /\ outcome = "running"
  /\ cancelled' = TRUE
  /\ IF answers /\ Enough(r, steady)
       THEN DirectionReturns(Measured(r, 0), FALSE)
       ELSE outcome' = "cancelled"
            /\ UNCHANGED <<direction, step, elapsed, spent, result, download>>
  /\ UNCHANGED admitted

\* The user cancels: the stop promise is rejected and the error thrown on; or the work
\* answers the abort with a result first, which ends the loop or meets the test at its top.
Cancel(r, steady, answers) ==
  /\ outcome = "running"
  /\ cancelled' = TRUE
  /\ IF answers /\ Enough(r, steady)
       THEN DirectionReturns(Measured(r, 0), TRUE)
       ELSE outcome' = "cancelled"
            /\ UNCHANGED <<direction, step, elapsed, spent, result, download>>
  /\ UNCHANGED admitted

Done == outcome # "running" /\ UNCHANGED vars
-----------------------------------------------------------------------------
Next ==
  \/ Tick
  \/ \E p \in Phases, missing \in 0..1 : PhaseEnds(p.rate, p.steady, missing)
  \/ PhaseFails
  \/ TimesOut
  \/ \E p \in Phases, answers \in BOOLEAN : Cancel(p.rate, p.steady, answers)
  \/ Done

\* Time passes and the timer of the direction fires. No phase has to settle.
Fairness == WF_vars(Tick) /\ WF_vars(TimesOut)

Spec == Init /\ [][Next]_vars

FairSpec == Spec /\ Fairness
-----------------------------------------------------------------------------
\* Fault: the server allows for one direction.
runTTLOneDirection(limit) == limit + Margin

\* How long the server keeps a run (internal/app/app.go).
runTTL(limit) == 2 * limit + Margin

\* A measurement the user has cancelled is never presented as a result, even if the
\* phases end at the same moment (engine.ts:75, 92, 116, 123).
CancelledIsNoResult == cancelled => outcome # "returned"

\* The run of the server outlives both directions, so that no phase of a measurement
\* that keeps its limits finds its run expired (app.go:52-57, engine.ts:23).
RunOutlivesMeasurement == spent + elapsed <= runTTL(MaxDirection)

\* What a download admits to have missed reaches the result although later phases,
\* complete or cut off by the limit, follow it (engine.ts:79-85, 129).
IncompleteReachesResult ==
  outcome = "returned" => download.incomplete = admitted

\* Nothing that was missed is forgotten and no limit exceeded, in states of the right type:
\* the engine never leaves the ramp.
EngineInv == TypeOK /\ IncompleteReachesResult /\ RunOutlivesMeasurement

\* The rate of a phase is one that half of its samples reach and half do not exceed, where
\* the slow start, which is the first sample, has no vote; and a phase is only said to have
\* measured nothing when most of its samples say so (engine.ts:27-37). It is asked
\* of the phases that may come first.
RateIsTypical ==
  direction = "download" /\ elapsed = 0 /\ outcome = "running" => \A v \in Samples \ {<<>>} :
    LET r == rate(v)
        later == 2..Len(v)
    IN  IF r = 0
          THEN 2 * Cardinality({i \in DOMAIN v : v[i] = 0}) > Len(v)
          ELSE \/ /\ 2 * Cardinality({i \in later : v[i] <= r}) >= Len(v) - 1
                  /\ 2 * Cardinality({i \in later : v[i] >= r}) >= Len(v) - 1
                  /\ later # {}
               \/ 2 * Cardinality({i \in later : v[i] = 0}) >= Len(v) - 1

\* The engine comes to an end although no phase ever settles.
EngineEnds == <>(outcome # "running")
=============================================================================
