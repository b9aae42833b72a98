---------------------------- MODULE UploadPhase ----------------------------
(***************************************************************************)
(* One upload phase of the browser (web/src/features/speed/protocol.ts):   *)
(* uploadWorker posts one chunk after the other until its time is over and *)
(* counts what the server acknowledges; upload() waits for all workers.    *)
(*                                                                         *)
(* A worker that is stopped ends at once in every browser: where the       *)
(* pending request settles when it is aborted the catch block drops the    *)
(* error, elsewhere the stop promise wins the race.                        *)
(***************************************************************************)
EXTENDS Naturals, FiniteSets, FiniteSetsExt

CONSTANTS
  Workers,      \* the streams of the phase
  MaxRequests   \* MAX_UPLOAD_REQUESTS

VARIABLES
  pc,        \* where each worker is
  requests,  \* the requests it has made
  acked,     \* ackBytes, in chunks
  samples,   \* the length of its samples
  timer,     \* its timer
  ticked,    \* the workers that have seen now() move on since they started
  parent,    \* whether the signal of the direction is aborted
  outcome,   \* what upload() has done
  result     \* what it has returned

vars == <<pc, requests, acked, samples, timer, ticked, parent, outcome, result>>
counts == <<requests, acked, samples>>

Empty == [acked |-> 0, sampled |-> {}]

TypeOK ==
  /\ pc \in [Workers -> {"posting", "parsing", "ended", "failed"}]
  /\ requests \in [Workers -> 1..MaxRequests]
  /\ acked \in [Workers -> Nat]
  /\ samples \in [Workers -> Nat]
  /\ timer \in [Workers -> {"armed", "fired", "cleared"}]
  /\ ticked \in SUBSET Workers
  /\ parent \in BOOLEAN
  /\ outcome \in {"running", "returned", "thrown"}
  /\ result.sampled \in SUBSET Workers

\* The workers are started one after the other: the clock may move on among them.
Init ==
  /\ pc = [w \in Workers |-> "posting"]
  /\ requests = [w \in Workers |-> 1]
  /\ acked = [w \in Workers |-> 0]
  /\ samples = [w \in Workers |-> 0]
  /\ timer = [w \in Workers |-> "armed"]
  /\ ticked \in SUBSET Workers
  /\ parent = FALSE /\ outcome = "running" /\ result = Empty
-----------------------------------------------------------------------------
Busy(w) == pc[w] \in {"posting", "parsing"}

\* Promise.all has settled; its reaction runs before any other event.
AllEnded == \A w \in Workers : pc[w] = "ended"
SomeFailed == \E w \in Workers : pc[w] = "failed"
Settled == outcome = "running" /\ (AllEnded \/ SomeFailed)

\* What all workers have of f.
Total(f) == MapThenSumSet(LAMBDA w : f[w], Workers)

\* Fault: acknowledged bytes without a timed sample do not become one.
OneSampleNone(w, n, k) == k

\* Bytes that no timed sample stands for become one when worker w returns, unless the rate
\* is 0, which it is as long as no time has passed (mbps).
OneSample(w, n, k) == IF n > 0 /\ k = 0 /\ w \in ticked THEN 1 ELSE k
-----------------------------------------------------------------------------
\* now() is coarse and may stand still while a worker begins and ends; when it moves on,
\* every worker that still runs sees it.
ClockMoves ==
  /\ {w \in Workers : Busy(w)} \ ticked # {}
  /\ ticked' = ticked \cup {w \in Workers : Busy(w)}
  /\ UNCHANGED <<pc, counts, timer, parent, outcome, result>>

Responds(w) ==
  /\ ~ Settled
  /\ pc[w] = "posting"
  /\ pc' = [pc EXCEPT ![w] = "parsing"]
  /\ UNCHANGED <<counts, timer, ticked, parent, outcome, result>>

\* The acknowledgement is parsed; it may be for a part of the chunk, or for nothing. due:
\* the next 250ms have passed; over: the phase has. The loop goes on while it may.
Acknowledged(w) ==
  /\ ~ Settled
  /\ pc[w] = "parsing"
  /\ \E n \in 0..1, due, over \in BOOLEAN :
       LET k == IF due THEN samples[w] + 1 ELSE samples[w] IN
       /\ due \/ over => w \in ticked
       /\ acked' = [acked EXCEPT ![w] = @ + n]
       /\ \/ /\ ~ over /\ requests[w] < MaxRequests
             /\ pc' = [pc EXCEPT ![w] = "posting"]
             /\ requests' = [requests EXCEPT ![w] = @ + 1]
             /\ samples' = [samples EXCEPT ![w] = k]
             /\ UNCHANGED timer
          \/ /\ over \/ requests[w] = MaxRequests
             /\ pc' = [pc EXCEPT ![w] = "ended"]
             /\ samples' = [samples EXCEPT ![w] = OneSample(w, acked[w] + n, k)]
             /\ timer' = [timer EXCEPT ![w] = "cleared"]
             /\ UNCHANGED requests
  /\ UNCHANGED <<ticked, parent, outcome, result>>

\* The request fails or is refused, or its answer cannot be parsed.
Fails(w) ==
  /\ ~ Settled
  /\ Busy(w)
  /\ pc' = [pc EXCEPT ![w] = "failed"]
  /\ timer' = [timer EXCEPT ![w] = "cleared"]
  /\ UNCHANGED <<counts, ticked, parent, outcome, result>>

\* The workers of W are stopped: what was acknowledged before counts.
Stop(W) ==
  /\ pc' = [w \in Workers |-> IF w \in W THEN "ended" ELSE pc[w]]
  /\ samples' = [w \in Workers |->
                   IF w \in W THEN OneSample(w, acked[w], samples[w]) ELSE samples[w]]

\* Fault: the timer aborts the request and the worker waits for it to settle.
TimesOutUnraced(w) ==
  /\ ~ Settled
  /\ Busy(w) /\ timer[w] = "armed" /\ w \in ticked
  /\ timer' = [timer EXCEPT ![w] = "fired"]
  /\ UNCHANGED <<pc, counts, ticked, parent, outcome, result>>

TimesOut(w) ==
  /\ ~ Settled
  /\ Busy(w) /\ timer[w] = "armed" /\ w \in ticked
  /\ timer' = [timer EXCEPT ![w] = "fired"]
  /\ Stop({w})
  /\ UNCHANGED <<requests, acked, ticked, parent, outcome, result>>

\* The direction is timed out, or cancelled by the user.
Abort ==
  /\ ~ Settled
  /\ ~ parent
  /\ parent' = TRUE
  /\ Stop({w \in Workers : Busy(w)})
  /\ timer' = [w \in Workers |-> IF Busy(w) THEN "cleared" ELSE timer[w]]
  /\ UNCHANGED <<requests, acked, ticked, outcome, result>>

\* Fault: upload() returns with the first worker.
ReturnsFirst ==
  /\ outcome = "running"
  /\ \E w \in Workers : pc[w] = "ended"
  /\ outcome' = "returned"
  /\ result' = [acked |-> Total(acked),
                sampled |-> {w \in Workers : samples[w] > 0}]
  /\ UNCHANGED <<pc, counts, timer, ticked, parent>>

Returns ==
  /\ outcome = "running"
  /\ AllEnded
  /\ outcome' = "returned"
  /\ result' = [acked |-> Total(acked),
                sampled |-> {w \in Workers : samples[w] > 0}]
  /\ UNCHANGED <<pc, counts, timer, ticked, parent>>

\* Unlike download(), upload() leaves the other workers alone.
Throws ==
  /\ outcome = "running"
  /\ SomeFailed
  /\ outcome' = "thrown"
  /\ UNCHANGED <<pc, counts, timer, ticked, parent, result>>

Done == outcome # "running" /\ (\A w \in Workers : ~ Busy(w)) /\ UNCHANGED vars
-----------------------------------------------------------------------------
Next ==
  \/ \E w \in Workers : Responds(w) \/ Acknowledged(w) \/ Fails(w) \/ TimesOut(w)
  \/ ClockMoves \/ Abort \/ Returns \/ Throws \/ Done

\* Time passes, timers fire and promise reactions run; the server owes the browser nothing.
Fairness ==
  /\ WF_vars(ClockMoves) /\ \A w \in Workers : WF_vars(TimesOut(w))
  /\ WF_vars(Returns) /\ WF_vars(Throws)

Spec == Init /\ [][Next]_vars

FairSpec == Spec /\ Fairness
-----------------------------------------------------------------------------
\* What upload() returns is everything the server has acknowledged, for good: no worker is
\* still counting (protocol.ts:177, 272, 280).
ResultIsComplete ==
  outcome = "returned" => result.acked = Total(acked)

\* Every worker with acknowledged bytes has a part in the rate, also one that was stopped
\* before its first timed sample, unless it was over before the clock moved
\* (protocol.ts:188-189).
AcknowledgedIsSampled ==
  outcome = "returned" => {w \in ticked : acked[w] > 0} \subseteq result.sampled

\* The result is complete and represented, in states of the right type: no worker exceeds
\* its requests.
UploadPhaseInv == TypeOK /\ ResultIsComplete /\ AcknowledgedIsSampled

\* upload() comes to an end although no request ever settles, and so does every worker that
\* it leaves behind when it throws.
PhaseEnds == <>(outcome # "running" /\ \A w \in Workers : ~ Busy(w))
=============================================================================
