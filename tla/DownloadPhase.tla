--------------------------- MODULE DownloadPhase ---------------------------
(***************************************************************************)
(* One download phase of the browser (web/src/features/speed/protocol.ts): *)
(* a worker per stream, each with its watchdog, the aggregate timeout over *)
(* all of them, and the snapshot that download() returns.                  *)
(*                                                                         *)
(* JavaScript runs to completion: what the code does between two awaits is *)
(* one step, together with the event that ended the wait.  Timers keep the *)
(* order HTML gives them: the aggregate timeout, set after the watchdogs   *)
(* and longer than they, fires after them.  The drain timeout is set later *)
(* than both and has no such order.                                        *)
(***************************************************************************)
EXTENDS Naturals, FiniteSets, FiniteSetsExt

CONSTANTS
  Workers,    \* the streams of the phase
  Browsers,   \* the kinds of browser: "honours abort", "ignores abort"
  MaxChunks   \* a bound: chunks a stream delivers

ASSUME DownloadAssumption ==
  /\ IsFiniteSet(Workers) /\ MaxChunks \in Nat
  /\ Browsers \subseteq {"honours abort", "ignores abort"}

VARIABLES
  browser,     \* whether its pending fetch and read settle when they are aborted
  pc,          \* where each worker is
  bytes,       \* progress.bytes, in chunks
  samples,     \* the length of progress.samples
  incomplete,  \* the workers with progress.incomplete set
  watchdog,    \* each worker's timer
  ticked,      \* the workers that have seen now() move on since they started
  parent,      \* whether the signal of the phase is aborted
  cutShort,    \* history: the workers ended by their watchdog
  outcome,     \* what download() has done
  result       \* the snapshot it returned

vars == <<browser, pc, bytes, samples, incomplete, watchdog, ticked, parent, cutShort, outcome,
          result>>
progress == <<bytes, samples, incomplete>>

Empty == [bytes |-> 0, sampled |-> {}, incomplete |-> 0]

TypeOK ==
  /\ browser \in Browsers
  /\ pc \in [Workers -> {"fetching", "reading", "draining", "failing", "settled", "failed"}]
  /\ bytes \in [Workers -> 0..MaxChunks]
  /\ samples \in [Workers -> Nat]
  /\ incomplete \in SUBSET Workers
  /\ watchdog \in [Workers -> {"armed", "fired", "cleared"}]
  /\ ticked \in SUBSET Workers
  /\ parent \in BOOLEAN
  /\ cutShort \in SUBSET Workers
  /\ outcome \in {"running", "returned", "thrown"}
  /\ result.sampled \in SUBSET Workers /\ result.incomplete \in 0..Cardinality(Workers)

\* The workers are started one after the other: the clock may move on among them.
Init ==
  /\ browser \in Browsers
  /\ pc = [w \in Workers |-> "fetching"]
  /\ bytes = [w \in Workers |-> 0]
  /\ samples = [w \in Workers |-> 0]
  /\ incomplete = {}
  /\ watchdog = [w \in Workers |-> "armed"]
  /\ ticked \in SUBSET Workers
  /\ parent = FALSE
  /\ cutShort = {}
  /\ outcome = "running"
  /\ result = Empty
-----------------------------------------------------------------------------
Waiting(w) == pc[w] \in {"fetching", "reading"}
Ended(w) == pc[w] \in {"settled", "failed"}
Frozen == outcome # "running"

\* Promise.all has settled; its reaction runs before any other event.
AllSettled == \A w \in Workers : pc[w] = "settled"
SomeFailed == \E w \in Workers : pc[w] = "failed"
Settled == outcome = "running" /\ (AllSettled \/ SomeFailed)

Clear(w) == watchdog' = [watchdog EXCEPT ![w] = IF @ = "armed" THEN "cleared" ELSE @]

\* Fault: a stream that ends after the phase is given its sample all the same.
FinalSampleThawed(w) ==
  samples' = [samples EXCEPT ![w] =
    IF w \in ticked /\ bytes[w] > 0 /\ @ = 0 THEN 1 ELSE @]

\* The last part of the finally block: a stream with bytes and no sample gets one, unless
\* the rate is 0, which it is as long as no time has passed (mbps).
FinalSample(w) ==
  samples' = [samples EXCEPT ![w] =
    IF ~ Frozen /\ ~ parent /\ w \in ticked /\ bytes[w] > 0 /\ @ = 0 THEN 1 ELSE @]
-----------------------------------------------------------------------------
(* A worker                                                                *)

\* now() is coarse and may stand still while a stream begins and ends; when it moves on,
\* every worker that still runs sees it.
ClockMoves ==
  /\ {w \in Workers : ~ Ended(w)} \ ticked # {}
  /\ ticked' = ticked \cup {w \in Workers : ~ Ended(w)}
  /\ UNCHANGED <<browser, pc, progress, watchdog, parent, cutShort, outcome, result>>

FetchResolves(w) ==
  /\ ~ Settled /\ ~ parent
  /\ pc[w] = "fetching"
  /\ pc' = [pc EXCEPT ![w] = "reading"]
  /\ UNCHANGED <<browser, progress, watchdog, ticked, parent, cutShort, outcome, result>>

\* The request is rejected, or answered with an error: there is no reader to cancel.
FetchFails(w) ==
  /\ ~ Settled /\ ~ parent
  /\ pc[w] = "fetching"
  /\ pc' = [pc EXCEPT ![w] = "failed"]
  /\ Clear(w)
  /\ UNCHANGED <<browser, progress, ticked, parent, cutShort, outcome, result>>

\* Fault: a late chunk counts although the phase is over.
ChunkUnfrozen(w) ==
  /\ pc[w] = "reading"
  /\ bytes[w] < MaxChunks
  /\ bytes' = [bytes EXCEPT ![w] = @ + 1]
  /\ \E due, over \in BOOLEAN :
       /\ (due \/ over => w \in ticked) /\ (over /\ samples[w] = 0 => due)
       /\ samples' = [samples EXCEPT ![w] = IF due THEN @ + 1 ELSE @]
       /\ IF over THEN Clear(w) ELSE UNCHANGED watchdog
       /\ pc' = [pc EXCEPT ![w] = IF over THEN "draining" ELSE "reading"]
  /\ UNCHANGED <<browser, incomplete, ticked, parent, cutShort, outcome, result>>

\* A chunk is read; it may have arrived together with the failure of another worker and
\* be handled only after the phase was aborted. due: the next 250ms have passed; over:
\* the whole phase has, so that a worker without a sample takes its first one now.
Chunk(w) ==
  /\ pc[w] = "reading"
  /\ bytes[w] < MaxChunks
  /\ bytes' = [bytes EXCEPT ![w] = IF Frozen THEN @ ELSE @ + 1]
  /\ \E due, over \in BOOLEAN :
       /\ (due \/ over => w \in ticked) /\ (over /\ samples[w] = 0 => due)
       /\ samples' = [samples EXCEPT ![w] = IF ~ Frozen /\ due THEN @ + 1 ELSE @]
       /\ IF over THEN Clear(w) ELSE UNCHANGED watchdog
       /\ pc' = [pc EXCEPT ![w] = IF over THEN "draining" ELSE "reading"]
  /\ UNCHANGED <<browser, incomplete, ticked, parent, cutShort, outcome, result>>

EndOfStream(w) ==
  /\ pc[w] = "reading"
  /\ pc' = [pc EXCEPT ![w] = "settled"]
  /\ Clear(w)
  /\ FinalSample(w)
  /\ UNCHANGED <<browser, bytes, incomplete, ticked, parent, cutShort, outcome, result>>

ReadFails(w) ==
  /\ ~ Settled /\ ~ parent
  /\ pc[w] = "reading"
  /\ pc' = [pc EXCEPT ![w] = "failing"]
  /\ Clear(w)
  /\ UNCHANGED <<browser, progress, ticked, parent, cutShort, outcome, result>>

\* Out of the loop without an end of stream: a reader is cancelled, a fetch has none.
Leave(w) == pc' = [pc EXCEPT ![w] = IF @ = "reading" THEN "draining" ELSE "settled"]

markIncomplete(w) ==
  /\ incomplete' = incomplete \cup {w}
  /\ samples' = [samples EXCEPT ![w] = IF bytes[w] > 0 THEN @ + 1 ELSE @]

\* Fault: a stream that its watchdog ends is not marked.
WatchdogUnmarked(w) ==
  /\ ~ Settled /\ ~ parent
  /\ Waiting(w) /\ w \in ticked
  /\ watchdog' = [watchdog EXCEPT ![w] = "fired"]
  /\ cutShort' = cutShort \cup {w}
  /\ Leave(w)
  /\ UNCHANGED <<browser, bytes, samples, incomplete, ticked, parent, outcome, result>>

\* cancel() aborts the controller first and resolves the stop promise second. Where the
\* pending fetch or read settles on abort, its rejection wins the race and the catch
\* block drops it; otherwise the stop promise wins and the worker marks itself.
Watchdog(w) ==
  /\ ~ Settled /\ ~ parent
  /\ Waiting(w) /\ w \in ticked
  /\ watchdog' = [watchdog EXCEPT ![w] = "fired"]
  /\ cutShort' = cutShort \cup {w}
  /\ Leave(w)
  /\ IF browser = "honours abort" THEN UNCHANGED <<samples, incomplete>> ELSE markIncomplete(w)
  /\ UNCHANGED <<browser, bytes, ticked, parent, outcome, result>>

\* Fault: the worker waits for reader.cancel() however long it takes.
DrainedByReaderOnly(w) ==
  /\ ~ Settled
  /\ pc[w] \in {"draining", "failing"}
  /\ browser = "honours abort"
  /\ pc' = [pc EXCEPT ![w] = IF @ = "failing" THEN "failed" ELSE "settled"]
  /\ FinalSample(w)
  /\ UNCHANGED <<browser, bytes, incomplete, watchdog, ticked, parent, cutShort, outcome, result>>

\* reader.cancel() has settled, or 250ms have passed.
Drained(w) ==
  /\ ~ Settled
  /\ pc[w] \in {"draining", "failing"}
  /\ pc' = [pc EXCEPT ![w] = IF @ = "failing" THEN "failed" ELSE "settled"]
  /\ FinalSample(w)
  /\ UNCHANGED <<browser, bytes, incomplete, watchdog, ticked, parent, cutShort, outcome, result>>
-----------------------------------------------------------------------------
(* download()                                                              *)

\* Aborting the phase runs cancel() of every worker that still listens. The parent is
\* aborted by then, so markIncomplete does nothing.
AbortPhase ==
  /\ parent' = TRUE
  /\ pc' = [w \in Workers |-> CASE pc[w] = "fetching" -> "settled"
                                [] pc[w] = "reading" -> "draining"
                                [] OTHER -> pc[w]]
  /\ watchdog' = [w \in Workers |-> IF Waiting(w) THEN "cleared" ELSE watchdog[w]]

\* Fault: being cancelled counts as being cut short.
CancelMarks ==
  /\ ~ Settled
  /\ outcome = "running" /\ ~ parent
  /\ AbortPhase
  /\ incomplete' = incomplete \cup {w \in Workers : Waiting(w)}
  /\ UNCHANGED <<browser, bytes, samples, ticked, cutShort, outcome, result>>

\* The direction is stopped from outside: timed out, or cancelled by the user.
Cancel ==
  /\ ~ Settled
  /\ outcome = "running" /\ ~ parent
  /\ AbortPhase
  /\ UNCHANGED <<browser, progress, ticked, cutShort, outcome, result>>

\* What all streams have of f.
Total(f) == MapThenSumSet(LAMBDA w : f[w], Workers)

\* Fault: a stream that never settled does not count as incomplete.
SnapshotOfMarked ==
  [bytes |-> Total(bytes),
   sampled |-> {w \in Workers : samples[w] > 0},
   incomplete |-> Cardinality(incomplete)]

\* What download() returns: incompleteStreams counts the marked and the unsettled.
Snapshot ==
  [bytes |-> Total(bytes),
   sampled |-> {w \in Workers : samples[w] > 0},
   incomplete |-> Cardinality({w \in Workers : w \in incomplete \/ ~ Ended(w)})]

Returns ==
  /\ outcome = "running"
  /\ AllSettled
  /\ outcome' = "returned"
  /\ result' = Snapshot
  /\ UNCHANGED <<browser, pc, progress, watchdog, ticked, parent, cutShort>>

\* Fault: siblings are left running when a worker fails.
ThrowsAlone ==
  /\ outcome = "running"
  /\ SomeFailed
  /\ outcome' = "thrown"
  /\ UNCHANGED <<browser, pc, progress, watchdog, ticked, parent, cutShort, result>>

\* The catch block: every stream is frozen, then the phase aborted.
Throws ==
  /\ outcome = "running"
  /\ SomeFailed
  /\ outcome' = "thrown"
  /\ parent' = TRUE
  /\ UNCHANGED <<browser, pc, progress, watchdog, ticked, cutShort, result>>

\* A sibling gets to its await, where the stop promise is resolved or the read rejected.
SiblingStops(w) ==
  /\ outcome = "thrown" /\ parent
  /\ Waiting(w)
  /\ Clear(w)
  /\ Leave(w)
  /\ UNCHANGED <<browser, progress, ticked, parent, cutShort, outcome, result>>

AggregateTimeout ==
  /\ outcome = "running"
  /\ ~ Settled
  /\ \A w \in Workers : watchdog[w] # "armed" /\ (Ended(w) \/ w \in ticked)
  /\ outcome' = "returned"
  /\ result' = Snapshot
  /\ AbortPhase
  /\ UNCHANGED <<browser, progress, ticked, cutShort>>

Done == Frozen /\ (\A w \in Workers : Ended(w)) /\ UNCHANGED vars
-----------------------------------------------------------------------------
Next ==
  \/ \E w \in Workers :
       \/ FetchResolves(w) \/ FetchFails(w) \/ Chunk(w) \/ EndOfStream(w) \/ ReadFails(w)
       \/ Watchdog(w) \/ Drained(w) \/ SiblingStops(w)
  \/ ClockMoves \/ Cancel \/ Returns \/ Throws \/ AggregateTimeout \/ Done

\* Time passes, timers fire and promise reactions run; the network owes the browser nothing.
Fairness ==
  /\ WF_vars(ClockMoves)
  /\ \A w \in Workers : WF_vars(Watchdog(w)) /\ WF_vars(Drained(w))
                        /\ WF_vars(SiblingStops(w))
  /\ WF_vars(Returns) /\ WF_vars(Throws) /\ WF_vars(AggregateTimeout)

Spec == Init /\ [][Next]_vars

FairSpec == Spec /\ Fairness
-----------------------------------------------------------------------------
\* Once download() has returned or thrown, nothing a worker still does changes what was
\* measured: late chunks are read and dropped (protocol.ts:69, 100-103, 122, 232, 243).
FrozenIsFinal == [][Frozen => UNCHANGED progress]_vars

\* Bytes that are counted are also part of the rate, unless the stream is disclosed as
\* incomplete or was over before the clock moved: a phase nobody stopped never returns more
\* unsampled streams that took bytes and time than it admits (protocol.ts:68-72, 121-129,
\* 248-253).
BytesAreRepresented ==
  [][outcome = "running" /\ outcome' = "returned" /\ ~ parent
       => Cardinality({w \in ticked : bytes[w] > 0} \ result'.sampled)
            <= result'.incomplete]_vars

\* Streams the user or the direction limit stopped are not reported as incomplete
\* (markIncomplete returns early, protocol.ts:67).
OnlyCutShortIsIncomplete == incomplete \subseteq cutShort

\* When one stream fails, its siblings stop at once and not at their own watchdogs.
FailureStopsSiblings == [][outcome = "thrown" => UNCHANGED cutShort]_vars

\* A stream its watchdog ended leaves only a part of what it should have measured, and
\* the result says so.
CutShortIsDisclosed ==
  outcome = "returned" => Cardinality(cutShort) <= result.incomplete

\* Where reads never settle on abort, the watchdog's own promise sees to that: bytes of a
\* stream that hangs are never taken for a complete one (protocol.ts:66-73, 84-95, 251).
IgnoredAbortIsDisclosed == browser = "ignores abort" => CutShortIsDisclosed

\* What was returned stays what the streams have measured, although some may still be
\* reading (protocol.ts:100-103, 236-253).
ResultStands ==
  outcome = "returned" =>
    /\ result.bytes = Total(bytes)
    /\ result.sampled = {w \in Workers : samples[w] > 0}

\* Nothing is called incomplete that was not cut short, nor complete that was and cannot
\* tell, and a result stands, in states of the right type.
DownloadInv ==
  TypeOK /\ OnlyCutShortIsIncomplete /\ IgnoredAbortIsDisclosed /\ ResultStands

\* download() comes to an end even if no read ever settles, and no worker outlives it for
\* ever, holding a stream slot of the server.
PhaseEnds == <>(outcome # "running" /\ \A w \in Workers : Ended(w))
=============================================================================
