---------------------------- MODULE RunRegistry ----------------------------
(***************************************************************************)
(* The server's registry of measurement runs (internal/speedtest/runs.go)  *)
(* driven by the goroutines that use it: the HTTP handlers of              *)
(* internal/app/app.go that create a run, stream on it and delete it, the  *)
(* deadline watcher and the drainer each run owns, and App.Close.          *)
(*                                                                         *)
(* Every section that the code runs under Registry.mu or Run.mu is one     *)
(* action; whatever happens between two sections, or on a channel, is a    *)
(* step of its own.                                                        *)
(***************************************************************************)
EXTENDS Naturals, FiniteSets

CONSTANTS
  Runs,        \* run identifiers; Create draws a fresh one each time
  Owners,      \* session identifiers
  Streams,     \* download and upload requests in flight
  Deletes,     \* DELETE /api/test-runs/ requests in flight
  MaxRuns,     \* Registry.max
  PerOwner,    \* Registry.per
  MaxStreams,  \* Registry.streams, the capacity of Run.slots
  NoRun,       \* the nil *Run
  NoOwner      \* the owner of an identifier not drawn yet

ASSUME RegistryAssumption ==
  /\ IsFiniteSet(Runs) /\ IsFiniteSet(Streams)
  /\ MaxRuns \in Nat \ {0} /\ PerOwner \in Nat \ {0} /\ MaxStreams \in Nat \ {0}
  /\ NoRun \notin Runs
  /\ NoOwner \notin Owners

VARIABLES
  runs,      \* Registry.runs: the runs that occupy capacity
  owner,     \* Run.Owner
  expired,   \* the runs whose deadline Run.Expires has passed
  ctxDone,   \* the runs whose ctx is cancelled or past its deadline
  closed,    \* the runs with Run.closed set
  slots,     \* tokens in Run.slots
  active,    \* the counter of the WaitGroup Run.active
  drained,   \* the runs whose channel Run.drained is closed
  watcher,   \* the goroutine Create starts for a run
  stage,     \* where each streaming handler is
  uses,      \* the *Run each streaming handler works with
  deleting,  \* the *Run whose drain each DELETE handler awaits
  sweeping,  \* the runs CloseAll has still to finish
  shutdown   \* progress of App.Close

runVars == <<runs, owner, expired, ctxDone, closed, drained, watcher>>
countVars == <<slots, active>>
streamVars == <<stage, uses>>
closeVars == <<deleting, sweeping, shutdown>>
vars == <<runs, owner, expired, ctxDone, closed, slots, active, drained, watcher,
          stage, uses, deleting, sweeping, shutdown>>

TypeOK ==
  /\ runs \in SUBSET Runs
  /\ owner \in [Runs -> Owners \cup {NoOwner}]
  /\ expired \in SUBSET Runs
  /\ ctxDone \in SUBSET Runs
  /\ closed \in SUBSET Runs
  /\ slots \in [Runs -> Nat]
  /\ active \in [Runs -> Nat]
  /\ drained \in SUBSET Runs
  /\ watcher \in [Runs -> {"none", "armed", "draining", "exited"}]
  /\ stage \in [Streams -> {"idle", "found", "holding", "releasing"}]
  /\ uses \in [Streams -> Runs \cup {NoRun}]
  /\ deleting \in [Deletes -> Runs \cup {NoRun}]
  /\ sweeping \in SUBSET Runs
  /\ shutdown \in {"up", "closing", "closed"}

Init ==
  /\ runs = {} /\ expired = {} /\ ctxDone = {} /\ closed = {} /\ drained = {}
  /\ owner = [r \in Runs |-> NoOwner]
  /\ slots = [r \in Runs |-> 0]
  /\ active = [r \in Runs |-> 0]
  /\ watcher = [r \in Runs |-> "none"]
  /\ stage = [s \in Streams |-> "idle"]
  /\ uses = [s \in Streams |-> NoRun]
  /\ deleting = [d \in Deletes |-> NoRun]
  /\ sweeping = {}
  /\ shutdown = "up"
-----------------------------------------------------------------------------
(* Closing and sweeping: the parts the operations share.                   *)

\* beginClose on every run of R: the fence and the cancellation are set together
\* under Run.mu, and the drainer is from then on waiting for the streams.
BeginClose(R) ==
  /\ closed' = closed \cup R
  /\ ctxDone' = ctxDone \cup R

\* The runs cleanupLocked closes.
Stale == runs \cap (ctxDone \cup expired)

\* A run that cleanupLocked itself closes, and that no stream uses, may have been
\* drained by its goroutine by the time the select looks at the channel: any
\* subset of those.
DrainedMeanwhile == SUBSET {r \in Stale \ closed : active[r] = 0}

\* Fault: a stale run is forgotten before it is drained.
KeptUndrained(D) == runs \ Stale

\* The runs left in the registry when D were drained meanwhile.
Kept(D) == runs \ (Stale \cap (drained \cup D))

Cleanup(D) ==
  /\ BeginClose(Stale)
  /\ drained' = drained \cup D

OwnedBy(o, R) == {r \in R : owner[r] = o}

\* Fault: the limits are off by one.
FullOffByOne(o, R) ==
  \/ Cardinality(R) > MaxRuns
  \/ Cardinality(OwnedBy(o, R)) > PerOwner

Full(o, R) ==
  \/ Cardinality(R) >= MaxRuns
  \/ Cardinality(OwnedBy(o, R)) >= PerOwner
-----------------------------------------------------------------------------
(* POST /api/test-runs                                                     *)

CreateRefused(o) ==
  \E D \in DrainedMeanwhile :
    /\ Full(o, Kept(D))
    /\ Cleanup(D)
    /\ runs' = Kept(D)
    /\ UNCHANGED <<owner, expired, watcher, countVars, streamVars, closeVars>>

\* Fault: nobody waits for the deadline of the new run.
CreateUnwatched(o, r) ==
  \E D \in DrainedMeanwhile :
    /\ ~ Full(o, Kept(D))
    /\ owner[r] = NoOwner
    /\ Cleanup(D)
    /\ runs' = Kept(D) \cup {r}
    /\ owner' = [owner EXCEPT ![r] = o]
    /\ UNCHANGED <<expired, watcher, countVars, streamVars, closeVars>>

\* rand.Read, between the limits and the new run, never fails (Go 1.24 and later).
CreateGranted(o, r) ==
  \E D \in DrainedMeanwhile :
    /\ ~ Full(o, Kept(D))
    /\ owner[r] = NoOwner
    /\ Cleanup(D)
    /\ runs' = Kept(D) \cup {r}
    /\ owner' = [owner EXCEPT ![r] = o]
    /\ watcher' = [watcher EXCEPT ![r] = "armed"]
    /\ UNCHANGED <<expired, countVars, streamVars, closeVars>>
-----------------------------------------------------------------------------
(* GET .../download and POST .../upload                                    *)

\* The test at the end of Get, which runs after its cleanup.
Servable(o, r, D) == r \in Kept(D) /\ owner[r] = o /\ r \notin ctxDone \cup Stale

GetFound(s, o, r) ==
  \E D \in DrainedMeanwhile :
    /\ stage[s] = "idle"
    /\ Servable(o, r, D)
    /\ Cleanup(D)
    /\ runs' = Kept(D)
    /\ stage' = [stage EXCEPT ![s] = "found"]
    /\ uses' = [uses EXCEPT ![s] = r]
    /\ UNCHANGED <<owner, expired, watcher, countVars, closeVars>>

GetMissed(o, r) ==
  \E D \in DrainedMeanwhile :
    /\ ~ Servable(o, r, D)
    /\ Cleanup(D)
    /\ runs' = Kept(D)
    /\ UNCHANGED <<owner, expired, watcher, countVars, streamVars, closeVars>>

\* Fault: the run Get returned is taken to be still open.
AcquireUnfenced(s) ==
  LET r == uses[s] IN
  /\ stage[s] = "found"
  /\ slots[r] < MaxStreams
  /\ slots' = [slots EXCEPT ![r] = @ + 1]
  /\ active' = [active EXCEPT ![r] = @ + 1]
  /\ stage' = [stage EXCEPT ![s] = "holding"]
  /\ UNCHANGED <<runVars, uses, closeVars>>

\* Fault: a handler takes a token without joining the WaitGroup.
AcquireUncounted(s) ==
  LET r == uses[s] IN
  /\ stage[s] = "found"
  /\ r \notin closed \cup ctxDone
  /\ slots[r] < MaxStreams
  /\ slots' = [slots EXCEPT ![r] = @ + 1]
  /\ stage' = [stage EXCEPT ![s] = "holding"]
  /\ UNCHANGED <<runVars, active, uses, closeVars>>

Acquire(s) ==
  LET r == uses[s] IN
  /\ stage[s] = "found"
  /\ r \notin closed \cup ctxDone
  /\ slots[r] < MaxStreams
  /\ slots' = [slots EXCEPT ![r] = @ + 1]
  /\ active' = [active EXCEPT ![r] = @ + 1]
  /\ stage' = [stage EXCEPT ![s] = "holding"]
  /\ UNCHANGED <<runVars, uses, closeVars>>

\* The handler answers 404. unfit: the client has gone, or a download carries no
\* nonce. When the client has gone and a slot is free the select takes either case.
AcquireRefused(s) ==
  LET r == uses[s] IN
  /\ stage[s] = "found"
  /\ \E unfit \in BOOLEAN :
       unfit \/ r \in closed \cup ctxDone \/ slots[r] >= MaxStreams
  /\ stage' = [stage EXCEPT ![s] = "idle"]
  /\ uses' = [uses EXCEPT ![s] = NoRun]
  /\ UNCHANGED <<runVars, countVars, closeVars>>

\* The transfer ends, for whatever reason, and the deferred Release takes a token
\* out of the channel; if the channel were empty it would do nothing at all.
Release(s) ==
  LET r == uses[s] IN
  /\ stage[s] = "holding"
  /\ IF slots[r] > 0
       THEN /\ slots' = [slots EXCEPT ![r] = @ - 1]
            /\ stage' = [stage EXCEPT ![s] = "releasing"]
            /\ UNCHANGED uses
       ELSE /\ stage' = [stage EXCEPT ![s] = "idle"]
            /\ uses' = [uses EXCEPT ![s] = NoRun]
            /\ UNCHANGED slots
  /\ UNCHANGED <<runVars, active, closeVars>>

\* Fault: active.Done() is skipped.
ReleaseNotDone(s) ==
  /\ stage[s] = "releasing"
  /\ stage' = [stage EXCEPT ![s] = "idle"]
  /\ uses' = [uses EXCEPT ![s] = NoRun]
  /\ UNCHANGED <<runVars, countVars, closeVars>>

\* active.Done(): the second half of Release.
ReleaseDone(s) ==
  /\ stage[s] = "releasing"
  /\ active' = [active EXCEPT ![uses[s]] = @ - 1]
  /\ stage' = [stage EXCEPT ![s] = "idle"]
  /\ uses' = [uses EXCEPT ![s] = NoRun]
  /\ UNCHANGED <<runVars, slots, closeVars>>
-----------------------------------------------------------------------------
(* DELETE /api/test-runs/ID                                                *)

CloseOwned(d, o, r) ==
  /\ deleting[d] = NoRun
  /\ r \in OwnedBy(o, runs)
  /\ BeginClose({r})
  /\ deleting' = [deleting EXCEPT ![d] = r]
  /\ UNCHANGED <<runs, owner, expired, drained, watcher, countVars, streamVars,
                 sweeping, shutdown>>

\* Fault: DELETE answers without waiting for the drain.
CloseOwnedAnswersEarly(d) ==
  /\ deleting[d] # NoRun
  /\ runs' = runs \ {deleting[d]}
  /\ deleting' = [deleting EXCEPT ![d] = NoRun]
  /\ UNCHANGED <<owner, expired, ctxDone, closed, drained, watcher, countVars,
                 streamVars, sweeping, shutdown>>

\* finishClose, then 204.
CloseOwnedReturns(d) ==
  /\ deleting[d] \in drained
  /\ runs' = runs \ {deleting[d]}
  /\ deleting' = [deleting EXCEPT ![d] = NoRun]
  /\ UNCHANGED <<owner, expired, ctxDone, closed, drained, watcher, countVars,
                 streamVars, sweeping, shutdown>>
-----------------------------------------------------------------------------
(* The run's own goroutines and its deadline                               *)

\* Time reaches the deadline of a run. (What is not in the registry is closed, and
\* nobody looks at its deadline.)
Expire(r) ==
  /\ r \in runs \ expired
  /\ expired' = expired \cup {r}
  /\ UNCHANGED <<runs, owner, ctxDone, closed, drained, watcher, countVars,
                 streamVars, closeVars>>

\* The timer of context.WithTimeout fires.
ContextTimeout(r) ==
  /\ r \in expired \ ctxDone
  /\ ctxDone' = ctxDone \cup {r}
  /\ UNCHANGED <<runs, owner, expired, closed, drained, watcher, countVars,
                 streamVars, closeVars>>

\* go func() { <-ctx.Done(); r.Close(x.ID) }()
WatcherCloses(r) ==
  /\ watcher[r] = "armed"
  /\ r \in ctxDone
  /\ BeginClose(runs \cap {r})
  /\ watcher' = [watcher EXCEPT ![r] = IF r \in runs THEN "draining" ELSE "exited"]
  /\ UNCHANGED <<runs, owner, expired, drained, countVars, streamVars, closeVars>>

WatcherReturns(r) ==
  /\ watcher[r] = "draining"
  /\ r \in drained
  /\ runs' = runs \ {r}
  /\ watcher' = [watcher EXCEPT ![r] = "exited"]
  /\ UNCHANGED <<owner, expired, ctxDone, closed, drained, countVars, streamVars,
                 closeVars>>

\* go func() { r.active.Wait(); close(r.drained) }()
Drain(r) ==
  /\ r \in closed \ drained
  /\ active[r] = 0
  /\ drained' = drained \cup {r}
  /\ UNCHANGED <<runs, owner, expired, ctxDone, closed, watcher, countVars,
                 streamVars, closeVars>>
-----------------------------------------------------------------------------
(* App.Close, run once by main before server.Shutdown                      *)

CloseAll ==
  /\ shutdown = "up"
  /\ shutdown' = "closing"
  /\ sweeping' = runs
  /\ BeginClose(runs)
  /\ UNCHANGED <<runs, owner, expired, drained, watcher, countVars, streamVars,
                 deleting>>

\* One turn of the second loop of CloseAll; Go leaves the order of the turns open.
CloseAllFinishes(r) ==
  /\ r \in sweeping \cap drained
  /\ runs' = runs \ {r}
  /\ sweeping' = sweeping \ {r}
  /\ UNCHANGED <<owner, expired, ctxDone, closed, drained, watcher, countVars,
                 streamVars, deleting, shutdown>>

CloseAllReturns ==
  /\ shutdown = "closing"
  /\ sweeping = {}
  /\ shutdown' = "closed"
  /\ UNCHANGED <<runVars, countVars, streamVars, deleting, sweeping>>
-----------------------------------------------------------------------------
Next ==
  \/ \E o \in Owners : CreateRefused(o)
  \/ \E o \in Owners, r \in Runs : CreateGranted(o, r)
  \/ \E s \in Streams, o \in Owners, r \in Runs : GetFound(s, o, r)
  \/ \E o \in Owners, r \in Runs : GetMissed(o, r)
  \/ \E s \in Streams : Acquire(s)
  \/ \E s \in Streams : AcquireRefused(s)
  \/ \E s \in Streams : Release(s)
  \/ \E s \in Streams : ReleaseDone(s)
  \/ \E d \in Deletes, o \in Owners, r \in Runs : CloseOwned(d, o, r)
  \/ \E d \in Deletes : CloseOwnedReturns(d)
  \/ \E r \in Runs : Expire(r)
  \/ \E r \in Runs : ContextTimeout(r)
  \/ \E r \in Runs : WatcherCloses(r)
  \/ \E r \in Runs : WatcherReturns(r)
  \/ \E r \in Runs : Drain(r)
  \/ CloseAll
  \/ \E r \in Runs : CloseAllFinishes(r)
  \/ CloseAllReturns

\* Goroutines are scheduled and time passes. A transfer ends because both handlers
\* run under a deadline (download: the phase plus 250ms; upload: 2s); nothing obliges
\* a client to create, stream or delete.
Fairness ==
  /\ \A s \in Streams : WF_vars(Acquire(s) \/ AcquireRefused(s))
                        /\ WF_vars(Release(s)) /\ WF_vars(ReleaseDone(s))
  /\ \A d \in Deletes : WF_vars(CloseOwnedReturns(d))
  /\ \A r \in Runs : /\ WF_vars(Expire(r)) /\ WF_vars(ContextTimeout(r))
                     /\ WF_vars(WatcherCloses(r)) /\ WF_vars(WatcherReturns(r))
                     /\ WF_vars(Drain(r)) /\ WF_vars(CloseAllFinishes(r))
  /\ WF_vars(CloseAllReturns)

Spec == Init /\ [][Next]_vars

FairSpec == Spec /\ Fairness
-----------------------------------------------------------------------------
Holding(r) == {s \in Streams : stage[s] = "holding" /\ uses[s] = r}
Using(r) == {s \in Streams : stage[s] \in {"holding", "releasing"} /\ uses[s] = r}

\* However creations, expiries, deletions and the sweep of App.Close interleave, the
\* registry never has more runs than PCC_MAX_RUNS, nor a session more than its share:
\* a run that is closing still counts (Create, runs.go:88-99).
CapacityBound ==
  /\ Cardinality(runs) <= MaxRuns
  /\ \A o \in Owners : Cardinality(OwnedBy(o, runs)) <= PerOwner

\* A run gives its capacity back only when no stream uses it any more: until the last
\* handler is out of Release the run stays in the registry, whichever of the four
\* callers removes it (runs.go:155-173).
CapacityHeldWhileStreaming == \A r \in Runs : Using(r) # {} => r \in runs

\* The token channel and the WaitGroup say what the handlers are doing: no token is
\* lost or counted twice between the two halves of Release, so a drain can neither
\* finish early nor hang (runs.go:26-48).
AccountingExact ==
  \A r \in Runs : /\ slots[r] = Cardinality(Holding(r))
                  /\ active[r] = Cardinality(Using(r))
                  /\ slots[r] <= MaxStreams

\* The drain of a run is final: once its channel is closed no stream is in it, and
\* Acquire never adds to a WaitGroup that is being waited for (runs.go:29, 52-57).
DrainIsFinal == \A r \in drained : r \in closed /\ active[r] = 0

\* From the moment a run is closing no stream is admitted, even one whose handler
\* looked the run up before (Get, then Acquire: app.go:357-362).
NoAdmissionAfterClose ==
  [][\A r \in Runs : r \in closed => active'[r] <= active[r]]_vars

\* When DELETE answers, the run has given its capacity back and no handler streams on
\* it: the browser that awaited the answer can start again at once (app.go:342-346).
DeleteAnswersQuiescent ==
  [][\A d \in Deletes, r \in Runs :
       deleting[d] = r /\ deleting'[d] = NoRun => r \notin runs' /\ Using(r)' = {}]_vars

\* No drain waits for ever: a DELETE is answered, App.Close returns, and the watcher
\* goroutine of every run ends (runs.go:107, 120-162).
ClosersReturn ==
  /\ \A d \in Deletes : deleting[d] # NoRun ~> deleting[d] = NoRun
  /\ \A r \in Runs : watcher[r] # "none" ~> watcher[r] = "exited"
  /\ shutdown = "closing" ~> shutdown = "closed"
-----------------------------------------------------------------------------
(* Why the invariants hold.                                                *)

\* An identifier that was never drawn is nowhere.
FreshIsNowhere ==
  \A r \in Runs :
    owner[r] = NoOwner => r \notin runs \cup expired \cup ctxDone \cup closed \cup drained

\* A run leaves the registry only drained, and is closed only with its context.
LeavesOnlyDrained == \A r \in Runs : owner[r] # NoOwner => r \in runs \cup drained

\* A handler past its lookup works with a run that was created.
HandlersUseRuns ==
  \A s \in Streams : stage[s] # "idle" => uses[s] \in Runs /\ owner[uses[s]] # NoOwner

\* Together these are preserved by every step and imply the invariants above.
RegistryInv ==
  /\ TypeOK
  /\ CapacityBound
  /\ AccountingExact
  /\ DrainIsFinal
  /\ FreshIsNowhere
  /\ LeavesOnlyDrained
  /\ HandlersUseRuns
  /\ closed \subseteq ctxDone
-----------------------------------------------------------------------------
(* The registry keeps the promises of RunLeases.                           *)

lease ==
  [r \in Runs |-> CASE owner[r] = NoOwner -> "none"
                   [] owner[r] # NoOwner /\ r \notin runs -> "ended"
                   [] r \in runs /\ r \in ctxDone -> "closing"
                   [] OTHER -> "open"]

users == [r \in Runs |-> Holding(r)]

Leases ==
  INSTANCE RunLeases WITH Runs <- Runs, Streams <- Streams, MaxRuns <- MaxRuns,
                          MaxStreams <- MaxStreams, lease <- lease, users <- users

\* Each step of the registry is a step of the leases or changes nothing they show:
\* the lookup before the admission, the two halves of Release, the four ways to
\* close a run and the sweeps that run inside other requests (runs.go:26-174).
ImplementsLeases == Leases!Spec

\* The goroutines bring every lease to its end: every run is reclaimed, whether or not its
\* browser ever deletes it (runs.go:107).
ImplementsFairLeases == Leases!FairSpec
=============================================================================
