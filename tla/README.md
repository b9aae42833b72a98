# Verification of Personal Connection Check

TLA+ models of the parts of this repository that are hard to test: what happens
when requests, goroutines, timers, promises, transactions and sockets meet in an
order nobody wrote a test for. TLC checks the models on small instances; TLAPS
proves their safety properties for all of them.

Paths such as `runs.go` are short for the files under `src/`; `PROJECT.json`
maps every definition to its lines, and lists the hazards, each with the
properties that would catch it.

## The system

A single Go server measures the path to a browser. The browser creates a *run*,
downloads and uploads on it with 1, 2, 4 and 8 parallel streams, and deletes it.
A second tab pings the server over a WebSocket. History stays in the browser.

| component | source | state | operations | module |
| --- | --- | --- | --- | --- |
| run registry | `internal/speedtest/runs.go` | runs, their contexts, slots, WaitGroups and drains | Create, Get, Acquire, Release, CloseOwned, Close, CloseAll, sweeps; a watcher and a drainer goroutine per run | `RunRegistry` |
| upload handler | `internal/app/app.go:59-102, 403-450` | one body, its watcher, a read deadline | copy, answer, join the watcher, close, release | `UploadHandler` |
| WebSocket pings | `app.go:455-490` | places, registered connections | accept, register, echo, close | `PingSockets` |
| shutdown | `app.go:141-153`, `cmd/pcc/main.go:80-102` | how far main is | Close, Shutdown, beside sockets and an upload | `ServerProcess` |
| download, create and delete handlers | `app.go:329-402` | none of their own | admission, the loop that writes, answers | in `RunRegistry` and `MeasureFlow` |
| login limiter, password login | `app.go:243-295` | token buckets, two verifier places | allowLogin, loginPassword | `SignIn` |
| browser transport | `web/src/features/speed/protocol.ts` | progress per stream, watchdogs, timeouts | download(), upload() and their workers | `DownloadPhase`, `UploadPhase`, `Transport` |
| adaptive engine | `web/src/features/speed/engine.ts` | direction, step of the ramp, result so far | runAdaptive, measureDirection, rate, median, stable | `Adaptive` |
| the page's measurement | `web/src/app/App.tsx:37-88, 164-170, 225-295` | run id, abort controller | warmPing, measure, closeRun | `MeasureFlow` |
| stability monitor | `web/src/features/stability/monitor.ts` | socket, interval, retry | start, stop, connect, visibility, socket events | `StabilityMonitor` |
| the page's tabs | `App.tsx:171-180, 290-312, 352-360, 446-450` | tab, samples on display, calls under way | openTab, start, stop, hydrate, save, measure | `StabilityTab` |
| the page's login | `App.tsx:181-223` | logged in, cookie, info | login(), the restored session | `SignIn` |
| history store | `web/src/storage/database.ts`, `App.tsx:313-315, 477-484` | two IndexedDB stores, connections, rows shown | put with its eviction and second write, list, clear | `HistoryStore` |

Not modelled, each with its reason in the last section: routing, headers and
origin checks; password hashing; session cookies; the OIDC round trip;
configuration; GeoIP; embedded assets; stability metrics; charts, export and
translations; deployment.

How they interact. The page calls the server by HTTP; aborting a call frees the
page at once and the server only when it notices. Handlers share the registry
under its mutex and runs under theirs; cancellation reaches a handler through
the run's context. Inside the browser every event handler and promise reaction
runs to completion; components wait for each other with `Promise.race` between
the work and a stop promise. `App.Close` ends runs, then sockets, then the
GeoIP readers; `http.Server.Shutdown` follows.

What is hard. Closing and sweeping a run from four callers while streams join
and leave; two goroutines that own one request body; a shutdown beside requests
that are still accepted; promise races whose winner depends on the browser;
late chunks after a result was taken; socket events of a connection that was
replaced; lost creates and deletes; a budget kept by transactions between which
another tab acts; clicks whose answers arrive in another order.

## The modules

`RunLeases` is the abstract specification of the server: a run is a lease on one
of `MaxRuns` places, granted, closing, ended; streams join only while it is
open; it keeps its place until the last has left. `RunRegistry` implements it
(refinement mapping `lease`, `users`), and `MeasureFlow` uses it as the server
(`Server == INSTANCE RunLeases`) in place of the registry's detail:

    RunLeases <--implements-- RunRegistry
        ^ is the server of
    MeasureFlow

    ServerProcess = PingSockets + UploadHandler + main's shutdown
    Transport     = DownloadPhase or UploadPhase
    StabilityTab  = StabilityMonitor + the page around it

`Adaptive`, `SignIn` and `HistoryStore` stand alone: they meet the others only
through promises whose outcome is left open in each.

**RunRegistry.** Each section the code runs under a mutex is one action; what
lies between two sections or on a channel is a step of its own. `Get` and
`Acquire` are two actions, as are the two halves of `Release`; `finishClose` is
the second action of each of its callers (`CloseOwnedReturns`, `WatcherReturns`,
`CloseAllFinishes`). `Create` and `Get` run `cleanupLocked` first, so their
actions do too (`Cleanup`, `Kept`). Whether the drainer of a run that a sweep
closes was quicker than the sweep's `select` is a choice (`DrainedMeanwhile`).
`Expire` is the passing of `Run.Expires`, `ContextTimeout` the timer of the
context; the code reads either clock. A random run id is a fresh element of
`Runs`; that drawing one may fail (`runs.go:101`) is left out, since `rand.Read`
never does in the Go version of `go.mod`, and nothing would be inserted.

**UploadHandler.** One request. The handler's copy, the watcher and the client
interleave at every call on the body. The body is `net/http`'s, modelled from
its use: Read and Close exclude each other, Close reads on up to the deadline.

**PingSockets.** Handlers walk through the code between its calls; the deferred
calls run last one first. A client that sends something within every 30 seconds is
`Talking` and keeps its place for as long as it likes, until `Close` sweeps its
connection; `silent` are those that have stopped, for whatever reason. `server` is
how far `main` is in either of its two ends: a signal, or a `Serve` that has
`failed`, after which `main` closes the App and exits without `Shutdown`.

**ServerProcess** composes the two and adds what lies between: `CloseAll` ends
and waits for the runs it knows before any socket is closed, while the listener
still accepts. A run created after `CloseAll` has read its map (`LateUpload`) is
cancelled by nobody, so that `Shutdown` waits for its upload, up to its timeout.
A step of one part leaves the others alone, by its UNCHANGED.

**DownloadPhase, UploadPhase.** One call of `download()` or `upload()`. What runs
between two awaits is one step, with the event that ended the wait. `browser`
decides who wins the race in `downloadWorker` when it is aborted: where a
pending fetch or read settles on abort its rejection is first, because `cancel()`
aborts before it resolves the stop promise. Chunks and acknowledgements are
counted, rates left out. A chunk may arrive with or without a sample falling due.
`now()` may stand still while a stream begins and ends: `ticked` are the workers
that have seen it move. Whatever takes time (a sample that falls due, a watchdog, the
end of the phase) needs that, and so does the final sample, whose rate is 0 before.
The tests run on such a clock (`protocol.test.ts:92-115`): bytes count, and no
sample stands for them, disclosed or not. `BytesAreRepresented` and `UploadInv`
therefore speak of workers that took any time.
**Transport** is one call, of either method: the engine never has two in flight.

**Adaptive.** Both directions, the ramp, the limit's timer, the user's
cancellation and a transport that may answer, fail or hang. Time is counted in
phases of 1.25s. The samples of a phase are an input; `rate`, `median` and
`stable` are computed from them as the code does, in whole Mbps.

**MeasureFlow.** `measure()` from the ping to the finally block, with its
requests and the server as leases. A request the page gives up stays with the
server. `left` is a history variable: runs the page has lost sight of.

**StabilityMonitor.** Every handler is one step. Former sockets are counted, for
their handlers do not depend on which one they belong to: that is the very
thing the findings are about. `leaked` counts intervals that run and that
`this.timer` no longer names. The back-off's length is left out: a timeout fires
at any later time.

**StabilityTab.** The monitor among the page's handlers: a click is one step up to
the first await, and each await of `saveStability` and `latestStability` ends in
a step of its own. A new start makes a new monitor, so the monitor's variables
describe the latest; the old one is stopped. Samples are numbered, 0 belongs to
an earlier visit. `spoilt` is a history variable for the two ways the code does
lose live samples (below): `SamplesSurvive` says there is no third.

**HistoryStore.** Each transaction of `put()` is one action, and so is the end of
its connection: `rows()` reads the two stores in either order, `Evict` deletes by
key what was read, `Write` stores. IndexedDB is external: it opens connections in
the order asked for, carries out a deletion when nobody is connected, and fails a
request at will. A `put()` awaits the request and not the transaction, so
`WriteNotCommitted` settles it with nothing stored. Rows are a store, a time and
a size; two calls may have one millisecond. Every writer may be of another tab.
`Total` adds up sizes by counting bytes, a pair of a row and a number for each
(`Bytes`), so that what the library proves about cardinalities serves for sums.
`there`, `raced`, `asked` and `cleared` are history variables; `there` are the
rows stored *ever since* a `put()` connected. A row of the same key that another
call of that millisecond deleted and wrote again meanwhile is a new one, which the
`put()` may never have read: `OldestFirst` says nothing of it.

**SignIn.** A request passes the limiter and takes a place of the verifier, or is
told at once that none is free; its answer arrives or is lost. `Clicks` are the
page's requests, the others are anybody's. An accepted click brings the cookie and
has the page ask for the network's data; where OIDC is offered the page asks for
them when it is opened, with the cookie of that moment. A bucket counts ticks
where the code counts fractions of tokens.

Where a definition is named with a fault (`AcquireUnfenced`, `KeptUndrained`),
it is the bug a property guards against; `PROJECT.json` pairs them under
`mutants`. The specifications do not use them.

## The runs

| run | instance | what it shows |
| --- | --- | --- |
| `RunRegistry` | 3 runs, 2 sessions, 2 places, 1 per session, 2 streams for 1 slot | limits, accounting and final drains (`RegistryInv`), a run keeps its place while anybody streams, nobody is admitted after the fence, DELETE answers quiescent |
| `RunRegistry_live` | 2 runs for one place, 2 streams | every step is a step of the leases; closers return; the fair registry implements fair leases |
| `ServerProcess` | 2 WebSocket requests for 1 place, an upload limited to 2 chunks | places bound sockets, the map is exact (`SocketInv`); the body is closed once, the watcher joined, only clients are blamed (`UploadInv`); a deadline over every wait; the slot returns, and the place of everyone who does not go on talking; the process ends, by a signal or a failed listener |
| `Transport` | 2 workers, 2 chunks, both kinds of browser; 3 requests | honest disclosure and standing results (`DownloadInv`), complete results (`UploadInv`), bytes that took time and have no sample are disclosed, frozen results stay, failures stop siblings, a call ends |
| `Adaptive` | the ramp of four, limits of the code in phases, rates {0, 20, 21, 40}, 3 samples | cancelled is no result; the run outlives the measurement and no incomplete stream is forgotten (`EngineInv`); a rate is typical of its samples; the engine ends |
| `MeasureFlow` | 2 runs, 3 requests in phases of 1 and 2, 2 slots, 1 loss | only runs the page lost sight of linger; who is turned away by an open run lost its slot to a phase before; `measure()` ends; every run is given back |
| `StabilityTab` | 4 clicks, 2 hides, 2 losses, 2 pings, 2 samples | hidden is silent, visible is never abandoned (`MonitorInv`); no monitor beside a measurement (`TabInv`); samples survive; never hidden, the monitor makes one attempt at a time and settles |
| `HistoryStore` | 2 writers, sizes 1 and 2 for a budget of 3, 3 calls, 1 failure | the overshoot of the budget is bounded, an undisturbed put() fits and evicts no more than needed, the oldest goes first, what was deleted stays deleted, requests end |
| `SignIn` | 2 addresses, 3 requests of which 2 clicks, buckets of 2, refill 2, 1 place, clock to 4 | attempts are limited in every window, an attempt is denied only when spent, places are accounted for, the page is shown only with a session |

Three further runs (`DownloadPhase_honouring`, `StabilityMonitor_returns`,
`MeasureFlow_slots`) find what a text of the repository denies; see the findings.

*Bounds.* Three runs for two places is the least at which a place is given back
and taken again beside one that is held; two streams for one slot likewise, and
while one is between the halves of `Release` the other may already be in. Two
WebSocket requests for one place: one served, one refused or next. Two workers
are one that fails, is late or is cut short, and one sibling. The ramp `<<1, 2>>`
of `MeasureFlow` keeps what matters of 1, 2, 4, 8: phases that widen, with slots
for the largest and not for all of them (2 of 3; in the code 8 of 15). The rates of `Adaptive`
hold a pair within 5% of each other, a pair beyond, and a phase without bytes.
Two hides and two losses are each what two events in a row need; four clicks open
the tab, start, leave and start again. In `HistoryStore` three calls are two that
overlap and one to fill, empty or show the store; a budget of 3 with sizes 1 and 2
is exceeded by two rows, or by three. `Attempts` of `SignIn` bounds a counter and
is never reached in the run; `Known = 0` makes the second address the one
beyond the 2048. `Limit`, `Target` and `Margin` of `Adaptive` are the code's
values in phases. Runs with liveness use no symmetry.

*Deadlock* is checked where the system always has a next step or an end that is
marked as such. It is not for `MeasureFlow`, `MeasureFlow_slots`, `StabilityTab` and
`StabilityMonitor_returns`, `HistoryStore` and `SignIn`, where page and user may
do nothing more once the bounds are used up.

*Fairness.* Goroutines are scheduled, timers fire, promise reactions run, and a
transfer ends because both handlers set a deadline (download: the phase plus
250ms, upload: 2s). Time passes for a call that is
under way. No client is obliged to create, send, read, delete or fall silent, no
network to deliver, no user to press a button: an echo ends for certain only when
its client is silent for a read's timeout or its connection was swept
(`PlacesReturn` says no more); in `UploadHandler` a Close ends
for certain only when it is bounded by a deadline; in `Adaptive` no phase has to
settle; in the transport no fetch or read. `ServerProcess` has the parts' fairness
and a main that goes on. `MeasureFlow` has the server handle what it was asked,
which `RunRegistry_live` shows. `HistoryStore` has IndexedDB answer every request,
by success or by failure; no call has to be made. In `StabilityTab` only the
monitor is fair: its timers fire and its sockets' events arrive. All fairness is
weak: every fair action stays enabled until it is taken or made needless.
`SignIn` has none, and claims no liveness.

## The proofs

Eight modules, checked by TLAPS to the last leaf. Each theorem holds for every
value of the constants that its module's ASSUME admits: any finite sets of runs,
handlers, workers, addresses or writers, any limits.

**RunRegistryProofs.** `RegistryInv` is inductive. `CapacityBound` alone is, since
`Create` compares what is left after its sweep. `AccountingExact` needs that
handlers past their look-up name a run that exists (`HandlersUseRuns`), and that
a fresh run has nobody in it, which follows from `FreshIsNowhere`. `DrainIsFinal`
needs the fence, `closed \subseteq ctxDone` and accounting: `Drain` sees the
counter at zero, and no step adds to the counter of a closed run. That a run with
a stream is in the registry (`CapacityHeldWhileStreaming`) follows from
`LeavesOnlyDrained`: a run that has left is drained, so nothing uses it.
`RegistryImplementsLeases`: initial states and every step map to the leases;
creates, look-ups and closers are each one `Turnover` (`TurnoverStep`),
admissions a `Join`, the first half of `Release` a `Leave`.

**ServerProcessProofs.** `SocketIInv` counts a place for every handler between its
two sections, which bounds the sockets by the places; `UploadIInv` ties the
handler's position to its watcher and to the closes of the body. Neither part
reads the other's state, so `ProcessStepsSockets` and `ProcessStepsUpload` show
each step of the process to be a step or a stutter of each part, and each
invariant is proved of its part alone. `ProcessImplementsSockets`,
`ProcessImplementsUpload`, `SocketsAlwaysBounded`, `UploadAlwaysSafe` and
`DeadlineAlwaysCovers` follow.

**TransportProofs.** A worker that has ended is sampled or has nothing to sample,
and one that was cut short in a browser that ignores aborts is marked
(`EndedIsSampled`, `CutShortIsMarked`); after the end nothing is measured
(`EndStops`). With these `DownloadInv`, `UploadInv`, `FrozenIsFinal`,
`FailureStopsSiblings` and `BytesAreRepresented` hold of every call.
All that speaks of samples speaks of workers that have `ticked`.

**AdaptiveProofs.** `RateAlwaysTypical` is about `median`, a pure function: the
least rate that more than half of the samples do not exceed exists because strict
inclusion of the sets of lower rates is well founded, and at least half of the samples
are on either side of it. `EngineAlwaysSound` counts the incomplete streams a
direction admitted against those in its result (`Counted`), and needs
`Limit <= MaxDirection`; the other case is noted below. `StopsAtOnce` gives
`CancelledNeverResults`.

**MeasureFlowProofs.** What the page holds is a lease until its DELETE ends
(`PageHolds`), requests are for runs it was granted (`RunsKnown`,
`RequestsKnown`). A run that lingers is then the one in use or a lost one. The page
never waits for more requests than the largest phase has (`AwaitedFit`), and one on
its way uses no slot yet: with its siblings alone in the run a slot is left for it
(`SlotIsLeft`), which gives `SiblingsNeverCrowdOut` for every ramp none of whose
phases is wider than the slots. `FlowDrivesLeases` is the other half of
`RegistryImplementsLeases`: all that the page sees of the server are steps of
`RunLeases`, whatever it gives up or loses.

**StabilityTabProofs.** The monitor's invariant ties interval, socket and retry
(`Behaves`); `FreshIsUnpinged` and `NeverHidden` are what `OneAttempt` needs.
`Kept` follows each sample taken from the display to a save under way or to the
store, which is `SamplesSurvive`.

**SignInProofs.** Every attempt let through has cost a token (`Accounted`), and
every token was there at first or was earned (`Earning`): `RateIsLimited` is their
sum. `DeniedOnlyWhenSpent` is an action property from the same invariant; a page
with a session is `PageInv`.

**HistoryStoreProofs.** Who works on the rows is connected and who waits is queued
once, so a deletion, which needs every connection closed, meets only `put()`s
that are still behind it in the queue; those were called after it was asked for
(`QueueOrdered`), and their rows are younger than what it deletes
(`DeletedAlwaysStays`). `ConnectionsAlwaysHeld` is the safe half of `RequestsEnd`:
whoever holds a connection has a step left that closes it.

Eviction is proved for every set of rows: what is kept fits beside the new row
(`EvictionFits`), and with a row go all older ones (`EvictionByAge`). `KnownIInv`
ties what a `put()` has read to what is stored: keys are unique, rows that are
still there have been read, and who was not disturbed has read exactly what is
there. `UndisturbedAlwaysFits` and `AlwaysOldestFirst` follow, step by step.

The bound on the overshoot needs an order among the `put()`s (`BudgetHeld`). Those
that have begun to read are `Flying`. Each has others `ahead` of it, at first all
that had begun when it began. It makes room for everything but one row of each of
those: of the rows it will keep it has missed no more than there were places ahead
of it that have become free, and a place becomes free when the one ahead writes,
or fails. When `w` writes, whoever it was ahead of has a row more and a `put()` less
to reckon with. Whoever else is in flight is ahead of `w`; those may have read
before anything of this happened, and nothing is claimed of them: they are the
`base`. The store as `w` leaves it exceeds the budget by the rows that `w` has missed,
which with the base are at most one for each other writer. `Fits` and `BaseFits` say
this with a set `C` of rows that fit, and count the rows outside it;
`FitsStays` and `BaseStays` are the exchange of a `put()` for a row.

*Only model-checked:* liveness under fairness, which the provers do not reach
(`ClosersReturn`, `ImplementsFairLeases`, `SlotIsReleased`, `PlacesReturn`,
`ServerExits`, `CallEnds`, `EngineEnds`, `MeasureEnds`, `RunsAreGivenBack`,
`SettlesIfNeverHidden`, `RequestsEnd`). Every other property of the runs that pass
has a theorem.

## Findings

1. **A stream cut short may not be disclosed** (`DownloadPhase_honouring`). In
   browsers whose reads settle on abort, the rejection beats the watchdog's own
   promise (`protocol.ts:57-60, 106-107`) and the stream counts as complete;
   `README.md:109` promises disclosure in any browser.
2. **Hiding the page can make the monitor reconnect for ever**
   (`StabilityMonitor_returns`). The close event of a hidden page's socket, which
   comes while it is hidden or after it was shown, schedules a reconnect up to 10s
   later (`monitor.ts:58-64`) that nothing takes back. If the page is shown before
   that has run, it connects at once (28-34), and the reconnect then replaces an
   open, healthy socket (45), whose close event clears its successor's timer and
   schedules the next reconnect, and so on. TLC's trace has one order of event and
   showing or the other.
   `docs/measurement-methodology.md:3` promises samples one second apart.
3. **The slots of one phase may be missing in the next** (`MeasureFlow_slots`). A
   worker waits for its own browser's `reader.cancel()`, at most 250ms
   (`protocol.ts:111-119`), not for the server's `Release`; with the default eight
   slots for 1, 2, 4 and 8 requests a request of the next phase can be answered 404
   by a run that is open, which fails the measurement. `protocol.test.ts:138` says
   that the worker waits "to release server stream slots".

Noted while modelling, and not the subject of a run:

- `PCC_MAX_DIRECTION_DURATION` does not cap a direction, as `README.md:69` has it: it
  only shortens the life of a run (`app.go:55-57, 124`), which then may end under a
  measurement; the browser's limit is a constant (`engine.ts:23`). `EngineInv` needs
  the first to be no less than the second.
- A stream that begins and ends before the clock moves adds bytes and no sample to a
  result, and is not incomplete (`protocol.ts:17-18, 127-128`).
- `App.Close` sweeps runs and registered sockets while the listener still accepts:
  a run created, or a socket registered, after the sweep is not ended by it but by
  the end of the process (`app.go:141-153`, `main.go:87-90`).
- An echo slower than a second is measured against a later ping, for `tick`
  overwrites the one start time (`monitor.ts:54, 68`).
- Starting a monitor does not clear the samples on display, and opening the tab
  loads the stored session whenever it arrives: a quick change of tabs, or a second
  click on the tab, can put an older session over live samples (`App.tsx:359`).
- The answer of a login that arrives last decides what the page shows: a 401 of
  another click hides the page although there is a session by now, and a failing
  request for the network's data says that the login failed when it did not
  (`App.tsx:217-223`).
- An attempt costs a token even when the verifier has no place for it, and buckets
  are never dropped: after 2049 addresses no new one can log in
  (`app.go:248-279`).
- Overlapping `put()`s of two tabs can exceed the budget, by one value for each
  other `put()` in flight and no more (`OvershootIsBounded`); the next one corrects
  it.

## Not modelled, and the plan

Not modelled: routing, headers and origin checks (tests on one request without
state), password hashing and session cookies (cryptography; a cookie is valid or
not), the OIDC round trip (one redirect and one callback around libraries),
configuration (read once; its limits are CONSTANTS), GeoIP and ClientIP (look-ups
without state), embedded assets, stability metrics (two functions whose results
are only drawn), charts, PNG export, translations, deployment files. The bytes of
a transfer and wall-clock time are abstracted everywhere. `PROJECT.json` has two
hazards without a property: a GeoIP look-up after Close, which is the library's
affair, and the one start time of all pings, noted above.

*Done:* the leases and the registry; the server's process with sockets, upload and
shutdown; the transport, the engine and the measurement; the monitor and its tab;
the login; the history; their safety proofs.

*Left:* the OIDC round trip with two tabs that overwrite each other's state
cookie; sessions under a rotated key; `ClientIP`, the aggregation of samples and
jitter against reference definitions.
