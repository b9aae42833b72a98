---------------------------- MODULE MeasureFlow ----------------------------
(***************************************************************************)
(* One speed test from end to end: measure() of the page (web/src/app/     *)
(* App.tsx) with the requests of its phases (protocol.ts) on one side, the *)
(* server on the other, which keeps the promises of RunLeases.  RunRegistry*)
(* implements those; here only they count.                                 *)
(*                                                                         *)
(* The page belongs to one session, which the server allows one run at a   *)
(* time (MaxRuns of the leases is the limit per session).  A request that  *)
(* the page gives up is not gone: the server handles it, or notices later. *)
(***************************************************************************)
EXTENDS Naturals, Sequences, FiniteSets

CONSTANTS
  Runs,        \* the runs the server can grant, a bound
  Streams,     \* download and upload requests
  MaxRuns,     \* runs of the session at a time
  MaxStreams,  \* PCC_MAX_STREAMS
  Ramp,        \* the requests of each phase
  Losses,      \* a bound: requests the network loses
  NoRun

ASSUME MeasureAssumption ==
  /\ Ramp \in Seq(Nat \ {0}) /\ NoRun \notin Runs
  /\ Runs \cap {"none", "sent", "refused"} = {} /\ Losses \in Nat

VARIABLES
  lease, users,  \* the server, as RunLeases has it
  pc,            \* where measure() is
  run,           \* runID
  phase,         \* the phase it is in
  awaited,       \* the requests of the phase that it still waits for
  create,        \* POST /api/test-runs: none, sent, refused or the run granted
  delete,        \* DELETE of each run: none, sent, draining or done
  request,       \* where the server is with each stream
  target,        \* the run each stream is for
  left,          \* history: runs the page has lost sight of
  losses         \* requests lost so far

server == <<lease, users>>
streamVars == <<request, target>>
callVars == <<create, delete>>
vars == <<lease, users, pc, run, phase, awaited, create, delete, request, target, left, losses>>

Server == INSTANCE RunLeases

TypeOK ==
  /\ Server!TypeOK
  /\ pc \in {"idle", "pinging", "creating", "measuring", "closing", "saving", "retrying"}
  /\ run \in Runs \cup {NoRun}
  /\ phase \in 0..Len(Ramp)
  /\ awaited \in SUBSET Streams
  /\ create \in {"none", "sent", "refused"} \cup Runs
  /\ delete \in [Runs -> {"none", "sent", "draining", "done"}]
  /\ request \in [Streams -> {"free", "queued", "served", "refused", "answered"}]
  /\ target \in [Streams -> Runs \cup {NoRun}]
  /\ left \in SUBSET Runs
  /\ losses \in 0..Losses

Init ==
  /\ Server!Init
  /\ pc = "idle" /\ run = NoRun /\ phase = 0 /\ awaited = {}
  /\ create = "none" /\ delete = [r \in Runs |-> "none"]
  /\ request = [s \in Streams |-> "free"] /\ target = [s \in Streams |-> NoRun]
  /\ left = {} /\ losses = 0
-----------------------------------------------------------------------------
(* The server                                                              *)

Granted(r) ==
  /\ create = "sent"
  /\ Server!Turnover({}, {}, {r})
  /\ create' = IF pc = "creating" THEN r ELSE "none"
  /\ left' = IF pc = "creating" THEN left ELSE left \cup {r}
  /\ UNCHANGED <<pc, run, phase, awaited, delete, streamVars, losses>>

Refused ==
  /\ create = "sent"
  /\ Cardinality(Server!Outstanding) >= MaxRuns
  /\ create' = IF pc = "creating" THEN "refused" ELSE "none"
  /\ UNCHANGED <<server, pc, run, phase, awaited, delete, streamVars, left, losses>>

Admitted(s) ==
  /\ request[s] = "queued"
  /\ Server!Join(s, target[s])
  /\ request' = [request EXCEPT ![s] = "served"]
  /\ UNCHANGED <<pc, run, phase, awaited, callVars, target, left, losses>>

\* Fault: one slot less than configured.
TurnedAwayEarly(s) ==
  /\ request[s] = "queued"
  /\ lease[target[s]] # "open" \/ Cardinality(users[target[s]]) + 1 >= MaxStreams
  /\ request' = [request EXCEPT ![s] = IF s \in awaited THEN "refused" ELSE "free"]
  /\ UNCHANGED <<server, pc, run, phase, awaited, callVars, target, left, losses>>

\* 404: the run is over or all its slots are taken.
TurnedAway(s) ==
  /\ request[s] = "queued"
  /\ lease[target[s]] # "open" \/ Cardinality(users[target[s]]) >= MaxStreams
  /\ request' = [request EXCEPT ![s] = IF s \in awaited THEN "refused" ELSE "free"]
  /\ UNCHANGED <<server, pc, run, phase, awaited, callVars, target, left, losses>>

\* The transfer ends by itself, or the server notices that nobody is there. An answer
\* is complete only after the slot is released.
Served(s) ==
  /\ request[s] = "served"
  /\ Server!Leave(s, target[s])
  /\ request' = [request EXCEPT ![s] = IF s \in awaited THEN "answered" ELSE "free"]
  /\ UNCHANGED <<pc, run, phase, awaited, callVars, target, left, losses>>

\* Fault: only a run that its page wants to delete expires.
ExpiresOnRequest(r) ==
  /\ delete[r] # "none"
  /\ Server!Turnover({r}, {}, {})
  /\ UNCHANGED <<pc, run, phase, awaited, callVars, streamVars, left, losses>>

\* The time to live of a run passes.
Expires(r) ==
  /\ Server!Turnover({r}, {}, {})
  /\ UNCHANGED <<pc, run, phase, awaited, callVars, streamVars, left, losses>>

Drained(r) ==
  /\ Server!Turnover({}, {r}, {})
  /\ UNCHANGED <<pc, run, phase, awaited, callVars, streamVars, left, losses>>

\* Fault: DELETE waits for a drain that somebody else has begun, or that is over.
DeleteArrivesFirst(r) ==
  /\ delete[r] = "sent"
  /\ lease[r] = "open"
  /\ Server!Turnover({r}, {}, {})
  /\ delete' = [delete EXCEPT ![r] = "draining"]
  /\ UNCHANGED <<pc, run, phase, awaited, create, streamVars, left, losses>>

DeleteArrives(r) ==
  /\ delete[r] = "sent"
  /\ \/ /\ lease[r] = "open"
        /\ Server!Turnover({r}, {}, {})
        /\ delete' = [delete EXCEPT ![r] = "draining"]
     \/ /\ lease[r] # "open"
        /\ delete' = [delete EXCEPT ![r] = IF lease[r] = "closing" THEN "draining" ELSE "done"]
        /\ UNCHANGED server
  /\ UNCHANGED <<pc, run, phase, awaited, create, streamVars, left, losses>>

DeleteAnswered(r) ==
  /\ delete[r] = "draining"
  /\ lease[r] = "ended"
  /\ delete' = [delete EXCEPT ![r] = "done"]
  /\ UNCHANGED <<server, pc, run, phase, awaited, create, streamVars, left, losses>>
-----------------------------------------------------------------------------
(* The page                                                                *)

Lose == losses < Losses /\ losses' = losses + 1

\* A request that the page gives up: the server is not done with those it has begun.
GiveUp ==
  /\ awaited' = {}
  /\ request' = [s \in Streams |->
       IF s \in awaited /\ request[s] \in {"refused", "answered"} THEN "free" ELSE request[s]]
  /\ phase' = 0

Start ==
  /\ pc = "idle"
  /\ pc' = "pinging"
  /\ UNCHANGED <<server, run, phase, awaited, callVars, streamVars, left, losses>>

\* warmPing() is done, or fails, or is cancelled. (A create given up earlier has reached
\* the server by then.)
Pinged ==
  /\ pc = "pinging"
  /\ \/ /\ create = "none" /\ Server!InState("none") # {}
        /\ create' = "sent" /\ pc' = "creating"
     \/ UNCHANGED create /\ pc' = "idle"
  /\ UNCHANGED <<server, run, phase, awaited, delete, streamVars, left, losses>>

Created ==
  /\ pc = "creating"
  /\ create \in Runs
  /\ run' = create /\ create' = "none"
  /\ pc' = "measuring"
  /\ UNCHANGED <<server, phase, awaited, delete, streamVars, left, losses>>

\* 429, a network failure or the cancel button: runID is never set.
CreateFails ==
  /\ pc = "creating"
  /\ pc' = "idle"
  /\ \/ create = "refused" /\ UNCHANGED losses
     \/ Lose
     \/ UNCHANGED losses
  /\ create' = IF create = "sent" THEN "sent" ELSE "none"
  /\ left' = IF create \in Runs THEN left \cup {create} ELSE left
  /\ UNCHANGED <<server, run, phase, awaited, delete, streamVars>>

PhaseBegins ==
  /\ pc = "measuring" /\ awaited = {}
  /\ phase < Len(Ramp)
  /\ phase' = phase + 1
  /\ \E S \in SUBSET {s \in Streams : request[s] = "free"} :
       /\ Cardinality(S) = Ramp[phase + 1]
       /\ awaited' = S
       /\ request' = [s \in Streams |-> IF s \in S THEN "queued" ELSE request[s]]
       /\ target' = [s \in Streams |-> IF s \in S THEN run ELSE target[s]]
  /\ UNCHANGED <<server, pc, run, callVars, left, losses>>

\* A worker of the phase ends: the answer is complete, or its time is over. Then it waits
\* at most 250ms, for its own browser only.
Settles(s) ==
  /\ pc = "measuring"
  /\ s \in awaited /\ request[s] # "refused"
  /\ awaited' = awaited \ {s}
  /\ request' = [request EXCEPT ![s] = IF @ = "answered" THEN "free" ELSE @]
  /\ UNCHANGED <<server, pc, run, phase, callVars, target, left, losses>>

\* A worker is refused or fails, or the user cancels: runAdaptive throws.
MeasuringFails ==
  /\ pc = "measuring"
  /\ pc' = "retrying"
  /\ GiveUp
  /\ delete' = [delete EXCEPT ![run] = "sent"]
  /\ UNCHANGED <<server, run, create, target, left, losses>>

\* runAdaptive returns after the last phase, or earlier; closeRun is called.
Measured ==
  /\ pc = "measuring" /\ awaited = {} /\ phase > 0
  /\ pc' = "closing"
  /\ phase' = 0
  /\ delete' = [delete EXCEPT ![run] = "sent"]
  /\ UNCHANGED <<server, run, awaited, create, streamVars, left, losses>>

\* Fault: the run is forgotten whatever closeRun has answered.
ClosedForgotten ==
  /\ pc = "closing"
  /\ \/ delete[run] = "done" /\ UNCHANGED losses
     \/ Lose
  /\ pc' = "saving"
  /\ run' = NoRun
  /\ delete' = [delete EXCEPT ![run] = "none"]
  /\ UNCHANGED <<server, phase, awaited, create, streamVars, left>>

\* closeRun is true: 204, or 404.
Closed ==
  /\ pc = "closing"
  /\ delete[run] = "done"
  /\ pc' = "saving"
  /\ run' = NoRun
  /\ delete' = [delete EXCEPT ![run] = "none"]
  /\ UNCHANGED <<server, phase, awaited, create, streamVars, left, losses>>

\* closeRun is false: the request, or the answer to it, is lost.
CloseLost ==
  /\ pc = "closing"
  /\ Lose
  /\ pc' = "saving"
  /\ delete' = [delete EXCEPT ![run] = "none"]
  /\ UNCHANGED <<server, run, phase, awaited, create, streamVars, left>>

\* save() and exportPNG(), which may fail; the finally block sees runID.
Saved ==
  /\ pc = "saving"
  /\ IF run = NoRun
       THEN pc' = "idle" /\ UNCHANGED delete
       ELSE pc' = "retrying" /\ delete' = [delete EXCEPT ![run] = "sent"]
  /\ UNCHANGED <<server, run, phase, awaited, create, streamVars, left, losses>>

\* The closeRun of the finally block, whose answer nobody reads.
Finished ==
  /\ pc = "retrying"
  /\ \/ delete[run] = "done" /\ UNCHANGED <<left, losses>>
     \/ Lose /\ left' = left \cup {run}
  /\ pc' = "idle"
  /\ run' = NoRun
  /\ delete' = [delete EXCEPT ![run] = "none"]
  /\ UNCHANGED <<server, phase, awaited, create, streamVars>>

\* The page is closed, and opened again. A DELETE under way is kept alive.
Reload ==
  /\ pc # "idle"
  /\ Lose
  /\ pc' = "idle"
  /\ run' = NoRun
  /\ left' = left \cup ({run, create} \cap Runs)
  /\ create' = IF create = "sent" THEN "sent" ELSE "none"
  /\ GiveUp
  /\ UNCHANGED <<server, delete, target>>
-----------------------------------------------------------------------------
ServerStep ==
  \/ \E r \in Runs : Granted(r) \/ Expires(r) \/ Drained(r) \/ DeleteArrives(r) \/ DeleteAnswered(r)
  \/ Refused
  \/ \E s \in Streams : Admitted(s) \/ TurnedAway(s) \/ Served(s)

PageStep ==
  \/ Start \/ Pinged \/ Created \/ CreateFails \/ PhaseBegins \/ MeasuringFails \/ Measured
  \/ \E s \in Streams : Settles(s)
  \/ Closed \/ CloseLost \/ Saved \/ Finished \/ Reload

Next == ServerStep \/ PageStep

\* The server handles what it is asked, ends its transfers and its runs; the page's timers
\* fire and its promises settle. Nobody has to press a button.
Fairness ==
  /\ \A r \in Runs : WF_vars(Granted(r)) /\ WF_vars(Expires(r)) /\ WF_vars(Drained(r))
                     /\ WF_vars(DeleteArrives(r)) /\ WF_vars(DeleteAnswered(r))
  /\ \A s \in Streams : WF_vars(Admitted(s) \/ TurnedAway(s)) /\ WF_vars(Served(s))
                        /\ WF_vars(Settles(s))
  /\ WF_vars(Refused)
  /\ WF_vars(Pinged) /\ WF_vars(Created) /\ WF_vars(create = "refused" /\ CreateFails)
  /\ WF_vars(PhaseBegins \/ Measured)
  /\ WF_vars((\E s \in awaited : request[s] = "refused") /\ MeasuringFails)
  /\ WF_vars(Closed) /\ WF_vars(Saved) /\ WF_vars(Finished)

Spec == Init /\ [][Next]_vars

FairSpec == Spec /\ Fairness
-----------------------------------------------------------------------------
\* A run that lingers on the server is the one being measured, or one the page has lost:
\* its create was given up, its page closed, or the DELETE lost as often as it was tried.
\* Every other run is given back before the page can start again (App.tsx:225-295).
OnlyLostRunsLinger ==
  \A r \in Server!Outstanding : r = run \/ r = create \/ r \in left

\* Page and server agree on the runs, in states of the right type.
FlowInv == TypeOK /\ OnlyLostRunsLinger

\* measure() ends, whatever the server and the network do, and Start is enabled again.
MeasureEnds == pc # "idle" ~> pc = "idle"

\* No run keeps the session from measuring for ever, not even one the page never heard of
\* (App.tsx:85).
RunsAreGivenBack == \A r \in Runs : r \in Server!Outstanding ~> r \notin Server!Outstanding

\* A worker waits until its download is cancelled "to release server stream slots"
\* (protocol.test.ts:138): no request of the ramp is turned away by a run that is open.
RampIsAdmitted ==
  \A s \in awaited : request[s] = "refused" => lease[target[s]] # "open"

\* The requests of a phase never take the slots from one another: where an open run turns one
\* away, a request of a phase before, which the page no longer waits for, is still in its slot
\* (App.tsx:85, protocol.ts:106-120).
SiblingsNeverCrowdOut ==
  [][\A s \in Streams :
       request[s] = "queued" /\ request'[s] = "refused" /\ lease[target[s]] = "open"
         => \E t \in users[target[s]] : t \notin awaited]_vars
=============================================================================
