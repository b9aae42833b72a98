-------------------------- MODULE StabilityMonitor --------------------------
(***************************************************************************)
(* The browser's stability monitor (web/src/features/stability/monitor.ts, *)
(* class StabilityMonitor): one WebSocket that is pinged every second,     *)
(* closed when the page is hidden, opened again when it is shown or lost.  *)
(*                                                                         *)
(* JavaScript runs to completion, so an event handler is one step.  What   *)
(* the handlers do does not depend on which former socket they belong to:  *)
(* former sockets, all of them closing, are counted.  The delay of a       *)
(* reconnection (250ms doubled up to 10s) is left out: a timeout may fire  *)
(* at any later time.                                                      *)
(***************************************************************************)
EXTENDS Naturals

CONSTANTS
  Hides,     \* a bound: how often the page is hidden
  Losses,    \* a bound: connections that fail or are lost
  MaxPings   \* a bound: pings on the way, and intervals nobody can clear

ASSUME MonitorAssumption ==
  Hides \in Nat /\ Losses \in Nat /\ MaxPings \in Nat \ {0}

VARIABLES
  visible,     \* document.visibilityState
  stopped,     \* this.stopped
  ws,          \* this.ws.readyState, or none
  former,      \* sockets replaced by a newer one whose close event is to come
  timer,       \* whether this.timer is set
  leaked,      \* intervals that run although this.timer does not name them
  reconnects,  \* pending setTimeout(() => this.connect())
  pings,       \* pings sent on this.ws and not answered
  hides,       \* times the page was hidden
  losses       \* connections lost

vars == <<visible, stopped, ws, former, timer, leaked, reconnects, pings, hides, losses>>
budgets == <<hides, losses>>

TypeOK ==
  /\ visible \in BOOLEAN
  /\ stopped \in BOOLEAN
  /\ ws \in {"none", "connecting", "open", "closing", "closed"}
  /\ former \in Nat
  /\ timer \in BOOLEAN
  /\ leaked \in 0..MaxPings
  /\ reconnects \in Nat
  /\ pings \in 0..MaxPings
  /\ hides \in 0..Hides
  /\ losses \in 0..Losses

Live == ws \in {"connecting", "open"}

\* After start(): the page may be hidden already.
Init ==
  /\ visible \in BOOLEAN
  /\ stopped = FALSE
  /\ ws = IF visible THEN "connecting" ELSE "none"
  /\ former = 0 /\ timer = FALSE /\ leaked = 0 /\ reconnects = 0
  /\ pings = 0 /\ hides = 0 /\ losses = 0
-----------------------------------------------------------------------------
(* The methods                                                             *)

\* A new monitor, and its start().
start ==
  /\ stopped' = FALSE
  /\ ws' = IF visible THEN "connecting" ELSE "none"
  /\ former' = 0 /\ timer' = FALSE /\ leaked' = 0 /\ reconnects' = 0 /\ pings' = 0
  /\ UNCHANGED <<visible, budgets>>

clear == timer' = FALSE

\* this.ws?.close()
closeSocket == ws' = IF Live THEN "closing" ELSE ws

\* Fault: the page is not asked whether it is visible.
connectAlways(seen) ==
  /\ ws' = IF stopped THEN ws ELSE "connecting"
  /\ former' = IF ~ stopped /\ (Live \/ ws = "closing") THEN former + 1 ELSE former
  /\ pings' = IF stopped THEN pings ELSE 0

\* A socket that is replaced closes; its close event is still to come.
connect(seen) ==
  IF stopped \/ ~ seen
    THEN UNCHANGED <<ws, former, pings>>
    ELSE /\ ws' = "connecting"
         /\ former' = IF Live \/ ws = "closing" THEN former + 1 ELSE former
         /\ pings' = 0

\* Fault: a lost connection is not tried again.
oncloseGivesUp ==
  /\ clear
  /\ UNCHANGED reconnects

\* The handler of every socket clears this.timer, whichever socket that belongs to.
onclose ==
  /\ clear
  /\ reconnects' = IF stopped THEN reconnects ELSE reconnects + 1

\* On a socket that is open: the clock is read, a ping is sent.
tick == pings' = pings + 1
-----------------------------------------------------------------------------
(* The page                                                                *)

Hide ==
  /\ visible /\ hides < Hides
  /\ visible' = FALSE
  /\ hides' = hides + 1
  /\ IF stopped THEN UNCHANGED <<timer, ws>> ELSE clear /\ closeSocket
  /\ UNCHANGED <<stopped, former, leaked, reconnects, pings, losses>>

Show ==
  /\ ~ visible
  /\ visible' = TRUE
  /\ connect(TRUE)
  /\ UNCHANGED <<stopped, timer, leaked, reconnects, budgets>>

Stop ==
  /\ ~ stopped
  /\ stopped' = TRUE
  /\ clear
  /\ closeSocket
  /\ UNCHANGED <<visible, former, leaked, reconnects, pings, budgets>>
-----------------------------------------------------------------------------
(* The socket                                                              *)

\* onopen: an interval that this.timer still names is forgotten, not cleared.
Opens ==
  /\ ws = "connecting"
  /\ ws' = "open"
  /\ tick
  /\ timer' = TRUE
  /\ leaked' = IF timer /\ leaked < MaxPings THEN leaked + 1 ELSE leaked
  /\ UNCHANGED <<visible, stopped, former, reconnects, budgets>>

\* The interval of this.timer, or one that leaked; both ping the current socket.
Tick ==
  /\ timer \/ leaked > 0
  /\ ws = "open" /\ pings < MaxPings
  /\ tick
  /\ UNCHANGED <<visible, stopped, ws, former, timer, leaked, reconnects, budgets>>

\* onmessage: a sample is taken.
Answer ==
  /\ ws = "open" /\ pings > 0
  /\ pings' = pings - 1
  /\ UNCHANGED <<visible, stopped, ws, former, timer, leaked, reconnects, budgets>>

\* The server or the network ends the connection, or refuses it.
Lost ==
  /\ Live /\ losses < Losses
  /\ losses' = losses + 1
  /\ ws' = "closed"
  /\ onclose
  /\ UNCHANGED <<visible, stopped, former, leaked, pings, hides>>

Closed ==
  /\ ws = "closing"
  /\ ws' = "closed"
  /\ onclose
  /\ UNCHANGED <<visible, stopped, former, leaked, pings, budgets>>

FormerClosed ==
  /\ former > 0
  /\ former' = former - 1
  /\ onclose
  /\ UNCHANGED <<visible, stopped, ws, leaked, pings, budgets>>

\* Fault: the reconnection is an interval, not a timeout.
ReconnectRepeats ==
  /\ reconnects > 0
  /\ connect(visible)
  /\ UNCHANGED <<visible, stopped, timer, leaked, reconnects, budgets>>

\* The timeout that onclose set.
Reconnect ==
  /\ reconnects > 0
  /\ reconnects' = reconnects - 1
  /\ connect(visible)
  /\ UNCHANGED <<visible, stopped, timer, leaked, budgets>>
-----------------------------------------------------------------------------
Next ==
  Hide \/ Show \/ Stop \/ Opens \/ Tick \/ Answer \/ Lost \/ Closed \/ FormerClosed
    \/ Reconnect

\* A connection attempt ends, a socket that is closing closes, a timeout fires.
Fairness == WF_vars(Opens) /\ WF_vars(Closed) /\ WF_vars(FormerClosed) /\ WF_vars(Reconnect)

Spec == Init /\ [][Next]_vars

FairSpec == Spec /\ Fairness
-----------------------------------------------------------------------------
\* A monitor that is hidden or stopped has no connection and no interval of its own, even
\* if a reconnection was pending or a connection half open when it was told (monitor.ts:
\* 22-34, 40-44).
SilentWhenHidden == stopped \/ ~ visible => ~ Live /\ ~ timer

\* A monitor that should be measuring and is not has the next attempt in sight: no order
\* of losses, hides and returns leaves it waiting for nothing (monitor.ts:39-64).
NeverAbandoned ==
  ~ stopped /\ visible /\ ~ (ws = "open" /\ timer)
    => ws \in {"connecting", "closing"} \/ former > 0 \/ reconnects > 0

\* In states of the right type, a monitor told to be silent is, and one that is not measuring
\* will try again.
MonitorInv == TypeOK /\ SilentWhenHidden /\ NeverAbandoned

\* Losing connections never makes the monitor run two attempts, or two intervals, beside
\* each other: a retry starts only when the attempt before it is over (monitor.ts:58-63).
OneAttempt ==
  hides = 0 =>
    /\ former + reconnects + (IF Live \/ ws = "closing" THEN 1 ELSE 0) <= 1
    /\ leaked = 0

\* Left alone on a visible page the monitor settles on one connection that it pings every
\* second: connecting again comes to an end.
Settles == <>[](stopped \/ ~ visible \/ (ws = "open" /\ timer))

\* So it does, whatever connections are lost, as long as the page is never hidden.
SettlesIfNeverHidden == [](hides = 0) => Settles
=============================================================================
