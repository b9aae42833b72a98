---------------------------- MODULE PingSockets ----------------------------
(***************************************************************************)
(* The WebSockets of /api/ping (internal/app/app.go) and the end of the    *)
(* server: the handlers take a place each, upgrade, register their         *)
(* connection and echo; main's shutdown calls App.Close, which closes what *)
(* is registered, and then http.Server.Shutdown.                           *)
(*                                                                         *)
(* http.Server goes on accepting requests until Shutdown is called, and    *)
(* Shutdown does not know of connections that were upgraded.  Where Serve  *)
(* fails main closes the App too, and exits without a Shutdown; requests   *)
(* of connections accepted before go on till then.                         *)
(***************************************************************************)
EXTENDS Naturals, FiniteSets

CONSTANTS
  Handlers,  \* goroutines that serve /api/ping
  Places     \* the capacity of App.ws, 2 * PCC_MAX_RUNS

ASSUME PingAssumption == IsFiniteSet(Handlers) /\ Places \in Nat \ {0}

VARIABLES
  pc,       \* where each handler is
  open,     \* the handlers whose connection is open
  wsClose,  \* App.wsClose: the handlers whose connection Close can close
  places,   \* tokens in App.ws
  silent,   \* the handlers whose client sends nothing any more
  failed,   \* whether Serve has returned an error
  server    \* how far main is

vars == <<pc, open, wsClose, places, silent, failed, server>>

TypeOK ==
  /\ pc \in [Handlers -> {"idle", "placed", "upgraded", "echoing", "leaving", "left", "closed"}]
  /\ open \in SUBSET Handlers
  /\ wsClose \in SUBSET Handlers
  /\ places \in 0..Places
  /\ silent \in SUBSET Handlers
  /\ failed \in BOOLEAN
  /\ server \in {"serving", "closing runs", "closed runs", "closed sockets", "draining", "exited"}

Init ==
  /\ pc = [h \in Handlers |-> "idle"]
  /\ open = {} /\ wsClose = {} /\ places = 0
  /\ silent = {} /\ failed = FALSE
  /\ server = "serving"

Accepting == server \notin {"draining", "exited"}
Alive == server # "exited"

\* A connection whose client sends something within every 30 seconds.
Talking(h) == pc[h] = "echoing" /\ h \in open /\ h \notin silent
-----------------------------------------------------------------------------
(* ping                                                                    *)

\* Otherwise the request is answered 429, and nothing changes.
Place(h) ==
  /\ Accepting /\ pc[h] = "idle"
  /\ places < Places
  /\ places' = places + 1
  /\ pc' = [pc EXCEPT ![h] = "placed"]
  /\ UNCHANGED <<open, wsClose, silent, failed, server>>

Upgrade(h) ==
  /\ Alive /\ pc[h] = "placed"
  /\ open' = open \cup {h}
  /\ pc' = [pc EXCEPT ![h] = "upgraded"]
  /\ UNCHANGED <<wsClose, places, silent, failed, server>>

\* The upgrade is refused; only the deferred release is left.
UpgradeFails(h) ==
  /\ Alive /\ pc[h] = "placed"
  /\ pc' = [pc EXCEPT ![h] = "closed"]
  /\ UNCHANGED <<open, wsClose, places, silent, failed, server>>

Register(h) ==
  /\ Alive /\ pc[h] = "upgraded"
  /\ wsClose' = wsClose \cup {h}
  /\ pc' = [pc EXCEPT ![h] = "echoing"]
  /\ UNCHANGED <<open, places, silent, failed, server>>

\* Fault: a read waits for the peer for ever.
EchoUntilClosed(h) ==
  /\ Alive /\ pc[h] = "echoing"
  /\ h \notin open
  /\ pc' = [pc EXCEPT ![h] = "leaving"]
  /\ UNCHANGED <<open, wsClose, places, silent, failed, server>>

\* The client is gone, suspended or has nothing more to say; nobody has to tell the server.
FallsSilent(h) ==
  /\ Alive /\ Talking(h)
  /\ silent' = silent \cup {h}
  /\ UNCHANGED <<pc, open, wsClose, places, failed, server>>

\* A read or a write fails: the peer has closed or sent what is not an echo request, nothing
\* has come for 30 seconds, or the connection was closed here. Otherwise the loop goes on.
EchoEnds(h) ==
  /\ Alive /\ pc[h] = "echoing"
  /\ pc' = [pc EXCEPT ![h] = "leaving"]
  /\ UNCHANGED <<open, wsClose, places, silent, failed, server>>

\* Fault: the entry of the connection stays in the map.
DeregisterForgotten(h) ==
  /\ Alive /\ pc[h] = "leaving"
  /\ pc' = [pc EXCEPT ![h] = "left"]
  /\ UNCHANGED <<open, wsClose, places, silent, failed, server>>

\* The deferred calls, last one first.
Deregister(h) ==
  /\ Alive /\ pc[h] = "leaving"
  /\ wsClose' = wsClose \ {h}
  /\ pc' = [pc EXCEPT ![h] = "left"]
  /\ UNCHANGED <<open, places, silent, failed, server>>

\* Fault: the place is given back before the connection is closed.
CloseNowLate(h) ==
  /\ Alive /\ pc[h] = "left"
  /\ pc' = [pc EXCEPT ![h] = "closed"]
  /\ UNCHANGED <<open, wsClose, places, silent, failed, server>>

CloseNow(h) ==
  /\ Alive /\ pc[h] = "left"
  /\ open' = open \ {h}
  /\ pc' = [pc EXCEPT ![h] = "closed"]
  /\ UNCHANGED <<wsClose, places, silent, failed, server>>

Leave(h) ==
  /\ Alive /\ pc[h] = "closed"
  /\ places' = places - 1
  /\ pc' = [pc EXCEPT ![h] = "idle"]
  /\ silent' = silent \ {h}
  /\ UNCHANGED <<open, wsClose, failed, server>>
-----------------------------------------------------------------------------
(* main and App.Close                                                      *)

Signal ==
  /\ server = "serving"
  /\ server' = "closing runs"
  /\ UNCHANGED <<pc, open, wsClose, places, silent, failed>>

\* The listener fails: no connection is accepted any more.
ServeFails ==
  /\ server = "serving"
  /\ failed' = TRUE
  /\ server' = "closing runs"
  /\ UNCHANGED <<pc, open, wsClose, places, silent>>

\* Fault: CloseAll waits for the sockets, which are closed after it.
RunsClosedLast ==
  /\ server = "closing runs"
  /\ \A h \in Handlers : pc[h] = "idle"
  /\ server' = "closed runs"
  /\ UNCHANGED <<pc, open, wsClose, places, silent, failed>>

\* runs.CloseAll() has returned (RunRegistry).
RunsClosed ==
  /\ server = "closing runs"
  /\ server' = "closed runs"
  /\ UNCHANGED <<pc, open, wsClose, places, silent, failed>>

\* The section under wsMu.
CloseSockets ==
  /\ server = "closed runs"
  /\ open' = open \ wsClose
  /\ wsClose' = {}
  /\ server' = "closed sockets"
  /\ UNCHANGED <<pc, places, silent, failed>>

\* geo.Close(); main goes on to Shutdown, which stops the listener.
CloseReturns ==
  /\ server = "closed sockets" /\ ~ failed
  /\ server' = "draining"
  /\ UNCHANGED <<pc, open, wsClose, places, silent, failed>>

\* With main the process ends, and with it every connection.
ProcessEnds ==
  /\ server' = "exited"
  /\ open' = {}
  /\ UNCHANGED <<pc, wsClose, places, silent, failed>>

\* Shutdown returns when the requests that were not upgraded are over, or after five
\* seconds.
Exit == server = "draining" /\ ProcessEnds

\* After geo.Close() where Serve has failed: os.Exit(1), whatever is under way.
ExitFailed == server = "closed sockets" /\ failed /\ ProcessEnds

Done == server = "exited" /\ UNCHANGED vars
-----------------------------------------------------------------------------
Ping(h) ==
  Place(h) \/ Upgrade(h) \/ UpgradeFails(h) \/ Register(h) \/ EchoEnds(h) \/ Deregister(h)
    \/ CloseNow(h) \/ Leave(h)

Next ==
  \/ \E h \in Handlers : Ping(h) \/ FallsSilent(h)
  \/ Signal \/ ServeFails \/ RunsClosed \/ CloseSockets \/ CloseReturns \/ Exit \/ ExitFailed
  \/ Done

\* A handler that has begun goes on; its loop ends by itself only when the client is silent
\* for a read's timeout or the connection was closed. Nobody has to fall silent or to stop
\* the server; once it is told to, it goes on too.
Fairness ==
  /\ \A h \in Handlers : /\ WF_vars(Upgrade(h) \/ UpgradeFails(h)) /\ WF_vars(Register(h))
                         /\ WF_vars(~ Talking(h) /\ EchoEnds(h)) /\ WF_vars(Deregister(h))
                         /\ WF_vars(CloseNow(h)) /\ WF_vars(Leave(h))
  /\ WF_vars(RunsClosed) /\ WF_vars(CloseSockets) /\ WF_vars(CloseReturns)
  /\ WF_vars(Exit) /\ WF_vars(ExitFailed)

Spec == Init /\ [][Next]_vars

FairSpec == Spec /\ Fairness
-----------------------------------------------------------------------------
\* There are never more open WebSockets than places: every handler holds exactly one, and
\* closes its connection before it gives it back (the order of the deferred calls,
\* app.go:462, 471, 475).
SocketBound ==
  /\ Cardinality(open) <= Places
  /\ places = Cardinality({h \in Handlers : pc[h] # "idle"})

\* What Close would close are the connections of handlers that still serve them, and it
\* misses none of them: the map neither keeps a dead entry nor loses a live one.
RegisteredIsServed ==
  /\ \A h \in wsClose : pc[h] \in {"echoing", "leaving"}
  /\ server \in {"serving", "closing runs", "closed runs"} =>
       \A h \in Handlers : pc[h] = "echoing" => h \in wsClose

\* The places and the map are right, in states of the right type.
SocketInv == TypeOK /\ SocketBound /\ RegisteredIsServed

\* Nobody keeps a place but a client that goes on talking on a connection still open: one
\* that has fallen silent, or whose connection Close has swept, gives it back, and so does
\* every other way out of the handler, unless the process ends first (app.go:462-490).
PlacesReturn ==
  \A h \in Handlers : pc[h] # "idle" ~> pc[h] = "idle" \/ Talking(h) \/ server = "exited"

\* Once told to, or when it cannot serve, the server stops, whoever still talks to it.
ServerExits == server = "closing runs" ~> server = "exited"
=============================================================================
