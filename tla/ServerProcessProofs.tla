------------------------ MODULE ServerProcessProofs ------------------------
(***************************************************************************)
(* Proofs about ServerProcess, for every number of WebSocket handlers and  *)
(* places and every upload limit.  The process takes the steps of its      *)
(* parts: what PingSockets and UploadHandler promise of their own steps    *)
(* holds of it, wherever the shutdown meets them.                          *)
(***************************************************************************)
EXTENDS ServerProcess, FiniteSetTheorems, TLAPS

-----------------------------------------------------------------------------
(* The WebSockets.                                                         *)

Placed == {h \in Handlers : pc[h] # "idle"}

\* Who may have an open connection.
OpenIsUpgraded == \A h \in open : pc[h] \in {"upgraded", "echoing", "leaving", "left"}

PlacesCounted == places = Cardinality(Placed)

SocketIInv == TypeOK /\ PlacesCounted /\ OpenIsUpgraded /\ RegisteredIsServed

LEMMA PlacedFinite == IsFiniteSet(Placed) /\ Cardinality(Placed) \in Nat
  <1>1. Placed \in SUBSET Handlers BY DEF Placed
  <1>. QED BY <1>1, FS_Subset, FS_CardinalityType, PingAssumption

\* The places in numbers.
LEMMA PlacesInNat == TypeOK => places \in Nat /\ places <= Places /\ Places \in Nat
  <1>1. Places \in Nat BY PingAssumption
  <1>. SUFFICES ASSUME TypeOK PROVE places \in Nat /\ places <= Places
    BY <1>1
  <1>2. places \in 0..Places BY DEF TypeOK
  <1>. QED BY <1>1, <1>2

LEMMA InitSockets == Init => SocketIInv
  <1>. SUFFICES ASSUME Init PROVE SocketIInv OBVIOUS
  <1>1. Placed = {} BY DEF Init, Placed
  <1>2. TypeOK
    <2>1. places \in 0..Places BY PingAssumption DEF Init
    <2>. QED BY <2>1 DEF Init, TypeOK
  <1>3. PlacesCounted BY <1>1, FS_EmptySet DEF Init, PlacesCounted
  <1>. QED BY <1>2, <1>3 DEF Init, SocketIInv, OpenIsUpgraded, RegisteredIsServed

\* Without a place taken or given back the count stays.
LEMMA PlacedKept ==
  ASSUME SocketIInv, Placed' = Placed, places' = places
  PROVE  PlacesCounted'
  BY DEF SocketIInv, PlacesCounted

LEMMA PlaceKeeps ==
  ASSUME SocketIInv, NEW h \in Handlers, Place(h)
  PROVE  SocketIInv'
  <1>1. /\ pc' = [pc EXCEPT ![h] = "placed"] /\ pc[h] = "idle"
        /\ places' = places + 1 /\ places < Places
        /\ UNCHANGED <<open, wsClose, silent, failed, server>>
    BY DEF Place
  <1>2. TypeOK'
    <2>1. places' \in 0..Places BY <1>1, PlacesInNat DEF SocketIInv
    <2>. QED BY <1>1, <2>1 DEF SocketIInv, TypeOK
  <1>3. Placed' = Placed \cup {h} /\ h \notin Placed
    BY <1>1 DEF Placed, SocketIInv, TypeOK
  <1>4. PlacesCounted'
    <2>1. Cardinality(Placed') = Cardinality(Placed) + 1
      BY <1>3, PlacedFinite, FS_AddElement
    <2>. QED BY <1>1, <2>1 DEF SocketIInv, PlacesCounted
  <1>. QED BY <1>1, <1>2, <1>4 DEF SocketIInv, TypeOK, OpenIsUpgraded, RegisteredIsServed

LEMMA LeaveKeeps ==
  ASSUME SocketIInv, NEW h \in Handlers, Leave(h)
  PROVE  SocketIInv'
  <1>1. /\ pc' = [pc EXCEPT ![h] = "idle"] /\ pc[h] = "closed"
        /\ places' = places - 1 /\ silent' = silent \ {h}
        /\ UNCHANGED <<open, wsClose, failed, server>>
    BY DEF Leave
  <1>2. Placed' = Placed \ {h} /\ h \in Placed
    BY <1>1 DEF Placed, SocketIInv, TypeOK
  <1>3. Cardinality(Placed') = Cardinality(Placed) - 1 /\ Cardinality(Placed) >= 1
    BY <1>2, PlacedFinite, FS_RemoveElement, FS_EmptySet
  <1>4. PlacesCounted' BY <1>1, <1>3 DEF SocketIInv, PlacesCounted
  <1>5. TypeOK'
    <2>1. places' \in 0..Places
      <3>1. places >= 1 BY <1>3 DEF SocketIInv, PlacesCounted
      <3>. QED BY <1>1, <3>1, PlacesInNat DEF SocketIInv
    <2>. QED BY <1>1, <2>1 DEF SocketIInv, TypeOK
  <1>. QED BY <1>1, <1>4, <1>5 DEF SocketIInv, TypeOK, OpenIsUpgraded, RegisteredIsServed

\* The steps of a handler that holds its place.
LEMMA HandlerKeeps ==
  ASSUME SocketIInv, NEW h \in Handlers,
         Upgrade(h) \/ UpgradeFails(h) \/ Register(h) \/ EchoEnds(h) \/ Deregister(h)
           \/ CloseNow(h) \/ FallsSilent(h)
  PROVE  SocketIInv'
  <1>. USE DEF SocketIInv, TypeOK
  <1>1. CASE Upgrade(h)
    <2>1. Placed' = Placed BY <1>1 DEF Upgrade, Placed
    <2>. QED BY <1>1, <2>1, PlacedKept DEF Upgrade, OpenIsUpgraded, RegisteredIsServed
  <1>2. CASE UpgradeFails(h)
    <2>1. Placed' = Placed BY <1>2 DEF UpgradeFails, Placed
    <2>. QED BY <1>2, <2>1, PlacedKept DEF UpgradeFails, OpenIsUpgraded, RegisteredIsServed
  <1>3. CASE Register(h)
    <2>1. Placed' = Placed BY <1>3 DEF Register, Placed
    <2>. QED BY <1>3, <2>1, PlacedKept DEF Register, OpenIsUpgraded, RegisteredIsServed
  <1>4. CASE EchoEnds(h)
    <2>1. Placed' = Placed BY <1>4 DEF EchoEnds, Placed
    <2>. QED BY <1>4, <2>1, PlacedKept DEF EchoEnds, OpenIsUpgraded, RegisteredIsServed
  <1>5. CASE Deregister(h)
    <2>1. Placed' = Placed BY <1>5 DEF Deregister, Placed
    <2>. QED BY <1>5, <2>1, PlacedKept DEF Deregister, OpenIsUpgraded, RegisteredIsServed
  <1>6. CASE CloseNow(h)
    <2>1. Placed' = Placed BY <1>6 DEF CloseNow, Placed
    <2>. QED BY <1>6, <2>1, PlacedKept DEF CloseNow, OpenIsUpgraded, RegisteredIsServed
  <1>7. CASE FallsSilent(h)
    <2>1. Placed' = Placed BY <1>7 DEF FallsSilent, Placed
    <2>. QED BY <1>7, <2>1, PlacedKept DEF FallsSilent, OpenIsUpgraded, RegisteredIsServed
  <1>. QED BY <1>1, <1>2, <1>3, <1>4, <1>5, <1>6, <1>7

LEMMA MainKeeps ==
  ASSUME SocketIInv,
         \/ Signal \/ ServeFails \/ RunsClosed \/ CloseSockets \/ CloseReturns
         \/ Exit \/ ExitFailed \/ UNCHANGED vars
  PROVE  SocketIInv'
  <1>. USE DEF Signal, ServeFails, RunsClosed, CloseSockets, CloseReturns, Exit, ExitFailed,
               ProcessEnds, vars
  <1>1. UNCHANGED <<pc, places, silent>> /\ open' \subseteq open /\ wsClose' \subseteq wsClose
    OBVIOUS
  <1>2. PlacesCounted' BY <1>1 DEF SocketIInv, PlacesCounted, Placed
  <1>3. failed' \in BOOLEAN BY DEF SocketIInv, TypeOK
  <1>4. server' \in {"serving", "closing runs", "closed runs", "closed sockets", "draining",
                     "exited"}
    BY DEF SocketIInv, TypeOK
  <1>5. server' \in {"serving", "closing runs", "closed runs"}
          => wsClose' = wsClose /\ server \in {"serving", "closing runs", "closed runs"}
    BY DEF SocketIInv, TypeOK
  <1>. QED BY <1>1, <1>2, <1>3, <1>4, <1>5
    DEF SocketIInv, TypeOK, OpenIsUpgraded, RegisteredIsServed

LEMMA SocketStep == SocketIInv /\ [Next]_vars => SocketIInv'
  BY PlaceKeeps, LeaveKeeps, HandlerKeeps, MainKeeps DEF Next, Ping, Done

\* The open connections are those of some of the handlers that hold a place.
LEMMA SocketsBounded == SocketIInv => SocketInv
  <1>. SUFFICES ASSUME SocketIInv PROVE SocketInv OBVIOUS
  <1>1. open \in SUBSET Placed BY DEF SocketIInv, TypeOK, OpenIsUpgraded, Placed
  <1>2. /\ Cardinality(open) <= Cardinality(Placed) /\ IsFiniteSet(open)
        /\ Cardinality(open) \in Nat
    BY <1>1, PlacedFinite, FS_Subset, FS_CardinalityType
  <1>3. Cardinality(open) <= Places
    <2>1. Cardinality(Placed) = places BY DEF SocketIInv, PlacesCounted
    <2>. QED BY <1>2, <2>1, PlacesInNat DEF SocketIInv
  <1>. QED BY <1>3 DEF SocketInv, SocketBound, SocketIInv, PlacesCounted, Placed

-----------------------------------------------------------------------------
(* The process takes the steps of its parts.                               *)

\* What the sockets see of any step of the process is a step of PingSockets.
LEMMA ProcessStepsSockets == [ProcessNext]_processVars => [Next]_vars
  <1>. SUFFICES ASSUME [ProcessNext]_processVars PROVE Next \/ UNCHANGED vars OBVIOUS
  <1>1. CASE LateUpload \/ Cancel \/ Deadline \/ Handle \/ Watch \/ Client
    BY <1>1 DEF LateUpload, Cancel, Deadline, Handle, Watch, Client
  <1>2. CASE Sockets \/ CloseAllReturns \/ ShutdownReturns
    BY <1>2 DEF Sockets, CloseAllReturns, ShutdownReturns, Next
  <1>3. CASE Exited \/ UNCHANGED processVars BY <1>3 DEF Exited, processVars
  <1>. QED BY <1>1, <1>2, <1>3 DEF ProcessNext

\* What the upload sees of any step of the process is a step of UploadHandler.
LEMMA ProcessStepsUpload == [ProcessNext]_processVars => Upload!Next \/ UNCHANGED uploadVars
  <1>. SUFFICES ASSUME [ProcessNext]_processVars PROVE Upload!Next \/ UNCHANGED uploadVars
    OBVIOUS
  <1>1. CASE Cancel \/ Deadline \/ Handle \/ Watch \/ Client
    BY <1>1 DEF Cancel, Deadline, Handle, Watch, Client, Upload!Next
  <1>2. CASE LateUpload \/ Sockets \/ CloseAllReturns \/ ShutdownReturns
    BY <1>2 DEF LateUpload, Sockets, CloseAllReturns, ShutdownReturns
  <1>3. CASE Exited \/ UNCHANGED processVars BY <1>3 DEF Exited, processVars
  <1>. QED BY <1>1, <1>2, <1>3 DEF ProcessNext

-----------------------------------------------------------------------------
(* The upload.                                                             *)

\* The deferred part of the handler after the watcher has ended.
Finishing == {"closing", "inClose", "resetting", "releasing", "released"}

\* The watcher closes the body only of a run that is cancelled, and reports it when it ends;
\* the handler goes on from the join only then.
WatcherHonest ==
  /\ watcher \in {"closing", "inClose"} \/ reported => cancelled
  /\ reported => watcher = "done"
  /\ uploading \in Finishing => watcher = "done"
  /\ uploading \in {"closing", "inClose"} => ~ reported

\* The calls of Close, by either of the two.
ClosesCounted ==
  /\ watcher = "inClose" \/ reported \/ uploading = "inClose" => closes = 1
  /\ uploading \in {"resetting", "releasing", "released"} => closes = 1
  /\ watcher # "inClose" /\ ~ reported
       /\ uploading \notin {"inClose", "resetting", "releasing", "released"} => closes = 0
  /\ bodyClosed => reported \/ uploading \in {"resetting", "releasing", "released"}
  /\ reported \/ uploading \in {"resetting", "releasing", "released"} => bodyClosed

DeadlineHeld == deadline = "none" <=> uploading \in {"releasing", "released"}

\* The read that a Close of the watcher has ended is the read of a cancelled run.
AnswerJustified ==
  /\ readErr = "closed" => cancelled
  /\ uploading \in {"copying", "checked", "inRead", "copied"} => answer = "none"
  /\ Upload!OnlyClientsAreBlamed

UploadIInv ==
  /\ Upload!TypeOK
  /\ WatcherHonest /\ ClosesCounted /\ DeadlineHeld /\ AnswerJustified

LEMMA InitUpload == Upload!Init => UploadIInv
  <1>. SUFFICES ASSUME Upload!Init PROVE UploadIInv OBVIOUS
  <1>1. Upload!TypeOK
    <2>1. received \in 0..Limit /\ closes \in Nat BY ProcessAssumption DEF Upload!Init
    <2>. QED BY <2>1, Zenon DEF Upload!Init, Upload!TypeOK
  <1>. QED BY <1>1
    DEF Upload!Init, UploadIInv, WatcherHonest, ClosesCounted, DeadlineHeld, AnswerJustified,
        Finishing, Upload!OnlyClientsAreBlamed

\* The steps that read the body.
LEMMA CopyKeeps ==
  ASSUME UploadIInv,
         \/ Upload!ContextChecked \/ Upload!ReadBegins \/ Upload!ReadRefused
         \/ Upload!ReadChunk \/ Upload!ReadEnds \/ Upload!ReadTimesOut \/ Upload!ReadAfterClose
  PROVE  UploadIInv'
  <1>. USE ProcessAssumption
       DEF UploadIInv, WatcherHonest, ClosesCounted, DeadlineHeld, AnswerJustified, Finishing,
           Upload!TypeOK, Upload!OnlyClientsAreBlamed, Upload!watchVars, Upload!readVars,
           Upload!bodyVars, Upload!CopyEnds
  <1>1. CASE Upload!ContextChecked BY <1>1 DEF Upload!ContextChecked
  <1>2. CASE Upload!ReadBegins BY <1>2 DEF Upload!ReadBegins
  <1>3. CASE Upload!ReadRefused BY <1>3 DEF Upload!ReadRefused
  <1>4. CASE Upload!ReadChunk BY <1>4 DEF Upload!ReadChunk
  <1>5. CASE Upload!ReadEnds BY <1>5 DEF Upload!ReadEnds
  <1>6. CASE Upload!ReadTimesOut BY <1>6 DEF Upload!ReadTimesOut
  <1>7. CASE Upload!ReadAfterClose BY <1>7 DEF Upload!ReadAfterClose
  <1>. QED BY <1>1, <1>2, <1>3, <1>4, <1>5, <1>6, <1>7

\* The steps of the watcher, the clock and the registry.
LEMMA WatcherKeeps ==
  ASSUME UploadIInv,
         \/ Upload!CancelRun \/ Upload!DeadlinePasses \/ Upload!WatcherSeesCancel
         \/ Upload!WatcherSeesStop \/ Upload!WatcherCloseBegins \/ Upload!WatcherClosed
  PROVE  UploadIInv'
  <1>. USE ProcessAssumption
       DEF UploadIInv, WatcherHonest, ClosesCounted, DeadlineHeld, AnswerJustified, Finishing,
           Upload!TypeOK, Upload!OnlyClientsAreBlamed, Upload!watchVars, Upload!readVars,
           Upload!bodyVars
  <1>1. CASE Upload!CancelRun BY <1>1 DEF Upload!CancelRun
  <1>2. CASE Upload!DeadlinePasses BY <1>2 DEF Upload!DeadlinePasses
  <1>3. CASE Upload!WatcherSeesCancel BY <1>3 DEF Upload!WatcherSeesCancel
  <1>4. CASE Upload!WatcherSeesStop BY <1>4 DEF Upload!WatcherSeesStop
  <1>5. CASE Upload!WatcherCloseBegins BY <1>5 DEF Upload!WatcherCloseBegins
  <1>6. CASE Upload!WatcherClosed BY <1>6 DEF Upload!WatcherClosed
  <1>. QED BY <1>1, <1>2, <1>3, <1>4, <1>5, <1>6

\* The answer and the deferred steps of the handler.
LEMMA FinishKeeps ==
  ASSUME UploadIInv,
         \/ Upload!Answer \/ Upload!StopWatcher \/ Upload!JoinWatcher \/ Upload!CloseBegins
         \/ Upload!Closed \/ Upload!ResetDeadline \/ Upload!Release
  PROVE  UploadIInv'
  <1>. USE ProcessAssumption
       DEF UploadIInv, WatcherHonest, ClosesCounted, DeadlineHeld, AnswerJustified, Finishing,
           Upload!TypeOK, Upload!OnlyClientsAreBlamed, Upload!watchVars, Upload!readVars,
           Upload!bodyVars
  <1>1. CASE Upload!Answer BY <1>1 DEF Upload!Answer, Upload!uploadReadStatus
  <1>2. CASE Upload!StopWatcher BY <1>2 DEF Upload!StopWatcher
  <1>3. CASE Upload!JoinWatcher BY <1>3 DEF Upload!JoinWatcher
  <1>4. CASE Upload!CloseBegins BY <1>4 DEF Upload!CloseBegins
  <1>5. CASE Upload!Closed BY <1>5 DEF Upload!Closed
  <1>6. CASE Upload!ResetDeadline BY <1>6 DEF Upload!ResetDeadline
  <1>7. CASE Upload!Release BY <1>7 DEF Upload!Release
  <1>. QED BY <1>1, <1>2, <1>3, <1>4, <1>5, <1>6, <1>7

LEMMA UploadStep == UploadIInv /\ (Upload!Next \/ UNCHANGED uploadVars) => UploadIInv'
  <1>. SUFFICES ASSUME UploadIInv, Upload!Next \/ UNCHANGED uploadVars PROVE UploadIInv'
    OBVIOUS
  <1>1. CASE Upload!Next /\ ~ Upload!Done
    BY <1>1, CopyKeeps, WatcherKeeps, FinishKeeps
      DEF Upload!Next, Upload!Handler, Upload!Watcher, Upload!Client
  <1>2. CASE Upload!Done \/ UNCHANGED uploadVars
    <2>1. UNCHANGED <<uploading, watcher, reported, stopped, cancelled, deadline, received,
                      readErr, answer, closes, bodyClosed>>
      BY <1>2 DEF Upload!Done, Upload!vars, uploadVars
    <2>. QED BY <2>1
      DEF UploadIInv, WatcherHonest, ClosesCounted, DeadlineHeld, AnswerJustified, Finishing,
          Upload!TypeOK, Upload!OnlyClientsAreBlamed
  <1>. QED BY <1>1, <1>2

-----------------------------------------------------------------------------
(* The theorems.                                                           *)

\* Whatever the shutdown and the upload do, the WebSockets take the steps of PingSockets: the
\* process implements it.
THEOREM ProcessImplementsSockets == ProcessSpec => Init /\ [][Next]_vars
  <1>1. ProcessInit => Init BY DEF ProcessInit
  <1>. QED BY <1>1, ProcessStepsSockets, PTL DEF ProcessSpec

\* Whatever the WebSockets and the shutdown do, the upload takes the steps of UploadHandler.
THEOREM ProcessImplementsUpload == ProcessSpec => Upload!Spec
  <1>1. ProcessInit => Upload!Init BY DEF ProcessInit
  <1>2. [ProcessNext]_processVars => [Upload!Next]_(Upload!vars)
    BY ProcessStepsUpload DEF Upload!vars, uploadVars
  <1>. QED BY <1>1, <1>2, PTL DEF ProcessSpec, Upload!Spec

\* The inductive invariants of the two parts hold of the process together.
THEOREM ProcessInductive == ProcessSpec => [](SocketIInv /\ UploadIInv)
  <1>1. ProcessInit => SocketIInv /\ UploadIInv
    BY InitSockets, InitUpload DEF ProcessInit
  <1>2. SocketIInv /\ UploadIInv /\ [ProcessNext]_processVars
          => SocketIInv' /\ UploadIInv'
    BY ProcessStepsSockets, ProcessStepsUpload, SocketStep, UploadStep
  <1>. QED BY <1>1, <1>2, PTL DEF ProcessSpec

\* However many handlers serve /api/ping, open WebSockets never exceed the places, every place
\* is accounted for, and the map that App.Close reads holds exactly what is served.
THEOREM SocketsAlwaysBounded == ProcessSpec => []SocketInv
  BY SocketsBounded, ProcessInductive, PTL

\* Wherever a cancellation, the deadline or the end of the server meets an upload, its body is
\* closed exactly once, the watcher ends before the slot is released, and nobody but the
\* client is blamed for what the handler did itself.
THEOREM UploadAlwaysSafe == ProcessSpec => []UploadInv
  <1>1. UploadIInv => UploadInv
    <2>. SUFFICES ASSUME UploadIInv PROVE UploadInv OBVIOUS
    <2>1. Upload!TypeOK /\ Upload!OnlyClientsAreBlamed BY DEF UploadIInv, AnswerJustified
    <2>2. Upload!ClosedExactlyOnce
      BY DEF UploadIInv, WatcherHonest, ClosesCounted, Upload!ClosedExactlyOnce
    <2>3. Upload!WatcherJoinedBeforeRelease
      BY DEF UploadIInv, WatcherHonest, Finishing, Upload!WatcherJoinedBeforeRelease
    <2>. QED BY <2>1, <2>2, <2>3 DEF UploadInv, Upload!UploadInv
  <1>. QED BY <1>1, ProcessInductive, PTL

\* As long as a body may be read a deadline bounds the read, for every upload limit.
THEOREM DeadlineAlwaysCovers == ProcessSpec => []DeadlineCoversBody
  <1>1. UploadIInv => DeadlineCoversBody
    BY DEF UploadIInv, ClosesCounted, DeadlineHeld, DeadlineCoversBody,
           Upload!DeadlineCoversBody
  <1>. QED BY <1>1, ProcessInductive, PTL

=============================================================================
