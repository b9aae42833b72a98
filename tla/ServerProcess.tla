--------------------------- MODULE ServerProcess ---------------------------
(***************************************************************************)
(* The process and its end (cmd/pcc/main.go, App.Close): the WebSockets of *)
(* PingSockets and an upload of UploadHandler, which main's shutdown meets *)
(* wherever they are.                                                      *)
(*                                                                         *)
(* CloseAll cancels the runs it knows and waits until their slots are      *)
(* released, before any WebSocket is closed.  A run created after that,    *)
(* while the listener still accepts, is known to nobody: Shutdown has to   *)
(* wait for its upload.                                                    *)
(***************************************************************************)
EXTENDS PingSockets

CONSTANT Limit  \* PCC_UPLOAD_LIMIT, counted in chunks

ASSUME ProcessAssumption == Limit \in Nat

VARIABLES
  run,        \* the run of the upload: known to CloseAll, created after it, or none
  uploading,  \* where the upload handler is
  watcher, reported, stopped, cancelled, deadline, received, readErr, answer, closes, bodyClosed

Upload == INSTANCE UploadHandler WITH pc <- uploading

uploadVars == <<uploading, watcher, reported, stopped, cancelled, deadline, received, readErr,
                answer, closes, bodyClosed>>
processVars == <<vars, run, uploadVars>>

ProcessInit == Init /\ run \in {"known", "none"} /\ Upload!Init
-----------------------------------------------------------------------------
Released == uploading = "released"

\* A run is created and its upload admitted after CloseAll has read the map of the runs.
LateUpload ==
  /\ Accepting /\ server # "serving"
  /\ run = "none" /\ ~ cancelled
  /\ run' = "late"
  /\ UNCHANGED <<vars, uploadVars>>

\* The run is deleted or expires, or CloseAll cancels it.
Cancel == Alive /\ run # "none" /\ Upload!CancelRun /\ UNCHANGED <<vars, run>>

Deadline == Alive /\ run # "none" /\ Upload!DeadlinePasses /\ UNCHANGED <<vars, run>>

\* The goroutines of the upload and its client.
Handle == Alive /\ run # "none" /\ Upload!Handler /\ UNCHANGED <<vars, run>>
Watch == Alive /\ run # "none" /\ Upload!Watcher /\ UNCHANGED <<vars, run>>
Client == Alive /\ run # "none" /\ Upload!Client /\ UNCHANGED <<vars, run>>

\* The same, of a Close that the deadline bounds.
BoundedClose ==
  /\ Alive /\ run # "none" /\ Upload!CloseIsBounded
  /\ Upload!WatcherClosed \/ Upload!Closed
  /\ UNCHANGED <<vars, run>>

\* The WebSockets, and main up to CloseAll and after it. A failed server exits without
\* waiting for the upload.
Sockets ==
  /\ \/ \E h \in Handlers : Ping(h) \/ FallsSilent(h)
     \/ Signal \/ ServeFails \/ CloseSockets \/ CloseReturns \/ ExitFailed
  /\ UNCHANGED <<run, uploadVars>>

\* CloseAll returns when the slots of the runs it has cancelled are released.
CloseAllReturns ==
  /\ run = "known" => cancelled /\ Released
  /\ RunsClosed
  /\ UNCHANGED <<run, uploadVars>>

\* Shutdown returns when the upload is over, or after five seconds, when the two seconds of
\* any upload have passed.
ShutdownReturns ==
  /\ run # "none" => Released \/ deadline # "ahead"
  /\ Exit
  /\ UNCHANGED <<run, uploadVars>>

Exited == Done /\ UNCHANGED processVars
-----------------------------------------------------------------------------
ProcessNext ==
  \/ LateUpload \/ Cancel \/ Deadline \/ Handle \/ Watch \/ Client
  \/ Sockets \/ CloseAllReturns \/ ShutdownReturns \/ Exited

\* As in PingSockets and UploadHandler; CloseAll cancels every run it knows.
ProcessFairness ==
  /\ WF_processVars(server = "closing runs" /\ run = "known" /\ Cancel)
  /\ WF_processVars(Deadline) /\ WF_processVars(Handle) /\ WF_processVars(Watch)
  /\ WF_processVars(BoundedClose)
  /\ WF_processVars(CloseAllReturns) /\ WF_processVars(ShutdownReturns)
  /\ WF_processVars(Sockets /\ server' # server /\ server # "serving")
  /\ \A h \in Handlers :
       WF_processVars(pc[h] # "idle" /\ ~ Talking(h) /\ Ping(h) /\ UNCHANGED <<run, uploadVars>>)

ProcessSpec == ProcessInit /\ [][ProcessNext]_processVars /\ ProcessFairness
-----------------------------------------------------------------------------
\* The body of an upload changes hands safely, wherever the end of the server meets it
\* (UploadHandler).
UploadInv == Upload!UploadInv

\* As long as the body may still be read a deadline bounds the read (UploadHandler).
DeadlineCoversBody == Upload!DeadlineCoversBody

\* No upload keeps its slot, also one that nobody cancels since its run was created after
\* CloseAll: it is released, unless the process ends first (app.go:78-99, 144-153).
SlotIsReleased == run # "none" ~> Released \/ server = "exited"
=============================================================================
