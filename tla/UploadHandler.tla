--------------------------- MODULE UploadHandler ---------------------------
(***************************************************************************)
(* One POST .../upload (internal/app/app.go): the handler that reads the   *)
(* body of an admitted request, the goroutine that watches the run's       *)
(* context for it, the read deadline of the connection, and the way both   *)
(* end before the slot is released.                                        *)
(*                                                                         *)
(* The request body is net/http's: Read and Close exclude each other, and  *)
(* Close of a body that is not at its end reads on.  Nothing but the read  *)
(* deadline bounds how long either waits for the client.                   *)
(***************************************************************************)
EXTENDS Naturals

CONSTANT Limit  \* PCC_UPLOAD_LIMIT, counted in chunks

VARIABLES
  pc,         \* where the handler is
  watcher,    \* where the watcher goroutine is
  reported,   \* what it sends on watcherResult: whether it closed the body
  stopped,    \* whether stopWatcher is closed
  cancelled,  \* whether the run's context is done
  deadline,   \* the read deadline: in the future, in the past, or none
  received,   \* chunks io.Copy has counted
  readErr,    \* how io.Copy ended
  answer,     \* what the handler answers; silent is an aborted connection
  closes,     \* calls of body.Close that began
  bodyClosed  \* whether one of them has returned

vars == <<pc, watcher, reported, stopped, cancelled, deadline, received, readErr,
          answer, closes, bodyClosed>>
bodyVars == <<closes, bodyClosed>>
watchVars == <<watcher, reported>>
readVars == <<received, readErr>>

TypeOK ==
  /\ pc \in {"copying", "checked", "inRead", "copied", "answered", "joining", "closing",
             "inClose", "resetting", "releasing", "released"}
  /\ watcher \in {"waiting", "closing", "inClose", "done"}
  /\ reported \in BOOLEAN
  /\ stopped \in BOOLEAN
  /\ cancelled \in BOOLEAN
  /\ deadline \in {"ahead", "passed", "none"}
  /\ received \in 0..Limit
  /\ readErr \in {"none", "eof", "cancelled", "tooLarge", "timeout", "failed", "closed"}
  /\ answer \in {"none", "ack", "tooLarge", "badRequest", "silent"}
  /\ closes \in Nat
  /\ bodyClosed \in BOOLEAN

\* The handler holds its slot, has set the deadline and has started the watcher.
Init ==
  /\ pc = "copying" /\ watcher = "waiting" /\ reported = FALSE
  /\ stopped = FALSE /\ cancelled \in BOOLEAN
  /\ deadline = "ahead"
  /\ received = 0 /\ readErr = "none" /\ answer = "none"
  /\ closes = 0 /\ bodyClosed = FALSE
-----------------------------------------------------------------------------
(* The environment: the registry, the clock.                               *)

\* The run is deleted, expires, or the server shuts down.
CancelRun ==
  /\ ~ cancelled
  /\ cancelled' = TRUE
  /\ UNCHANGED <<pc, watchVars, stopped, deadline, readVars, answer, bodyVars>>

\* uploadDeadline: two seconds, or the expiry of the run when that is earlier.
DeadlinePasses ==
  /\ deadline = "ahead"
  /\ deadline' = "passed"
  /\ UNCHANGED <<pc, watchVars, stopped, cancelled, readVars, answer, bodyVars>>
-----------------------------------------------------------------------------
(* io.Copy(io.Discard, &contextReader{...})                                *)

\* contextReader.Read looks at the context,
ContextChecked ==
  /\ pc = "copying"
  /\ ~ cancelled
  /\ pc' = "checked"
  /\ UNCHANGED <<watchVars, stopped, cancelled, deadline, readVars, answer, bodyVars>>

\* and then calls Read of the body, which waits while the watcher is in Close.
ReadBegins ==
  /\ pc = "checked"
  /\ watcher # "inClose"
  /\ pc' = "inRead"
  /\ UNCHANGED <<watchVars, stopped, cancelled, deadline, readVars, answer, bodyVars>>

CopyEnds(err) ==
  /\ readErr' = err
  /\ pc' = "copied"
  /\ UNCHANGED <<watchVars, stopped, cancelled, deadline, received, answer, bodyVars>>

ReadRefused ==
  /\ pc = "copying"
  /\ cancelled
  /\ CopyEnds("cancelled")

ReadChunk ==
  /\ pc = "inRead"
  /\ ~ bodyClosed
  /\ received < Limit
  /\ received' = received + 1
  /\ pc' = "copying"
  /\ UNCHANGED <<watchVars, stopped, cancelled, deadline, readErr, answer, bodyVars>>

\* The client ends the body, sends more than the limit, or goes away.
ReadEnds ==
  /\ pc = "inRead"
  /\ ~ bodyClosed
  /\ \E err \in {"eof", "failed"} \cup IF received = Limit THEN {"tooLarge"} ELSE {} :
       CopyEnds(err)

ReadTimesOut ==
  /\ pc = "inRead"
  /\ ~ bodyClosed
  /\ deadline = "passed"
  /\ CopyEnds("timeout")

\* The watcher closed the body between the look at the context and the call.
ReadAfterClose ==
  /\ pc = "inRead"
  /\ bodyClosed
  /\ CopyEnds("closed")
-----------------------------------------------------------------------------
(* The answer                                                              *)

\* Fault: the context is not consulted when the copy has ended.
StatusOfReadAlone(err, gone) ==
  CASE err \in {"none", "eof", "timeout"} -> "ack"
    [] err = "cancelled" -> "silent"
    [] err = "tooLarge" -> "tooLarge"
    [] OTHER -> "badRequest"

\* uploadReadStatus and what the handler writes for it.
uploadReadStatus(err, gone) ==
  CASE gone \/ err = "cancelled" -> "silent"
    [] ~ gone /\ err \in {"none", "eof", "timeout"} -> "ack"
    [] ~ gone /\ err = "tooLarge" -> "tooLarge"
    [] OTHER -> "badRequest"

Answer ==
  /\ pc = "copied"
  /\ answer' = uploadReadStatus(readErr, cancelled)
  /\ pc' = "answered"
  /\ UNCHANGED <<watchVars, stopped, cancelled, deadline, readVars, bodyVars>>
-----------------------------------------------------------------------------
(* The watcher: the select takes either case when both are ready           *)

WatcherSeesCancel ==
  /\ watcher = "waiting"
  /\ cancelled
  /\ watcher' = "closing"
  /\ UNCHANGED <<pc, reported, stopped, cancelled, deadline, readVars, answer, bodyVars>>

WatcherSeesStop ==
  /\ watcher = "waiting"
  /\ stopped
  /\ watcher' = "done"
  /\ UNCHANGED <<pc, reported, stopped, cancelled, deadline, readVars, answer, bodyVars>>

\* Close waits for a Read that is under way.
WatcherCloseBegins ==
  /\ watcher = "closing"
  /\ pc # "inRead"
  /\ watcher' = "inClose"
  /\ closes' = closes + 1
  /\ UNCHANGED <<pc, reported, stopped, cancelled, deadline, readVars, answer, bodyClosed>>

\* Close has read to the end of the body: it was there already, or the deadline lets
\* no more be read.
CloseIsBounded == readErr \in {"eof", "timeout", "failed"} \/ deadline = "passed"

WatcherClosed ==
  /\ watcher = "inClose"
  /\ watcher' = "done"
  /\ reported' = TRUE
  /\ bodyClosed' = TRUE
  /\ UNCHANGED <<pc, stopped, cancelled, deadline, readVars, answer, closes>>
-----------------------------------------------------------------------------
(* finishWatchedUpload, deferred                                           *)

StopWatcher ==
  /\ pc = "answered"
  /\ stopped' = TRUE
  /\ pc' = "joining"
  /\ UNCHANGED <<watchVars, cancelled, deadline, readVars, answer, bodyVars>>

\* Fault: the handler closes the body without asking whether the watcher has.
JoinIgnoringReport ==
  /\ pc = "joining"
  /\ watcher = "done"
  /\ pc' = "closing"
  /\ UNCHANGED <<watchVars, stopped, cancelled, deadline, readVars, answer, bodyVars>>

\* <-watcherResult
JoinWatcher ==
  /\ pc = "joining"
  /\ watcher = "done"
  /\ pc' = IF reported THEN "resetting" ELSE "closing"
  /\ UNCHANGED <<watchVars, stopped, cancelled, deadline, readVars, answer, bodyVars>>

\* Fault: the deadline is lifted before the body is closed.
CloseWithoutDeadline ==
  /\ pc = "closing"
  /\ pc' = "inClose"
  /\ closes' = closes + 1
  /\ deadline' = "none"
  /\ UNCHANGED <<watchVars, stopped, cancelled, readVars, answer, bodyClosed>>

\* finishUpload
CloseBegins ==
  /\ pc = "closing"
  /\ pc' = "inClose"
  /\ closes' = closes + 1
  /\ UNCHANGED <<watchVars, stopped, cancelled, deadline, readVars, answer, bodyClosed>>

Closed ==
  /\ pc = "inClose"
  /\ pc' = "resetting"
  /\ bodyClosed' = TRUE
  /\ UNCHANGED <<watchVars, stopped, cancelled, deadline, readVars, answer, closes>>

ResetDeadline ==
  /\ pc = "resetting"
  /\ deadline' = "none"
  /\ pc' = "releasing"
  /\ UNCHANGED <<watchVars, stopped, cancelled, readVars, answer, bodyVars>>

Release ==
  /\ pc = "releasing"
  /\ pc' = "released"
  /\ UNCHANGED <<watchVars, stopped, cancelled, deadline, readVars, answer, bodyVars>>

Done == pc = "released" /\ UNCHANGED vars
-----------------------------------------------------------------------------
Handler ==
  ContextChecked \/ ReadBegins \/ ReadRefused \/ ReadTimesOut \/ ReadAfterClose
    \/ Answer \/ StopWatcher \/ JoinWatcher \/ CloseBegins \/ ResetDeadline \/ Release

Watcher == WatcherSeesCancel \/ WatcherSeesStop \/ WatcherCloseBegins

\* What depends on the client: it may stall at any point.
Client == ReadChunk \/ ReadEnds \/ WatcherClosed \/ Closed

Next == CancelRun \/ DeadlinePasses \/ Handler \/ Watcher \/ Client \/ Done

\* The goroutines are scheduled and the deadline, while there is one, passes. The client
\* is not obliged to send anything: a Close ends for certain only when it is bounded.
Fairness ==
  /\ WF_vars(Handler) /\ WF_vars(Watcher) /\ WF_vars(DeadlinePasses)
  /\ WF_vars(CloseIsBounded /\ WatcherClosed) /\ WF_vars(CloseIsBounded /\ Closed)

Spec == Init /\ [][Next]_vars

FairSpec == Spec /\ Fairness
-----------------------------------------------------------------------------
\* Whoever closes the body, the watcher or the handler, the other does not: it has been
\* closed exactly once when the slot is given back (app.go:94-102).
ClosedExactlyOnce ==
  /\ closes <= 1
  /\ pc \in {"resetting", "releasing", "released"} => closes = 1 /\ bodyClosed

\* The watcher never outlives its handler, which would let it close the body of the next
\* request on the connection.
WatcherJoinedBeforeRelease == pc \in {"releasing", "released"} => watcher = "done"

\* As long as the body may still be read, by the copy or by a Close, a deadline bounds
\* the read; and it is gone before the connection serves another request.
DeadlineCoversBody ==
  /\ deadline = "none" => bodyClosed
  /\ pc = "released" => deadline = "none"

\* The errors the handler provokes itself, by closing the body under the reader, are
\* never blamed on the client.
OnlyClientsAreBlamed ==
  answer = "badRequest" => readErr = "failed"

\* The body changes hands safely: with the types, what both goroutines must keep.
UploadInv ==
  TypeOK /\ ClosedExactlyOnce /\ WatcherJoinedBeforeRelease /\ OnlyClientsAreBlamed

\* A client that stalls, or a run that is cancelled, cannot keep the slot.
SlotIsReleased == <>(pc = "released")
=============================================================================
