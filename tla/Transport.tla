----------------------------- MODULE Transport -----------------------------
(***************************************************************************)
(* One call of the transport that createBrowserTransport returns           *)
(* (web/src/features/speed/protocol.ts): download() or upload(), each with *)
(* a worker per stream.  The engine never has two calls in flight, so that *)
(* each is taken from its start.                                           *)
(***************************************************************************)
EXTENDS DownloadPhase

CONSTANT MaxRequests   \* MAX_UPLOAD_REQUESTS

ASSUME TransportAssumption == MaxRequests \in Nat \ {0}

VARIABLES
  method,     \* the method called
  posting,    \* where each upload worker is
  requests,   \* the requests it has made
  acked,      \* ackBytes, in chunks
  ackSamples, \* the length of its samples
  timer,      \* its timer
  timed,      \* the upload workers that have seen the clock move
  aborted,    \* whether the signal given to upload() is aborted
  uploaded,   \* what upload() has done
  uploadPart  \* what it has returned

Upload == INSTANCE UploadPhase WITH
  pc <- posting, samples <- ackSamples, ticked <- timed, parent <- aborted,
  outcome <- uploaded, result <- uploadPart

uploadVars == <<posting, requests, acked, ackSamples, timer, timed, aborted, uploaded,
                uploadPart>>
callVars == <<method, vars, uploadVars>>

CallInit == method \in {"download", "upload"} /\ Init /\ Upload!Init

CallNext ==
  \/ method = "download" /\ Next /\ UNCHANGED <<method, uploadVars>>
  \/ method = "upload" /\ Upload!Next /\ UNCHANGED <<method, vars>>

CallSpec ==
  /\ CallInit /\ [][CallNext]_callVars
  /\ method = "download" => Fairness
  /\ method = "upload" => Upload!Fairness
-----------------------------------------------------------------------------
\* What upload() returns is everything acknowledged, with a part of the rate for every
\* worker that has any, unless it took no time at all (UploadPhase, protocol.ts:177, 188-189,
\* 272, 280).
UploadInv == Upload!UploadPhaseInv

\* Either call comes to an end whatever the network and the server do, and so does every
\* worker it leaves behind, which would hold a stream slot of the server (protocol.ts:66-73,
\* 227-247, 265-272).
CallEnds ==
  /\ method = "download" => PhaseEnds
  /\ method = "upload" => Upload!PhaseEnds
=============================================================================
