-------------------------- MODULE TransportProofs --------------------------
(***************************************************************************)
(* Proofs about Transport, for any number of streams, chunks and requests  *)
(* and either kind of browser: what is measured is final once a call has   *)
(* returned, and everything it counts is part of the rate or disclosed.    *)
(***************************************************************************)
EXTENDS Transport, FiniteSetTheorems, TLAPS

-----------------------------------------------------------------------------
(* download()                                                              *)

\* When a call is over its streams are aborted or have all ended.
EndStops == Frozen => parent \/ AllSettled

\* Nothing is read before the fetch has resolved, and while nobody has stopped the phase a
\* stream that has ended with bytes has a sample, if the clock moved for it.
EndedIsSampled ==
  /\ \A w \in Workers : pc[w] = "fetching" => bytes[w] = 0
  /\ ~ Frozen /\ ~ parent =>
       \A w \in Workers : pc[w] = "settled" /\ bytes[w] > 0 /\ w \in ticked => samples[w] > 0

\* Where an abort settles nothing every stream that is cut short is marked.
CutShortIsMarked ==
  browser = "ignores abort" => cutShort \subseteq incomplete /\ CutShortIsDisclosed

DownloadIInv ==
  /\ TypeOK /\ OnlyCutShortIsIncomplete /\ ResultStands
  /\ EndStops /\ EndedIsSampled /\ CutShortIsMarked

LEMMA WorkersCount ==
  ASSUME NEW A \in SUBSET Workers, NEW B \in SUBSET A
  PROVE  /\ Cardinality(A) \in 0..Cardinality(Workers)
         /\ Cardinality(B) <= Cardinality(A)
         /\ Cardinality(B) \in Nat
  <1>1. IsFiniteSet(A) /\ Cardinality(A) <= Cardinality(Workers)
    BY DownloadAssumption, FS_Subset
  <1>2. IsFiniteSet(B) /\ Cardinality(B) <= Cardinality(A) BY <1>1, FS_Subset
  <1>3. Cardinality(A) \in Nat /\ Cardinality(B) \in Nat /\ Cardinality(Workers) \in Nat
    BY <1>1, <1>2, DownloadAssumption, FS_CardinalityType
  <1>. QED BY <1>1, <1>2, <1>3

LEMMA InitDownload == Init => DownloadIInv
  <1>. SUFFICES ASSUME Init PROVE DownloadIInv OBVIOUS
  <1>1. 0 \in 0..Cardinality(Workers)
    BY WorkersCount, {} \in SUBSET Workers, {} \in SUBSET {}, FS_EmptySet
  <1>2. result.sampled = {} /\ result.incomplete = 0 BY DEF Init, Empty
  <1>3. result.sampled \in SUBSET Workers /\ result.incomplete \in 0..Cardinality(Workers)
    BY <1>1, <1>2
  <1>4. 0 \in 0..MaxChunks
    <2>1. MaxChunks \in Nat BY DownloadAssumption
    <2>. QED BY <2>1
  <1>5. bytes \in [Workers -> 0..MaxChunks] /\ samples \in [Workers -> Nat]
    BY <1>4 DEF Init
  <1>6. TypeOK BY <1>3, <1>5 DEF Init, TypeOK
  <1>. QED BY <1>6 DEF Init, DownloadIInv, OnlyCutShortIsIncomplete, ResultStands, EndStops,
         EndedIsSampled, CutShortIsMarked, CutShortIsDisclosed, Frozen

\* A call that is over changes neither what was measured nor who was cut short.
LEMMA FrozenStep ==
  ASSUME DownloadIInv, Frozen, [Next]_vars
  PROVE  UNCHANGED <<progress, cutShort, outcome, result>>
  <1>. USE DEF Frozen
  <1>1. ASSUME NEW w \in Workers, FetchResolves(w) \/ FetchFails(w) \/ ReadFails(w) \/ SiblingStops(w)
        PROVE  UNCHANGED <<progress, cutShort, outcome, result>>
    BY <1>1 DEF FetchResolves, FetchFails, ReadFails, SiblingStops, progress
  <1>2. ASSUME NEW w \in Workers, Chunk(w)
        PROVE  UNCHANGED <<progress, cutShort, outcome, result>>
    <2>1. bytes' = bytes BY <1>2 DEF Chunk, DownloadIInv, TypeOK
    <2>2. samples' = samples BY <1>2 DEF Chunk, DownloadIInv, TypeOK
    <2>. QED BY <1>2, <2>1, <2>2 DEF Chunk, progress
  <1>3. ASSUME NEW w \in Workers, EndOfStream(w) \/ Drained(w)
        PROVE  UNCHANGED <<progress, cutShort, outcome, result>>
    <2>1. samples' = samples
      BY <1>3 DEF EndOfStream, Drained, FinalSample, DownloadIInv, TypeOK
    <2>. QED BY <1>3, <2>1 DEF EndOfStream, Drained, progress
  <1>4. ASSUME NEW w \in Workers, Watchdog(w) PROVE FALSE
    BY <1>4 DEF Watchdog, Waiting, DownloadIInv, EndStops, AllSettled
  <1>5. ASSUME Cancel \/ Returns \/ Throws \/ AggregateTimeout PROVE FALSE
    BY <1>5 DEF Cancel, Returns, Throws, AggregateTimeout
  <1>6. CASE ClockMoves \/ Done \/ UNCHANGED vars
    BY <1>6 DEF ClockMoves, Done, vars, progress
  <1>. QED BY <1>1, <1>2, <1>3, <1>4, <1>5, <1>6 DEF Next

\* A step of one worker that leaves the call running or over as it is.
LEMMA WorkerStep ==
  ASSUME DownloadIInv, NEW w \in Workers,
         \/ FetchResolves(w) \/ FetchFails(w) \/ Chunk(w) \/ EndOfStream(w)
         \/ ReadFails(w) \/ Watchdog(w) \/ Drained(w) \/ SiblingStops(w)
  PROVE  TypeOK' /\ EndStops' /\ EndedIsSampled'
  <1>. USE DEF DownloadIInv, TypeOK, EndStops, EndedIsSampled, AllSettled, Frozen
  <1>1. CASE FetchResolves(w) BY <1>1 DEF FetchResolves, progress
  <1>2. CASE FetchFails(w) BY <1>2 DEF FetchFails, Clear, progress
  <1>3. CASE Chunk(w)
    <2>1. MaxChunks \in Nat BY DownloadAssumption
    <2>. QED BY <1>3, <2>1 DEF Chunk, Clear
  <1>4. CASE EndOfStream(w) BY <1>4 DEF EndOfStream, Clear, FinalSample
  <1>5. CASE ReadFails(w) BY <1>5 DEF ReadFails, Clear, progress
  <1>6. CASE Watchdog(w)
    <2>1. /\ samples' \in [Workers -> Nat] /\ incomplete' \in SUBSET Workers
          /\ \A x \in Workers : samples'[x] >= samples[x]
      <3>1. CASE UNCHANGED <<samples, incomplete>> BY <3>1
      <3>2. CASE markIncomplete(w)
        <4>1. incomplete' \in SUBSET Workers BY <3>2 DEF markIncomplete
        <4>2. samples' = [samples EXCEPT ![w] = IF bytes[w] > 0 THEN @ + 1 ELSE @]
          BY <3>2 DEF markIncomplete
        <4>. QED BY <4>1, <4>2
      <3>. QED BY <1>6, <3>1, <3>2 DEF Watchdog
    <2>2. TypeOK' BY <1>6, <2>1 DEF Watchdog, Leave
    <2>3. ~ Frozen BY <1>6 DEF Watchdog, Waiting
    <2>4. pc' = [pc EXCEPT ![w] = IF @ = "reading" THEN "draining" ELSE "settled"]
      BY <1>6 DEF Watchdog, Leave
    <2>5. ASSUME NEW x \in Workers
          PROVE  /\ pc'[x] = "fetching" => pc[x] = "fetching"
                 /\ pc'[x] = "settled" => pc[x] = "settled" \/ pc[x] = "fetching"
      <3>1. CASE x = w BY <1>6, <2>4, <3>1 DEF Watchdog, Waiting
      <3>2. CASE x # w BY <2>4, <3>2
      <3>. QED BY <3>1, <3>2
    <2>6. EndedIsSampled'
      <3>1. UNCHANGED <<bytes, ticked, parent, outcome>> BY <1>6 DEF Watchdog
      <3>. QED BY <2>1, <2>5, <3>1
    <2>7. EndStops' BY <1>6, <2>3 DEF Watchdog
    <2>. QED BY <2>2, <2>6, <2>7
  <1>7. CASE Drained(w) BY <1>7 DEF Drained, FinalSample
  <1>8. CASE SiblingStops(w) BY <1>8 DEF SiblingStops, Leave, Clear, Waiting, progress
  <1>. QED BY <1>1, <1>2, <1>3, <1>4, <1>5, <1>6, <1>7, <1>8

\* A tick is seen by workers that have not ended yet.
LEMMA ClockStep ==
  ASSUME DownloadIInv, ClockMoves
  PROVE  TypeOK' /\ EndStops' /\ EndedIsSampled'
  <1>1. /\ UNCHANGED <<browser, pc, progress, watchdog, parent, cutShort, outcome, result>>
        /\ ticked' \in SUBSET Workers
        /\ \A w \in ticked' : w \in ticked \/ pc[w] # "settled"
    BY DEF ClockMoves, DownloadIInv, TypeOK, Ended
  <1>. QED BY <1>1
    DEF DownloadIInv, TypeOK, EndStops, EndedIsSampled, AllSettled, Frozen, progress

\* Who is marked was cut short, and who is cut short is marked where it has to be.
LEMMA MarksStep ==
  ASSUME DownloadIInv, [Next]_vars
  PROVE  /\ OnlyCutShortIsIncomplete'
         /\ browser' = browser
         /\ browser = "ignores abort" => cutShort' \subseteq incomplete'
  <1>. USE DEF DownloadIInv, OnlyCutShortIsIncomplete, CutShortIsMarked
  <1>1. ASSUME NEW w \in Workers, Watchdog(w)
        PROVE  /\ incomplete' \subseteq cutShort' /\ browser' = browser
               /\ browser = "ignores abort" => cutShort' \subseteq incomplete'
    BY <1>1 DEF Watchdog, markIncomplete
  <1>2. ASSUME NEW w \in Workers,
               \/ FetchResolves(w) \/ FetchFails(w) \/ Chunk(w) \/ EndOfStream(w)
               \/ ReadFails(w) \/ Drained(w) \/ SiblingStops(w)
        PROVE  UNCHANGED <<browser, incomplete, cutShort>>
    BY <1>2 DEF FetchResolves, FetchFails, Chunk, EndOfStream, ReadFails, Drained,
                SiblingStops, progress
  <1>3. ASSUME ClockMoves \/ Cancel \/ Returns \/ Throws \/ AggregateTimeout \/ Done
                 \/ UNCHANGED vars
        PROVE  UNCHANGED <<browser, incomplete, cutShort>>
    BY <1>3 DEF ClockMoves, Cancel, Returns, Throws, AggregateTimeout, Done, vars, progress
  <1>. QED BY <1>1, <1>2, <1>3 DEF Next

\* What returns is what the streams have, and counts at least the marked.
LEMMA SnapshotCounts ==
  ASSUME DownloadIInv
  PROVE  /\ Snapshot.bytes = Total(bytes)
         /\ Snapshot.sampled = {w \in Workers : samples[w] > 0}
         /\ Snapshot.incomplete = Cardinality({w \in Workers : w \in incomplete \/ ~ Ended(w)})
         /\ Snapshot.incomplete \in 0..Cardinality(Workers)
         /\ browser = "ignores abort" => Cardinality(cutShort) <= Snapshot.incomplete
  <1>. DEFINE missed == {w \in Workers : w \in incomplete \/ ~ Ended(w)}
  <1>1. missed \in SUBSET Workers OBVIOUS
  <1>2. browser = "ignores abort" => cutShort \in SUBSET missed
    BY DEF DownloadIInv, CutShortIsMarked, TypeOK
  <1>3. Snapshot.incomplete = Cardinality(missed) BY DEF Snapshot
  <1>. HIDE DEF missed
  <1>4. Cardinality(missed) \in 0..Cardinality(Workers) BY <1>1, WorkersCount
  <1>5. browser = "ignores abort" => Cardinality(cutShort) <= Cardinality(missed)
    BY <1>1, <1>2, WorkersCount
  <1>6. /\ Snapshot.bytes = Total(bytes)
        /\ Snapshot.sampled = {w \in Workers : samples[w] > 0}
    BY DEF Snapshot
  <1>. QED BY <1>3, <1>4, <1>5, <1>6 DEF missed

\* The two ways to return.
LEMMA ReturnStep ==
  ASSUME DownloadIInv, Returns \/ AggregateTimeout
  PROVE  /\ TypeOK' /\ EndStops' /\ EndedIsSampled' /\ ResultStands'
         /\ browser = "ignores abort" => CutShortIsDisclosed'
  <1>1. /\ result' = Snapshot /\ outcome' = "returned"
        /\ UNCHANGED <<browser, progress, cutShort>>
    BY DEF Returns, AggregateTimeout
  <1>2. result'.sampled \in SUBSET Workers /\ result'.incomplete \in 0..Cardinality(Workers)
    BY <1>1, SnapshotCounts
  <1>3. ResultStands' BY <1>1, SnapshotCounts DEF ResultStands, progress
  <1>4. browser = "ignores abort" => CutShortIsDisclosed'
    BY <1>1, SnapshotCounts DEF CutShortIsDisclosed
  <1>5. CASE Returns
    BY <1>2, <1>3, <1>4, <1>5
       DEF Returns, DownloadIInv, TypeOK, EndStops, AllSettled, EndedIsSampled, Frozen, progress
  <1>6. CASE AggregateTimeout
    BY <1>2, <1>3, <1>4, <1>6
       DEF AggregateTimeout, AbortPhase, DownloadIInv, TypeOK, EndStops, EndedIsSampled, Frozen,
           progress
  <1>. QED BY <1>5, <1>6

LEMMA DownloadStep == DownloadIInv /\ [Next]_vars => DownloadIInv'
  <1>. SUFFICES ASSUME DownloadIInv, [Next]_vars PROVE DownloadIInv' OBVIOUS
  <1>1. OnlyCutShortIsIncomplete' /\ browser' = browser
        /\ (browser = "ignores abort" => cutShort' \subseteq incomplete')
    BY MarksStep
  <1>2. TypeOK' /\ EndStops' /\ EndedIsSampled'
    <2>1. CASE Cancel \/ Throws
      BY <2>1 DEF Cancel, Throws, AbortPhase, DownloadIInv, TypeOK, EndStops, EndedIsSampled,
                  AllSettled, Frozen, progress
    <2>2. CASE Done \/ UNCHANGED vars
      BY <2>2 DEF Done, vars, DownloadIInv, TypeOK, EndStops, EndedIsSampled, AllSettled, Frozen
    <2>. QED BY <2>1, <2>2, WorkerStep, ClockStep, ReturnStep DEF Next
  <1>3. ResultStands' /\ (browser = "ignores abort" => CutShortIsDisclosed')
    <2>1. CASE Frozen
      BY <2>1, FrozenStep
         DEF DownloadIInv, ResultStands, CutShortIsMarked, CutShortIsDisclosed, progress
    <2>2. CASE ~ Frozen /\ (Returns \/ AggregateTimeout) BY <2>2, ReturnStep
    <2>3. CASE ~ Frozen /\ ~ (Returns \/ AggregateTimeout)
      <3>1. outcome' # "returned"
        BY <2>3 DEF Next, Frozen, FetchResolves, FetchFails, Chunk, EndOfStream, ReadFails,
                    Watchdog, Drained, SiblingStops, ClockMoves, Cancel, Throws, Done, vars
      <3>. QED BY <3>1 DEF ResultStands, CutShortIsDisclosed
    <2>. QED BY <2>1, <2>2, <2>3
  <1>. QED BY <1>1, <1>2, <1>3 DEF DownloadIInv, CutShortIsMarked

\* A phase that nobody has stopped discloses the streams whose bytes no sample stands for, if
\* the clock moved for them.
LEMMA ReturnsRepresented ==
  ASSUME DownloadIInv, [Next]_vars, outcome = "running", outcome' = "returned", ~ parent
  PROVE  Cardinality({w \in ticked : bytes[w] > 0} \ result'.sampled) <= result'.incomplete
  <1>. DEFINE unsampled == {w \in ticked : bytes[w] > 0 /\ ~ samples[w] > 0}
              missed == {w \in Workers : w \in incomplete \/ ~ Ended(w)}
  <1>1. Returns \/ AggregateTimeout
    BY DEF Next, FetchResolves, FetchFails, Chunk, EndOfStream, ReadFails,
           Watchdog, Drained, SiblingStops, ClockMoves, Cancel, Throws, Done, vars, Frozen
  <1>2. result' = Snapshot BY <1>1 DEF Returns, AggregateTimeout
  <1>3. unsampled \in SUBSET missed
    <2>. ticked \subseteq Workers BY DEF DownloadIInv, TypeOK
    <2>1. ASSUME NEW w \in unsampled PROVE ~ Ended(w)
      <3>1. pc[w] # "settled" BY DEF DownloadIInv, EndedIsSampled, Frozen
      <3>2. pc[w] # "failed"
        BY <1>1 DEF Returns, AggregateTimeout, Settled, AllSettled, SomeFailed
      <3>. QED BY <3>1, <3>2 DEF Ended
    <2>. QED BY <2>1
  <1>4. {w \in ticked : bytes[w] > 0} \ result'.sampled = unsampled
    BY <1>2, SnapshotCounts DEF DownloadIInv, TypeOK
  <1>5. result'.incomplete = Cardinality(missed) BY <1>2, SnapshotCounts
  <1>6. missed \in SUBSET Workers OBVIOUS
  <1>. HIDE DEF unsampled, missed
  <1>. QED BY <1>3, <1>4, <1>5, <1>6, WorkersCount
-----------------------------------------------------------------------------
(* upload()                                                                *)

\* Who has ended with acknowledged bytes has a sample, if the clock moved for it.
AckedIsSampled ==
  \A w \in timed : posting[w] = "ended" /\ acked[w] > 0 => ackSamples[w] > 0

\* A call returns when all workers have ended.
UploadIInv ==
  /\ UploadInv /\ AckedIsSampled
  /\ uploaded = "returned" => Upload!AllEnded

LEMMA InitUpload == Upload!Init => UploadIInv
  <1>. SUFFICES ASSUME Upload!Init PROVE UploadIInv OBVIOUS
  <1>1. uploadPart.sampled = {} BY DEF Upload!Init, Upload!Empty
  <1>2. 1 \in 1..MaxRequests
    <2>1. MaxRequests \in Nat \ {0} BY TransportAssumption
    <2>. QED BY <2>1
  <1>3. requests \in [Workers -> 1..MaxRequests] BY <1>2 DEF Upload!Init
  <1>4. Upload!TypeOK BY <1>1, <1>3 DEF Upload!Init, Upload!TypeOK
  <1>. QED BY <1>4 DEF Upload!Init, UploadIInv, AckedIsSampled, UploadInv, Upload!UploadPhaseInv,
         Upload!ResultIsComplete, Upload!AcknowledgedIsSampled

\* A call that has returned acknowledges nothing more.
LEMMA ReturnedStep ==
  ASSUME UploadIInv, uploaded = "returned", [Upload!Next]_uploadVars
  PROVE  UNCHANGED <<acked, timed, uploaded, uploadPart>>
  BY DEF UploadIInv, Upload!AllEnded, Upload!Next, Upload!ClockMoves, Upload!Responds, Upload!Acknowledged,
         Upload!Fails, Upload!TimesOut, Upload!Abort, Upload!Returns, Upload!Throws,
         Upload!Done, Upload!Busy, uploadVars, Upload!vars

\* The steps of the workers and of the clock.
LEMMA UploadWorkerStep ==
  ASSUME UploadIInv, [Upload!Next]_uploadVars
  PROVE  Upload!TypeOK' /\ AckedIsSampled' /\ (uploaded' = "returned" => Upload!AllEnded')
  <1>. DEFINE Goal ==
         Upload!TypeOK' /\ AckedIsSampled' /\ (uploaded' = "returned" => Upload!AllEnded')
  <1>. USE DEF UploadIInv, UploadInv, Upload!UploadPhaseInv, Upload!TypeOK, Upload!AllEnded,
               AckedIsSampled
  <1>1. ASSUME NEW w \in Workers, Upload!Responds(w) \/ Upload!Fails(w) PROVE Goal
    BY <1>1 DEF Upload!Responds, Upload!Fails, Upload!Busy, Upload!counts
  <1>2. ASSUME NEW w \in Workers, Upload!Acknowledged(w) PROVE Goal
    <2>1. MaxRequests \in Nat BY TransportAssumption
    <2>. QED BY <1>2, <2>1 DEF Upload!Acknowledged, Upload!OneSample
  <1>3. ASSUME NEW w \in Workers, Upload!TimesOut(w) PROVE Goal
    BY <1>3 DEF Upload!TimesOut, Upload!Stop, Upload!OneSample, Upload!Busy
  <1>4. CASE Upload!Abort
    BY <1>4 DEF Upload!Abort, Upload!Stop, Upload!OneSample, Upload!Busy
  <1>5. CASE Upload!Returns
    <2>1. uploadPart'.sampled \in SUBSET Workers BY <1>5 DEF Upload!Returns
    <2>. QED BY <1>5, <2>1 DEF Upload!Returns, Upload!counts
  <1>6. CASE Upload!ClockMoves
    BY <1>6 DEF Upload!ClockMoves, Upload!Busy, Upload!counts
  <1>7. CASE Upload!Throws \/ Upload!Done \/ UNCHANGED uploadVars
    BY <1>7 DEF Upload!Throws, Upload!Done, Upload!counts, Upload!vars, uploadVars
  <1>. QED BY <1>1, <1>2, <1>3, <1>4, <1>5, <1>6, <1>7 DEF Upload!Next

LEMMA UploadStep == UploadIInv /\ [Upload!Next]_uploadVars => UploadIInv'
  <1>. SUFFICES ASSUME UploadIInv, [Upload!Next]_uploadVars PROVE UploadIInv' OBVIOUS
  <1>1. Upload!ResultIsComplete' /\ Upload!AcknowledgedIsSampled'
    <2>. USE DEF UploadIInv, UploadInv, Upload!UploadPhaseInv, Upload!ResultIsComplete,
                 Upload!AcknowledgedIsSampled
    <2>1. CASE uploaded = "returned" BY <2>1, ReturnedStep
    <2>2. CASE Upload!Returns
      <3>1. /\ uploadPart'.acked = Upload!Total(acked)
            /\ uploadPart'.sampled = {w \in Workers : ackSamples[w] > 0}
            /\ acked' = acked
        BY <2>2 DEF Upload!Returns, Upload!counts
      <3>2. /\ timed' = timed /\ timed \subseteq Workers
            /\ \A w \in Workers : posting[w] = "ended"
        BY <2>2 DEF Upload!Returns, Upload!AllEnded, Upload!TypeOK
      <3>. QED BY <3>1, <3>2 DEF AckedIsSampled
    <2>3. CASE uploaded # "returned" /\ ~ Upload!Returns
      <3>1. uploaded' # "returned"
        BY <2>3 DEF Upload!Next, Upload!ClockMoves, Upload!Responds, Upload!Acknowledged, Upload!Fails,
                    Upload!TimesOut, Upload!Abort, Upload!Throws, Upload!Done, Upload!vars,
                    uploadVars
      <3>. QED BY <3>1
    <2>. QED BY <2>1, <2>2, <2>3
  <1>. QED BY <1>1, UploadWorkerStep DEF UploadIInv, UploadInv, Upload!UploadPhaseInv
-----------------------------------------------------------------------------
(* The theorems.                                                           *)

\* A step of the call is a step of its method, and leaves the other one alone.
LEMMA CallStep ==
  [CallNext]_callVars => [Next]_vars /\ [Upload!Next]_uploadVars
  BY DEF CallNext, callVars

\* The inductive invariant of a call, whichever it is.
THEOREM CallInductive == CallSpec => [](DownloadIInv /\ UploadIInv)
  <1>1. CallInit => DownloadIInv /\ UploadIInv BY InitDownload, InitUpload DEF CallInit
  <1>2. DownloadIInv /\ UploadIInv /\ [CallNext]_callVars => (DownloadIInv /\ UploadIInv)'
    BY CallStep, DownloadStep, UploadStep
  <1>. QED BY <1>1, <1>2, PTL DEF CallSpec

\* However many streams fail, hang or end early, none is called incomplete without cause, a
\* browser that ignores an abort discloses every one that was cut short, and a result stands.
THEOREM DownloadAlwaysHonest == CallSpec => []DownloadInv
  <1>1. DownloadIInv => DownloadInv
    BY DEF DownloadIInv, CutShortIsMarked, DownloadInv, IgnoredAbortIsDisclosed
  <1>. QED BY <1>1, CallInductive, PTL

\* However late a chunk arrives, it does not change what a call has measured.
THEOREM FrozenAlwaysFinal == CallSpec => FrozenIsFinal
  <1>1. DownloadIInv /\ [CallNext]_callVars => [Frozen => UNCHANGED progress]_vars
    BY CallStep, FrozenStep
  <1>. QED BY <1>1, CallInductive, PTL DEF CallSpec, FrozenIsFinal

\* A call that failed has no stream left that runs into its watchdog.
THEOREM FailureAlwaysStopsSiblings == CallSpec => FailureStopsSiblings
  <1>1. DownloadIInv /\ [CallNext]_callVars => [outcome = "thrown" => UNCHANGED cutShort]_vars
    BY CallStep, FrozenStep DEF Frozen
  <1>. QED BY <1>1, CallInductive, PTL DEF CallSpec, FailureStopsSiblings

\* With any number of streams, no more have bytes, took time and got no sample than are
\* disclosed.
THEOREM BytesAlwaysRepresented == CallSpec => BytesAreRepresented
  <1>1. DownloadIInv /\ [CallNext]_callVars
          => [outcome = "running" /\ outcome' = "returned" /\ ~ parent
                => Cardinality({w \in ticked : bytes[w] > 0} \ result'.sampled)
                     <= result'.incomplete]_vars
    BY CallStep, ReturnsRepresented
  <1>. QED BY <1>1, CallInductive, PTL DEF CallSpec, BytesAreRepresented

\* What upload() returns is all that was acknowledged, and has a sample for every worker that
\* has any of it and took any time.
THEOREM UploadAlwaysComplete == CallSpec => []UploadInv
  <1>1. UploadIInv => UploadInv BY DEF UploadIInv
  <1>. QED BY <1>1, CallInductive, PTL
=============================================================================
