------------------------- MODULE StabilityTabProofs -------------------------
(***************************************************************************)
(* Proofs about StabilityTab, for every number of hides, losses, pings,    *)
(* samples and clicks: every safety invariant of the monitor and of the    *)
(* page around it.  The monitor's invariant knows nothing of the page; the *)
(* page's needs that a stopped monitor takes no sample.                    *)
(***************************************************************************)
EXTENDS StabilityTab, TLAPS

-----------------------------------------------------------------------------
(* The monitor.                                                            *)

\* A connection that is being opened has not been pinged.
FreshIsUnpinged == ws = "connecting" => pings = 0

\* Before it is ever hidden, a monitor on a page that was not shown yet has done nothing, and
\* the interval it can clear is that of an open connection.
NeverHidden ==
  hides = 0 =>
    /\ ~ visible => ws = "none" /\ former = 0 /\ reconnects = 0
    /\ timer => ws = "open"

\* The parts of TypeOK: what is counted or named, and what is true or false.
Counts ==
  /\ ws \in {"none", "connecting", "open", "closing", "closed"}
  /\ former \in Nat /\ reconnects \in Nat
  /\ leaked \in 0..MaxPings /\ pings \in 0..MaxPings
  /\ hides \in 0..Hides /\ losses \in 0..Losses

Flags == visible \in BOOLEAN /\ stopped \in BOOLEAN /\ timer \in BOOLEAN

Behaves ==
  /\ Counts
  /\ SilentWhenHidden /\ NeverAbandoned
  /\ FreshIsUnpinged /\ NeverHidden /\ OneAttempt

MonitorIInv == Flags /\ Behaves

LEMMA InitMonitor == TabInit => MonitorIInv
  <1>. SUFFICES ASSUME TabInit PROVE MonitorIInv OBVIOUS
  <1>1. Flags BY Zenon DEF TabInit, Flags
  <1>2. Behaves
    BY MonitorAssumption
      DEF TabInit, Behaves, Counts, SilentWhenHidden, NeverAbandoned, FreshIsUnpinged,
          NeverHidden, OneAttempt, Live
  <1>. QED BY <1>1, <1>2 DEF MonitorIInv

\* The flags are set to constants or kept.
LEMMA FlagsKept ==
  ASSUME Flags,
         Hide \/ Show \/ Stop \/ start \/ Opens \/ Tick \/ Answer \/ Lost \/ Closed
           \/ FormerClosed \/ Reconnect
  PROVE  Flags'
  <1>1. /\ visible' = visible \/ visible' = TRUE \/ visible' = FALSE
        /\ stopped' = stopped \/ stopped' = TRUE \/ stopped' = FALSE
        /\ timer' = timer \/ timer' = TRUE \/ timer' = FALSE
    BY Zenon DEF Hide, Show, Stop, start, Opens, Tick, Answer, Lost, Closed, FormerClosed,
                 Reconnect, clear, onclose, budgets
  <1>. QED BY <1>1, Zenon DEF Flags

\* The page is hidden or shown, the monitor told to stop, or a new one started.
LEMMA PageStepBehaves ==
  ASSUME Behaves, Hide \/ Show \/ Stop \/ start
  PROVE  Behaves'
  <1>. USE MonitorAssumption
       DEF Behaves, Counts, SilentWhenHidden, NeverAbandoned, FreshIsUnpinged, NeverHidden,
           OneAttempt, Live, budgets
  <1>1. CASE Hide BY <1>1 DEF Hide, clear, closeSocket
  <1>2. CASE Show BY <1>2 DEF Show, connect
  <1>3. CASE Stop BY <1>3 DEF Stop, clear, closeSocket
  <1>4. CASE start BY <1>4 DEF start
  <1>. QED BY <1>1, <1>2, <1>3, <1>4

\* An event of a socket, or a timer.
LEMMA SocketStepBehaves ==
  ASSUME Behaves, Opens \/ Tick \/ Answer \/ Lost \/ Closed \/ FormerClosed \/ Reconnect
  PROVE  Behaves'
  <1>. USE MonitorAssumption
       DEF Behaves, Counts, SilentWhenHidden, NeverAbandoned, FreshIsUnpinged, NeverHidden,
           OneAttempt, Live, budgets
  <1>1. CASE Opens BY <1>1 DEF Opens, tick
  <1>2. CASE Tick BY <1>2 DEF Tick, tick
  <1>3. CASE Answer BY <1>3 DEF Answer
  <1>4. CASE Lost BY <1>4 DEF Lost, onclose, clear
  <1>5. CASE Closed BY <1>5 DEF Closed, onclose, clear
  <1>6. CASE FormerClosed BY <1>6 DEF FormerClosed, onclose, clear
  <1>7. CASE Reconnect BY <1>7 DEF Reconnect, connect
  <1>. QED BY <1>1, <1>2, <1>3, <1>4, <1>5, <1>6, <1>7

\* What the monitor sees of any step of the page.
LEMMA TabStepsMonitor ==
  ASSUME [TabNext]_tabVars
  PROVE  \/ Hide \/ Show \/ Stop \/ start \/ Opens \/ Tick \/ Answer \/ Lost \/ Closed
         \/ FormerClosed \/ Reconnect \/ UNCHANGED vars
  <1>1. CASE Watch \/ Sample BY <1>1 DEF Watch, Sample
  <1>2. CASE Start \/ StopButton \/ \E x \in Tabs : Leave(x)
    BY <1>2 DEF Start, startMonitoring, StopButton, Leave, stopMonitoring
  <1>3. CASE Enter \/ Measure \/ MeasureEnds \/ Hydrated \/ \E s \in saving : Saved(s)
    BY <1>3 DEF Enter, Measure, MeasureEnds, Hydrated, Saved
  <1>4. CASE UNCHANGED tabVars BY <1>4 DEF tabVars
  <1>. QED BY <1>1, <1>2, <1>3, <1>4 DEF TabNext

LEMMA MonitorStep == MonitorIInv /\ [TabNext]_tabVars => MonitorIInv'
  <1>. SUFFICES ASSUME MonitorIInv, [TabNext]_tabVars PROVE MonitorIInv' OBVIOUS
  <1>1. CASE UNCHANGED vars
    BY <1>1 DEF vars, MonitorIInv, Flags, Behaves, Counts, SilentWhenHidden, NeverAbandoned,
                FreshIsUnpinged, NeverHidden, OneAttempt, Live
  <1>2. CASE ~ UNCHANGED vars
    BY <1>2, TabStepsMonitor, FlagsKept, PageStepBehaves, SocketStepBehaves DEF MonitorIInv
  <1>. QED BY <1>1, <1>2

-----------------------------------------------------------------------------
(* The page.                                                               *)

Saves == UNION {s.samples : s \in saving \cup stored}

\* Every Session is one that can be stored, and every call of the page was counted.
StoreTyped ==
  /\ shown \subseteq 0..Samples /\ taken \in 0..Samples
  /\ clicks \in 0..Clicks /\ loads \in Nat /\ loads <= clicks + 1
  /\ saving \subseteq Sessions /\ stored \subseteq Sessions

PageFlags ==
  /\ tab \in Tabs
  /\ monitoring \in BOOLEAN /\ measuring \in BOOLEAN /\ spoilt \in BOOLEAN
  /\ MonitorExcludesMeasurement

\* A monitor that is stopped has left nothing unsaved.
Kept ==
  spoilt \/ /\ 1..taken \subseteq shown \cup Saves
            /\ monitoring \/ 1..taken \subseteq Saves

LEMMA InitPage == TabInit => StoreTyped /\ PageFlags /\ Kept
  <1>. SUFFICES ASSUME TabInit PROVE StoreTyped /\ PageFlags /\ Kept OBVIOUS
  <1>1. StoreTyped BY TabAssumption DEF TabInit, StoreTyped, Sessions
  <1>2. PageFlags
    <2>1. tab \in Tabs BY DEF TabInit, Tabs
    <2>. QED BY <2>1, Zenon DEF TabInit, PageFlags, MonitorExcludesMeasurement
  <1>3. Kept
    <2>1. 1..taken = {} BY DEF TabInit
    <2>. QED BY <2>1 DEF Kept
  <1>. QED BY <1>1, <1>2, <1>3

LEMMA StoreKept == StoreTyped /\ [TabNext]_tabVars => StoreTyped'
  <1>. SUFFICES ASSUME StoreTyped, [TabNext]_tabVars PROVE StoreTyped' OBVIOUS
  <1>. USE TabAssumption DEF StoreTyped
  <1>1. CASE Watch \/ UNCHANGED tabVars BY <1>1 DEF Watch, page, tabVars
  <1>2. CASE Sample BY <1>2 DEF Sample
  <1>3. CASE Start BY <1>3 DEF Start, Click
  <1>4. ASSUME NEW x \in Tabs, StopButton \/ Leave(x) PROVE StoreTyped'
    <2>1. clicks' \in 0..Clicks /\ clicks' = clicks + 1
          /\ UNCHANGED <<shown, taken, loads, stored>>
      BY <1>4 DEF StopButton, Leave, Click
    <2>2. Session \in Sessions BY <2>1 DEF Session, Sessions
    <2>3. saving' \subseteq saving \cup {Session}
      BY <1>4 DEF StopButton, Leave, stopMonitoring
    <2>. QED BY <2>1, <2>2, <2>3
  <1>5. CASE Enter BY <1>5 DEF Enter, Click
  <1>6. CASE Measure BY <1>6 DEF Measure, Click
  <1>7. CASE MeasureEnds BY <1>7 DEF MeasureEnds
  <1>8. CASE Hydrated
    <2>1. loads' \in Nat /\ loads' <= clicks' + 1 /\ UNCHANGED <<taken, saving, stored, clicks>>
      BY <1>8 DEF Hydrated
    <2>2. shown' = shown \/ \E s \in stored : shown' = s.samples BY <1>8 DEF Hydrated
    <2>3. \A s \in stored : s.samples \subseteq 0..Samples BY DEF Sessions
    <2>. QED BY <2>1, <2>2, <2>3
  <1>9. ASSUME NEW s \in saving, Saved(s) PROVE StoreTyped'
    BY <1>9 DEF Saved
  <1>. QED BY <1>1, <1>2, <1>3, <1>4, <1>5, <1>6, <1>7, <1>8, <1>9 DEF TabNext, Tabs

LEMMA FlagsOfPageKept == PageFlags /\ [TabNext]_tabVars => PageFlags'
  <1>. SUFFICES ASSUME PageFlags, [TabNext]_tabVars PROVE PageFlags' OBVIOUS
  <1>. USE DEF PageFlags, MonitorExcludesMeasurement
  <1>1. CASE Watch \/ Sample
    <2>1. stopped' = stopped
      BY <1>1 DEF Watch, Sample, Hide, Show, Opens, Tick, Answer, Lost, Closed, FormerClosed,
                  Reconnect
    <2>2. UNCHANGED <<tab, monitoring, measuring, spoilt>> BY <1>1 DEF Watch, Sample, page
    <2>. QED BY <2>1, <2>2, Zenon
  <1>2. CASE Start
    <2>1. stopped' = FALSE /\ monitoring' = TRUE /\ ~ measuring /\ tab = "stability"
          /\ UNCHANGED <<tab, measuring, spoilt>>
      BY <1>2 DEF Start, startMonitoring, start
    <2>. QED BY <2>1, Zenon
  <1>3. ASSUME NEW x \in Tabs, StopButton \/ Leave(x) PROVE PageFlags'
    <2>1. stopped' = TRUE
      <3>1. CASE stopped
        BY <1>3, <3>1, Zenon DEF StopButton, Leave, stopMonitoring, vars
      <3>2. CASE ~ stopped
        BY <1>3, <3>2, Zenon DEF StopButton, Leave, stopMonitoring, Stop
      <3>. QED BY <3>1, <3>2
    <2>2. monitoring' = FALSE /\ UNCHANGED <<measuring, spoilt>> /\ (tab' = tab \/ tab' = x)
      BY <1>3 DEF StopButton, Leave, stopMonitoring
    <2>. QED BY <2>1, <2>2, Zenon
  <1>4. CASE Enter
    <2>1. tab' = "stability" /\ UNCHANGED <<stopped, monitoring, measuring, spoilt>>
      BY <1>4 DEF Enter, vars
    <2>2. tab' \in Tabs BY <2>1 DEF Tabs
    <2>. QED BY <2>1, <2>2, Zenon
  <1>5. CASE Measure
    <2>1. measuring' = TRUE /\ ~ monitoring /\ UNCHANGED <<tab, stopped, monitoring, spoilt>>
      BY <1>5 DEF Measure, vars
    <2>. QED BY <2>1, Zenon
  <1>6. CASE MeasureEnds
    <2>1. measuring' = FALSE /\ UNCHANGED <<tab, stopped, monitoring, spoilt>>
      BY <1>6 DEF MeasureEnds, vars
    <2>. QED BY <2>1, Zenon
  <1>7. ASSUME Hydrated \/ \E s \in saving : Saved(s) PROVE PageFlags'
    <2>1. UNCHANGED <<tab, stopped, monitoring, measuring>>
      BY <1>7 DEF Hydrated, Saved, vars
    <2>2. spoilt' \in BOOLEAN
      <3>1. CASE Hydrated BY <3>1, Zenon DEF Hydrated
      <3>2. CASE \E s \in saving : Saved(s) BY <3>2, Zenon DEF Saved
      <3>. QED BY <1>7, <3>1, <3>2
    <2>. QED BY <2>1, <2>2, Zenon
  <1>8. CASE UNCHANGED tabVars BY <1>8 DEF tabVars, vars, page
  <1>. QED BY <1>1, <1>2, <1>3, <1>4, <1>5, <1>6, <1>7, <1>8 DEF TabNext, Tabs

LEMMA SamplesKept ==
  ASSUME MonitorIInv, PageFlags, StoreTyped, Kept, [TabNext]_tabVars
  PROVE  Kept'
  <1>. SUFFICES ASSUME ~ spoilt' PROVE Kept' BY DEF Kept
  <1>1. ~ spoilt
    BY DEF TabNext, Watch, Sample, Start, StopButton, Leave, Enter, Measure, MeasureEnds,
           Hydrated, Saved, page, tabVars
  <1>2. 1..taken \subseteq shown \cup Saves /\ (monitoring \/ 1..taken \subseteq Saves)
    BY <1>1 DEF Kept
  <1>3. CASE UNCHANGED <<shown, taken, saving, stored, monitoring>>
    BY <1>2, <1>3 DEF Kept, Saves
  <1>4. CASE Sample
    <2>1. monitoring
      BY <1>4 DEF Sample, Answer, MonitorIInv, Behaves, SilentWhenHidden, Live, PageFlags,
                  MonitorExcludesMeasurement
    <2>2. /\ taken \in Nat /\ taken' \in {taken, taken + 1}
          /\ shown' = shown \cup {taken'} /\ UNCHANGED <<saving, stored, monitoring>>
      BY <1>4 DEF Sample, StoreTyped
    <2>3. 1..taken' \subseteq 1..taken \cup {taken'} BY <2>2
    <2>. QED BY <1>2, <2>1, <2>2, <2>3 DEF Kept, Saves
  <1>5. ASSUME NEW x \in Tabs, StopButton \/ Leave(x) PROVE Kept'
    <2>1. UNCHANGED <<shown, taken, stored>> BY <1>5 DEF StopButton, Leave
    <2>2. saving \subseteq saving' /\ (monitoring => Session \in saving')
      BY <1>5 DEF StopButton, Leave, stopMonitoring
    <2>3. Saves \subseteq Saves' BY <2>1, <2>2 DEF Saves
    <2>4. monitoring => shown \subseteq Saves'
      <3>1. Session.samples = shown BY DEF Session
      <3>. QED BY <2>2, <3>1 DEF Saves
    <2>5. 1..taken \subseteq Saves' BY <1>2, <2>3, <2>4
    <2>. QED BY <2>1, <2>5 DEF Kept
  <1>6. CASE Start
    <2>1. UNCHANGED <<shown, taken, saving, stored>> BY <1>6 DEF Start
    <2>2. monitoring' = TRUE BY <1>6 DEF Start, startMonitoring
    <2>. QED BY <1>2, <2>1, <2>2 DEF Kept, Saves
  <1>7. CASE Hydrated
    <2>1. UNCHANGED <<taken, saving, stored, monitoring>> BY <1>7 DEF Hydrated
    <2>2. Saves' = Saves BY <2>1 DEF Saves
    <2>3. CASE shown' = shown BY <1>2, <2>1, <2>2, <2>3 DEF Kept
    <2>4. ASSUME NEW s \in stored, shown' = s.samples,
                 spoilt' = (spoilt \/ (monitoring /\ ~ shown \subseteq s.samples))
          PROVE  Kept'
      <3>1. monitoring => shown \subseteq shown' BY <2>4
      <3>2. 1..taken \subseteq shown' \cup Saves BY <1>2, <3>1
      <3>. QED BY <1>2, <2>1, <2>2, <3>2 DEF Kept
    <2>. QED BY <1>7, <2>3, <2>4 DEF Hydrated
  <1>8. ASSUME NEW s \in saving, Saved(s) PROVE Kept'
    <2>1. stored' = stored \cup {s} /\ saving' = saving \ {s}
          /\ UNCHANGED <<shown, taken, monitoring>>
      BY <1>1, <1>8 DEF Saved
    <2>2. saving' \cup stored' = saving \cup stored BY <2>1
    <2>. QED BY <1>2, <2>1, <2>2 DEF Kept, Saves
  <1>9. \/ Sample \/ Start \/ StopButton \/ (\E x \in Tabs : Leave(x)) \/ Hydrated
        \/ (\E s \in saving : Saved(s))
        \/ UNCHANGED <<shown, taken, saving, stored, monitoring>>
    BY DEF TabNext, Watch, Enter, Measure, MeasureEnds, page, tabVars
  <1>. QED BY <1>3, <1>4, <1>5, <1>6, <1>7, <1>8, <1>9 DEF Tabs

-----------------------------------------------------------------------------
(* The theorems.                                                           *)

TabIInv == MonitorIInv /\ StoreTyped /\ PageFlags /\ Kept

\* The monitor's invariant and the page's are preserved by every step of either.
THEOREM TabInductive == TabSpec => []TabIInv
  <1>1. TabInit => TabIInv BY InitMonitor, InitPage DEF TabIInv
  <1>2. TabIInv /\ [TabNext]_tabVars => TabIInv'
    BY MonitorStep, StoreKept, FlagsOfPageKept, SamplesKept DEF TabIInv
  <1>. QED BY <1>1, <1>2, PTL DEF TabSpec

\* However often a monitor is started, hidden, shown, lost and stopped, hidden means silent,
\* and one that should measure and does not has its next attempt in sight.
THEOREM MonitorAlwaysBehaves == TabSpec => []MonitorInv
  <1>1. TabIInv => MonitorInv
    BY Zenon DEF TabIInv, MonitorIInv, Flags, Behaves, Counts, MonitorInv, TypeOK
  <1>. QED BY <1>1, TabInductive, PTL

\* A monitor that is never hidden makes one attempt at a time, however many are lost.
THEOREM AlwaysOneAttempt == TabSpec => []OneAttempt
  <1>1. TabIInv => OneAttempt BY DEF TabIInv, MonitorIInv, Behaves
  <1>. QED BY <1>1, TabInductive, PTL

\* No order of clicks lets a monitor and a measurement run beside each other.
THEOREM TabAlwaysExcludes == TabSpec => []TabInv
  <1>1. TabIInv => TabInv
    <2>. SUFFICES ASSUME TabIInv PROVE TabInv OBVIOUS
    <2>1. loads \in 0..Clicks + 1 BY TabAssumption DEF TabIInv, StoreTyped
    <2>. QED BY <2>1, Zenon
      DEF TabIInv, StoreTyped, PageFlags, MonitorExcludesMeasurement, TabInv, TabTypeOK
  <1>. QED BY <1>1, TabInductive, PTL

\* Samples are lost to a failing save or a stored session in their place, and in no other way.
THEOREM SamplesAlwaysSurvive == TabSpec => []SamplesSurvive
  <1>1. TabIInv => SamplesSurvive BY DEF TabIInv, Kept, SamplesSurvive, Saves
  <1>. QED BY <1>1, TabInductive, PTL

=============================================================================
