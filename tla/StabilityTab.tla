---------------------------- MODULE StabilityTab ----------------------------
(***************************************************************************)
(* The page around the stability monitor (web/src/app/App.tsx): the tabs,  *)
(* the buttons that start and stop a monitor, the measurement it must not  *)
(* overlap with, the samples on display, the session that is saved when a  *)
(* monitor stops and the stored session that is loaded whenever the tab is *)
(* opened, each an asynchronous call.                                      *)
(*                                                                         *)
(* Every start makes a new StabilityMonitor; the one before it is stopped, *)
(* so that the variables of the monitor describe the latest one.  Samples  *)
(* are numbered, 0 is the sample of an earlier visit; pauses are left out, *)
(* they are kept, saved and loaded with the samples.                       *)
(***************************************************************************)
EXTENDS StabilityMonitor, FiniteSets

CONSTANTS
  Samples,   \* a bound: samples told apart
  Clicks     \* a bound: clicks on the tabs and buttons

ASSUME TabAssumption == Samples \in Nat \ {0} /\ Clicks \in Nat

VARIABLES
  tab,         \* the tab shown
  monitoring,  \* the page's state of that name
  measuring,   \* whether runCtl.current is set
  shown,       \* samples on display
  taken,       \* history: samples taken
  loads,       \* calls of hydrateStability() under way
  saving,      \* sessions on their way to the store
  stored,      \* sessions stored
  clicks,      \* clicks so far
  spoilt       \* history: a stored session replaced live samples, or was not saved

page == <<tab, monitoring, measuring, shown, taken, loads, saving, stored, clicks, spoilt>>
tabVars == <<vars, page>>

Tabs == {"speed", "stability", "history"}
Sessions == [at : 0..Clicks, samples : SUBSET (0..Samples)]

TabTypeOK ==
  /\ tab \in Tabs
  /\ monitoring \in BOOLEAN /\ measuring \in BOOLEAN /\ spoilt \in BOOLEAN
  /\ shown \subseteq 0..Samples /\ taken \in 0..Samples
  /\ loads \in 0..Clicks + 1 /\ clicks \in 0..Clicks
  /\ saving \subseteq Sessions /\ stored \subseteq Sessions

\* The page has been opened, and loads what an earlier visit may have stored.
TabInit ==
  /\ visible \in BOOLEAN /\ stopped = TRUE /\ ws = "none"
  /\ former = 0 /\ timer = FALSE /\ leaked = 0 /\ reconnects = 0 /\ pings = 0
  /\ hides = 0 /\ losses = 0
  /\ tab = "speed" /\ monitoring = FALSE /\ measuring = FALSE
  /\ shown = {} /\ taken = 0 /\ loads = 1
  /\ saving = {} /\ stored \in {{}, {[at |-> 0, samples |-> {0}]}}
  /\ clicks = 0 /\ spoilt = FALSE
-----------------------------------------------------------------------------
(* The monitor, while the page looks on                                    *)

Watch ==
  /\ Hide \/ Show \/ Opens \/ Tick \/ Lost \/ Closed \/ FormerClosed \/ Reconnect
  /\ UNCHANGED page

\* onSample: beyond the bound, the last sample stands for all that follow.
Sample ==
  /\ Answer
  /\ taken' = IF taken < Samples THEN taken + 1 ELSE taken
  /\ shown' = shown \cup {taken'}
  /\ UNCHANGED <<tab, monitoring, measuring, loads, saving, stored, clicks, spoilt>>
-----------------------------------------------------------------------------
(* The handlers of the page                                                *)

Click == clicks < Clicks /\ clicks' = clicks + 1

\* The session that a stop saves.
Session == [at |-> clicks', samples |-> shown]

\* Fault: monitor.current is asked, which has just been cleared.
stopUnsaved ==
  /\ IF stopped THEN UNCHANGED vars ELSE Stop
  /\ UNCHANGED saving
  /\ monitoring' = FALSE

stopMonitoring ==
  /\ IF stopped THEN UNCHANGED vars ELSE Stop
  /\ saving' = IF monitoring THEN saving \cup {Session} ELSE saving
  /\ monitoring' = FALSE

\* Fault: a measurement under way is not noticed.
startUnasked ==
  /\ start
  /\ monitoring' = TRUE

\* Nothing happens while a measurement is under way.
startMonitoring ==
  /\ ~ measuring
  /\ start
  /\ monitoring' = TRUE

Start ==
  /\ tab = "stability" /\ ~ monitoring /\ Click
  /\ startMonitoring
  /\ UNCHANGED <<tab, measuring, shown, taken, loads, saving, stored, spoilt>>

StopButton ==
  /\ tab = "stability" /\ monitoring /\ Click
  /\ stopMonitoring
  /\ UNCHANGED <<tab, measuring, shown, taken, loads, stored, spoilt>>

\* A tab is clicked, perhaps the one that is open.
Leave(x) ==
  /\ x # "stability" /\ Click
  /\ stopMonitoring
  /\ tab' = x
  /\ UNCHANGED <<measuring, shown, taken, loads, stored, spoilt>>

Enter ==
  /\ Click
  /\ tab' = "stability" /\ loads' = loads + 1
  /\ UNCHANGED <<vars, monitoring, measuring, shown, taken, saving, stored, spoilt>>

\* measure(), whose button is on the speed tab; it goes on when the tab is left.
Measure ==
  /\ tab = "speed" /\ ~ monitoring /\ ~ measuring /\ Click
  /\ measuring' = TRUE
  /\ UNCHANGED <<vars, tab, monitoring, shown, taken, loads, saving, stored, spoilt>>

MeasureEnds ==
  /\ measuring /\ measuring' = FALSE
  /\ UNCHANGED <<vars, tab, monitoring, shown, taken, loads, saving, stored, clicks, spoilt>>
-----------------------------------------------------------------------------
(* The history store                                                       *)

\* hydrateStability(): the latest session, if there is one, takes the place of what is shown.
Hydrated ==
  /\ loads > 0 /\ loads' = loads - 1
  /\ \/ stored = {} /\ UNCHANGED <<shown, spoilt>>
     \/ \E s \in stored :
          /\ \A o \in stored : o.at <= s.at
          /\ shown' = s.samples
          /\ spoilt' = (spoilt \/ (monitoring /\ ~ shown \subseteq s.samples))
  /\ UNCHANGED <<vars, tab, monitoring, measuring, taken, saving, stored, clicks>>

\* saveStability() ends; the page does not wait for it, nor learn that it failed.
Saved(s) ==
  /\ saving' = saving \ {s}
  /\ \/ stored' = stored \cup {s} /\ UNCHANGED spoilt
     \/ spoilt' = TRUE /\ UNCHANGED stored
  /\ UNCHANGED <<vars, tab, monitoring, measuring, shown, taken, loads, clicks>>
-----------------------------------------------------------------------------
TabNext ==
  \/ Watch \/ Sample \/ Start \/ StopButton \/ Enter \/ Measure \/ MeasureEnds \/ Hydrated
  \/ \E x \in Tabs : Leave(x)
  \/ \E s \in saving : Saved(s)

\* What the monitor alone may count on.
TabFairness ==
  /\ WF_tabVars(Opens /\ UNCHANGED page) /\ WF_tabVars(Closed /\ UNCHANGED page)
  /\ WF_tabVars(FormerClosed /\ UNCHANGED page) /\ WF_tabVars(Reconnect /\ UNCHANGED page)

TabSpec == TabInit /\ [][TabNext]_tabVars /\ TabFairness
-----------------------------------------------------------------------------
\* A monitor runs exactly while the page says so, only on its tab, and never beside a speed
\* measurement, which would distort both: measure() asks the page's state, startMonitoring()
\* the reference to the run, and leaving the tab stops the monitor (App.tsx:226, 296-304,
\* 352-358).
MonitorExcludesMeasurement ==
  /\ monitoring = ~ stopped
  /\ monitoring => tab = "stability" /\ ~ measuring

TabInv == TabTypeOK /\ MonitorExcludesMeasurement

\* Unless a stored session replaced live samples, or a save failed, every sample taken is on
\* display or in a session that is saved or being saved: stopping, leaving the tab and coming
\* back, in whatever order the calls to the store end, loses none (App.tsx:171-176, 296-301).
SamplesSurvive ==
  spoilt \/ 1..taken \subseteq shown \cup UNION {s.samples : s \in saving \cup stored}
=============================================================================
