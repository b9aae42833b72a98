\* The page is hidden twice and a connection lost twice, anywhere; four clicks start two monitors.
CONSTANTS
  Hides = 2
  Losses = 2
  MaxPings = 2
  Samples = 2
  Clicks = 4
SPECIFICATION TabSpec
INVARIANTS
  MonitorInv
  OneAttempt
  TabInv
  SamplesSurvive
PROPERTIES
  SettlesIfNeverHidden
CHECK_DEADLOCK FALSE
