\* The page is hidden once, and shown again.
CONSTANTS
  Hides = 1
  Losses = 0
  MaxPings = 3
SPECIFICATION FairSpec
PROPERTIES
  Settles
CHECK_DEADLOCK FALSE
