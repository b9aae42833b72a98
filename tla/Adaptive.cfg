\* The limits of the code and the default configuration: 5s, 15s and 15s.
CONSTANTS
  Ramp <- RampOfFour
  Target = 4
  Limit = 12
  MaxDirection = 12
  Margin = 8
  Rates = {0, 20, 21, 40}
  MaxSamples = 3
SPECIFICATION FairSpec
INVARIANTS
  CancelledIsNoResult
  EngineInv
  RateIsTypical
PROPERTIES
  EngineEnds
