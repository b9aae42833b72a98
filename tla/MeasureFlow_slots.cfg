\* The same ramp and slots: the slots of the phase before may still be taken.
CONSTANTS
  Runs = {r1, r2}
  Streams = {s1, s2, s3}
  MaxRuns = 1
  MaxStreams = 2
  Ramp <- RampOfTwo
  Losses = 1
  NoRun = NoRun
SPECIFICATION Spec
INVARIANT
  RampIsAdmitted
CHECK_DEADLOCK FALSE
