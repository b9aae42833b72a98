\* Two runs, slots for the larger phase and not for the whole ramp; one request, or page, is lost.
CONSTANTS
  Runs = {r1, r2}
  Streams = {s1, s2, s3}
  MaxRuns = 1
  MaxStreams = 2
  Ramp <- RampOfTwo
  Losses = 1
  NoRun = NoRun
SPECIFICATION FairSpec
INVARIANT
  FlowInv
PROPERTIES
  SiblingsNeverCrowdOut
  MeasureEnds
  RunsAreGivenBack
CHECK_DEADLOCK FALSE
