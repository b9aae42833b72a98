\* One session, two runs one after the other, two streams; no symmetry.
CONSTANTS
  Runs = {r1, r2}
  Owners = {o1}
  Streams = {s1, s2}
  Deletes = {d1}
  MaxRuns = 1
  PerOwner = 1
  MaxStreams = 1
  NoRun = NoRun
  NoOwner = NoOwner
SPECIFICATION FairSpec
PROPERTIES
  ImplementsLeases
  ClosersReturn
  ImplementsFairLeases
