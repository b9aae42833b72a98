\* Three runs compete for two places and two sessions for one run each; two streams
\* compete for the slot of a run.
CONSTANTS
  Runs = {r1, r2, r3}
  Owners = {o1, o2}
  Streams = {s1, s2}
  Deletes = {d1}
  MaxRuns = 2
  PerOwner = 1
  MaxStreams = 1
  NoRun = NoRun
  NoOwner = NoOwner
SPECIFICATION Spec
SYMMETRY Symmetry
INVARIANTS
  RegistryInv
  CapacityHeldWhileStreaming
PROPERTIES
  NoAdmissionAfterClose
  DeleteAnswersQuiescent
