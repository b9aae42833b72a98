\* Browsers whose reads settle when they are aborted, as Fetch requires.
CONSTANTS
  Workers = {w1, w2}
  Browsers = {"honours abort"}
  MaxChunks = 2
SPECIFICATION Spec
INVARIANTS
  CutShortIsDisclosed
