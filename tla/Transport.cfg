\* Two streams of at most two chunks, in either kind of browser, or of three requests.
CONSTANTS
  Workers = {w1, w2}
  Browsers = {"honours abort", "ignores abort"}
  MaxChunks = 2
  MaxRequests = 3
SPECIFICATION CallSpec
INVARIANTS
  DownloadInv
  UploadInv
PROPERTIES
  BytesAreRepresented
  FrozenIsFinal
  FailureStopsSiblings
  CallEnds
