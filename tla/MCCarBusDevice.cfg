CONSTANTS
  c1 = c1
  c2 = c2
  c3 = c3
  k1 = k1
  k2 = k2
  NoCall = NoCall
  Calls <- TwoCalls
  Closers <- OneCloser
  MaxSeq = 2
  AsyncSeqs <- OnlyZero
  MaxInFlight = 1
SPECIFICATION Spec
SYMMETRY CallSymmetry
INVARIANTS
  TypeOK
  NobodyLeftWaiting
  ReplyMatchesRequest
PROPERTIES
  FutureCompletedOnce
  ImplementsPromises
CHECK_DEADLOCK FALSE
