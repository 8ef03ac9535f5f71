CONSTANTS
  s1 = s1
  s2 = s2
  Services <- TwoServices
  LongRequests <- FirstHandled
  Handled <- FirstHandled
  MaxRequests = 3
  MaxPending = 1
  MaxLost = 1
SPECIFICATION Spec
INVARIANTS
  AnswersMatch
PROPERTIES
  RequestEnds
  
CHECK_DEADLOCK FALSE
