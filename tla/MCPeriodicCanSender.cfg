CONSTANTS
  n1 = n1
  n2 = n2
  Names <- TwoNames
  Period = 2
  SingleUser = TRUE
  MaxJobs = 2
  MaxTasks = 3
  MaxTime = 3
SPECIFICATION Spec
SYMMETRY NameSymmetry
INVARIANTS
  TypeOK
  RunningIsStoppable
  NeverAhead
PROPERTIES
  SilentAfterStop
CHECK_DEADLOCK FALSE
