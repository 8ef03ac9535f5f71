CONSTANTS
  id1 = id1
  AnyId = AnyId
  Channels <- OneChannel
  Ids <- OneId
  Rules <- NoRules
  HookLimit = 1
  HasHooks = FALSE
  MaxFrames = 2
SPECIFICATION Spec
INVARIANTS
  TrafficKeepsReaderAlive
CHECK_DEADLOCK FALSE
