CONSTANTS
  id1 = id1
  id2 = id2
  AnyId = AnyId
  Channels <- TwoChannels
  Ids <- TwoIds
  Rules <- NoOne
  HookLimit = 1
  HasHooks = TRUE
  MaxFrames = 3
  RouterChannel = 1
  QueueSize = 1
  HasDirect = TRUE
SPECIFICATION RouterFairSpec
INVARIANTS
  RouterTypeOK
  LostOnlyToOverflow
  RoutedComplete
PROPERTIES
  NothingRoutedAfterStop
  CommonQueueEmptied
CHECK_DEADLOCK FALSE
