CONSTANTS
  id1 = id1
  AnyId = AnyId
  Channels <- ChannelsOneThree
  Ids <- OneId
  Rules <- NoRules
  HookLimit = 1
  HasHooks = TRUE
  MaxFrames = 2
SPECIFICATION Spec
INVARIANTS
  OwnChannelOnly
CHECK_DEADLOCK FALSE
