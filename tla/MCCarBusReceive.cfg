CONSTANTS
  id1 = id1
  AnyId = AnyId
  Channels <- TwoChannels
  Ids <- OneId
  Rules <- TwoRules
  HookLimit = 1
  HasHooks = TRUE
  MaxFrames = 3
SPECIFICATION FairSpec
INVARIANTS
  TypeOK
  ChannelStreamUnbroken
  OwnChannelOnly
  EveryMatchHooked

  
CHECK_DEADLOCK FALSE
