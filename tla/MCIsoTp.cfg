CONSTANTS
  PduLens <- Lens
  BlockSizes <- SmallBlocks
  OwnBlockSize = 0
  AnswerCfs <- AnyAnswer
  MaxPdus = 2
  MaxRecvs = 1
  MaxLost = 1
SPECIFICATION Spec
INVARIANTS
  TypeOK
  BlockHonoured
  SentIsDelivered

  
CHECK_DEADLOCK FALSE
