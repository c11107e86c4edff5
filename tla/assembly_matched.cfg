\* The two-node job the extractor is compiled for (RING_NUMS 2).
SPECIFICATION FairSpec
CONSTANTS
  Chunks <- FourChunks
  OwnFirst <- MCOwnFirst
  Own <- MCOwn
  Before <- MCBefore
  Shape = "two_nodes"
  RING_NUMS = 2
  MaxIter = 3
  NoPacket = NoPacket
  Invalid = Invalid
INVARIANTS
  TypeOK
  DeliveredComplete
  OptimizerOneIterationAhead
  NoStaleMark
  IInv
  NeverPastLimit
  LimitInv
PROPERTIES
  ClearIsExclusive
  NoIncrementLost
  EveryIterationDelivered
  CheckpointSpec
CHECK_DEADLOCK FALSE
