\* Does the optimizer read a gradient nobody overwrites meanwhile?
SPECIFICATION FairSpec
CONSTANTS
  Chunks <- FourChunks
  OwnFirst <- MCOwnFirst
  Own <- MCOwn
  Before <- MCBefore
  Shape = "two_nodes"
  RING_NUMS = 2
  MaxIter = 3
  NoPacket = NoPacket
  Invalid = Invalid
INVARIANTS
  OverwriteAfterRead
CHECK_DEADLOCK FALSE
