\* Four nodes behind an extractor compiled for four.
SPECIFICATION FairSpec
CONSTANTS
  Chunks <- FourChunks
  OwnFirst <- MCOwnFirst
  Own <- MCOwn
  Before <- MCBefore
  Shape = "four_nodes"
  RING_NUMS = 4
  MaxIter = 2
  NoPacket = NoPacket
  Invalid = Invalid
PROPERTIES
  EveryIterationDelivered
CHECK_DEADLOCK FALSE
