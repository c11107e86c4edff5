\* Four nodes behind an extractor compiled for two: what the updater hands over.
SPECIFICATION Spec
CONSTANTS
  Chunks <- FourChunks
  OwnFirst <- MCOwnFirst
  Own <- MCOwn
  Before <- MCBefore
  Shape = "four_nodes"
  RING_NUMS = 2
  MaxIter = 2
  NoPacket = NoPacket
  Invalid = Invalid
INVARIANTS
  DeliveredComplete
CHECK_DEADLOCK FALSE
