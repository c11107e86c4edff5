\* The two-node job: each stream may lose a chunk, or one of the processes be
\* restarted.
SPECIFICATION FaultFairSpec
CONSTANTS
  Chunks <- FourChunks
  OwnFirst <- TwoNodesFirst
  Own <- TwoNodes
  Before <- Ascending
  RING_NUMS = 2
  MaxIter = 3
  Faults = {"loss", "updater", "extractor"}
  MaxLoss = 1
  MaxRestart = 1
  NoPacket = NoPacket
  Invalid = Invalid
INVARIANTS
  FaultTypeOK
  NothingOlder
  LagBounded
  LossIsLasting
  LimitKept
  StoppedForGood
PROPERTIES
  DeliveryGoesOn
CHECK_DEADLOCK FALSE
