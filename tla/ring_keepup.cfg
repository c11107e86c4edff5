\* Two devices that may be full, traffic the readers keep up with.
SPECIFICATION FairSpec
CONSTANTS
  BUFFER_SIZE = 3
  TOTAL_DMA_DEV = 2
  ring_size = 1
  MBUF_RING_SIZE = 2
  dma_batch_sz = 2
  MAX_PKT_BURST = 2
  TagValues = 8
  KeepUp = TRUE
  MaxLap = 2
  NoPacket = NoPacket
INVARIANTS
  TypeOK
PROPERTIES
  AcceptedInOrder
  LengthOfPacket
  ExtractedUnlessRefused
CHECK_DEADLOCK FALSE
