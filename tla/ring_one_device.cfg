\* One device or the software dump; the ring may be overrun, the device may
\* be full, the parser may be restarted.
SPECIFICATION NodeSpec
CONSTANTS
  BUFFER_SIZE = 4
  TOTAL_DMA_DEV = 1
  ring_size = 2
  MBUF_RING_SIZE = 3
  dma_batch_sz = 2
  MAX_PKT_BURST = 3
  TagValues = 8
  KeepUp = FALSE
  MaxLap = 2
  NoPacket = NoPacket
  Dumpers <- BothDumpers
  MaxRestart = 1
INVARIANTS
  NodeTypeOK
  BufsMatchJobs
  AllSubmitted
  OneSlotInFlight
PROPERTIES
  DecodedWhole
  ExtractedWhole
  NoneRepeatedOrSkipped
CHECK_DEADLOCK FALSE
