\* A device is full: the packet it refuses has taken a slot.
SPECIFICATION FairSpec
CONSTANTS
  BUFFER_SIZE = 3
  TOTAL_DMA_DEV = 1
  ring_size = 1
  MBUF_RING_SIZE = 2
  dma_batch_sz = 2
  MAX_PKT_BURST = 2
  TagValues = 8
  KeepUp = TRUE
  MaxLap = 2
  NoPacket = NoPacket
PROPERTY
  EveryPacketExtracted
CHECK_DEADLOCK FALSE
