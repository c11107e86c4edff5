\* The tag byte wraps, round_num does not.
SPECIFICATION FairSpec
CONSTANTS
  BUFFER_SIZE = 2
  TOTAL_DMA_DEV = 1
  ring_size = 4
  MBUF_RING_SIZE = 5
  dma_batch_sz = 1
  MAX_PKT_BURST = 1
  TagValues = 3
  KeepUp = TRUE
  MaxLap = 4
  NoPacket = NoPacket
PROPERTY
  EveryPacketExtracted
CHECK_DEADLOCK FALSE
