\* Two devices: a tag in place says nothing of the rest of the packet.
SPECIFICATION Spec
CONSTANTS
  BUFFER_SIZE = 3
  TOTAL_DMA_DEV = 2
  ring_size = 4
  MBUF_RING_SIZE = 5
  dma_batch_sz = 2
  MAX_PKT_BURST = 2
  TagValues = 8
  KeepUp = TRUE
  MaxLap = 2
  NoPacket = NoPacket
PROPERTY
  DecodedWhole
CHECK_DEADLOCK FALSE
