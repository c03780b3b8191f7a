SPECIFICATION FairSpec
CONSTANTS
  MAX_PENDING_FRAMES = 2
  MAX_PENDING_BYTES = 3
  MAX_RX_BYTES = 5
  MAX_EVENT_BURST = 2
  TLS_BUFFER_LIMIT = 2
  SndBuf = 1
  SendSizes = {2}
  Sizes = {1, 2}
  MaxSends = 3
  MaxFrames = 5
INVARIANTS StreamsInOrder
PROPERTIES NothingStuck
