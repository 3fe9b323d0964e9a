\* A ring that holds two messages: it is full whenever two frames are announced.
SPECIFICATION SsdpFairSpec
CONSTANTS
  MAX_QUEUE_ENTRIES = 3
  MAX_DMA_QUEUE = 3
  PostPhases = {"down", "ready"}
  MAX_PACKETS = 4
CHECK_DEADLOCK FALSE
INVARIANT OneTimer
PROPERTY AdvertisingGoesOn
