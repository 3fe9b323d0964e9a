\* A frame is announced while sys_mbox_new is at work.
SPECIFICATION FairSpec
CONSTANTS
  MAX_QUEUE_ENTRIES = 3
  MAX_DMA_QUEUE = 3
  PostPhases = {"down", "created", "ready"}
  MAX_PACKETS = 4
CHECK_DEADLOCK FALSE
PROPERTIES
  FullMailboxDrains
