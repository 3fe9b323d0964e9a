\* A ring that holds two messages, a list of three frames, and more frames than both hold.
SPECIFICATION FairSpec
CONSTANTS
  MAX_QUEUE_ENTRIES = 3
  MAX_DMA_QUEUE = 3
  PostPhases = {"down", "ready"}
  MAX_PACKETS = 7
CHECK_DEADLOCK FALSE
INVARIANTS
  SemaphoreCounts
  NoneForgotten
PROPERTIES
  InOrder
  BacklogDrains
  FullMailboxDrains
