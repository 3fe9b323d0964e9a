SPECIFICATION FairSpec
CONSTANTS
  MAX_REQ_BUF_SIZE = 4
  TCP_WND = 8
  TCP_MSS = 4
  Streams <- MCStreams
INVARIANTS BytesInOrder WindowIsWhole BodiesAreExact OnlyChunksOverdraw
PROPERTIES FlowIsControlled WindowReopens
CHECK_DEADLOCK FALSE
