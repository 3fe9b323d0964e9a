\* A TCP buffer smaller than _sendBuffer, as under TLS; writes may fail.
SPECIFICATION FairSpec
CONSTANTS
  SND_BUF = 4
  SEND_BUF_SIZE = 5
  RESERVE = 1
  HEADER = 3
  FileSizes = {0, 3, 10}
  TIMEOUT = 1
  WriteFails = {FALSE, TRUE}
  PROMPT_PEER = TRUE
  MAX_RESPONSES = 3
CHECK_DEADLOCK FALSE
INVARIANTS
  BuffersHold
  NothingLost
  AlwaysDriven
PROPERTIES
  EndsWhole
  ResponseCompletes
