\* As built for plain HTTP: TCP_SND_BUF = MAX_SEND_BUF_SIZE.
SPECIFICATION FairSpec
CONSTANTS
  SND_BUF = 4
  SEND_BUF_SIZE = 4
  RESERVE = 1
  HEADER = 2
  FileSizes = {12}
  TIMEOUT = 1
  WriteFails = {FALSE}
  PROMPT_PEER = TRUE
  MAX_RESPONSES = 1
CHECK_DEADLOCK FALSE
PROPERTIES
  ResponseCompletes
