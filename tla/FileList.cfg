\* Equal buffers, as built for plain HTTP: a full one, once acknowledged, starves the next read.
SPECIFICATION Spec
CONSTANTS
  SEND_BUF = 9
  SND_BUF = 9
  FRAME = 1
  SLACK = 3
  Folders <- MCFolders
CHECK_DEADLOCK FALSE
INVARIANTS
  ListingIsWhole
  SearchesAreClosed
