\* Two contexts, two pcbs and two file slots; every kind of request.
SPECIFICATION FairSpec
CONSTANTS
  MAX_CONNECTIONS = 2
  Pcbs = {p1, p2}
  MAX_FILES = 2
  NULL = NULL
  Requests <- AllKinds
  MAX_EVENTS = 6
CHECK_DEADLOCK FALSE
INVARIANTS
  BindingsAgree
  OnlyUploadsLoseFiles
  OnlyPagesCloseTwice
  OnlyListsAnd304Leak
  UploadsAreSettled
PROPERTIES
  TableImplemented
  SilentPeersAreDropped
