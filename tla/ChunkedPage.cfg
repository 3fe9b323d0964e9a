\* A cache of six characters: longer than one of the tags, shorter than the other.
SPECIFICATION FairSpec
CONSTANTS
  CACHE = 6
  NAME = 6
  SLACK = 2
  Rooms = {0, 3, 5}
  Pages <- MCPages
CHECK_DEADLOCK FALSE
INVARIANTS
  PageIsSubstituted
  ChunksAreFramed
PROPERTY BodyEnds
