SPECIFICATION FairSpec
CONSTANTS
  SEND_BUF = 12
  RESERVE = 2
  Bodies <- MCBodies
INVARIANTS
  FieldsInOrder
  FieldsAreExact
PROPERTY FormCompletes
CHECK_DEADLOCK FALSE
