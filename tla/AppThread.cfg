\* Two connections that use the form, two values for each field, one message.
SPECIFICATION AppFairSpec
CONSTANTS
  c1 = c1
  c2 = c2
  Conns = {c1, c2}
  Addresses = {0, 1}
  Others = {0, 1}
  PostedBy <- MCPostedBy
  MAX_MBOX = 1
  None = None
CHECK_DEADLOCK FALSE
PROPERTIES
  FormsAreIsolated
  ChangeEndsService
  SweepsGoOn
