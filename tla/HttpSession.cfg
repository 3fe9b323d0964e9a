\* Two slots, two contexts, a clock that does not wrap.
SPECIFICATION Spec
CONSTANTS
  MAX_SESSIONS = 2
  Contexts = {c1, c2}
  Hosts = {1}
  SESSION_TIMEOUT = 1
  TICK_MODULUS = 8
  MAX_TICK = 4
SYMMETRY ContextSymmetry
INVARIANTS
  FreeSlotsAreZeroed
  StampsAreTrue
  SweepTakesIdle
PROPERTIES
  NeverExpiresEarly
