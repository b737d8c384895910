SPECIFICATION Spec
CONSTANTS
  N = 2
  Dests = 2
  Ceiling = 2
  MaxSent = 3
  RetainPayload = FALSE
INVARIANTS
  CeilingEndsInFailure
CHECK_DEADLOCK FALSE
