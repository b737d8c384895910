SPECIFICATION Spec
CONSTANTS
  N = 2
  Dests = 2
  Ceiling = 2
  MaxSent = 3
  RetainPayload = FALSE
INVARIANTS
  FailuresAreRecorded
  SignalHeeded
PROPERTIES
  PcapFinal
CHECK_DEADLOCK FALSE
