SPECIFICATION Spec
CONSTANTS
  Scripts <- MCScripts
  MaxFaults = 2
  Modulus = 8
  CallerHost = "A"
  CalleeHost = "B"
INVARIANTS
  CallsAreReconstructed
  VerdictsAreThePackets
CHECK_DEADLOCK FALSE
