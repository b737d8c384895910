SPECIFICATION FairSpec
CONSTANTS
  inner = inner  outer = outer  pair = pair  pasta = pasta  shaper = shaper
  ifb = ifb  hook = hook  root = root  routed = routed  host = host
  Host = Host  h1 = h1
  Object <- MCObject
  Kind <- MCKind
  Home <- MCHome
  Topology = {routed, host}
  PlanOf <- MCPlanOf
  Helper = {h1}
  LateEffect = TRUE
  MaxFaults = 4
INVARIANTS
  TeardownIsOrdered
  ReportedClean
PROPERTIES
  ForeignKept
  RunEnds
CHECK_DEADLOCK FALSE
