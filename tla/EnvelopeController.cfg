SPECIFICATION FairSpec
CONSTANTS
  Manifest <- MCManifest
  Override <- MCOverride
  Word = 40
  MaxSteps = 4
  Time = {0, 1, 2, 3, 4, 5, 6, 7, 39}
INVARIANTS
  BudgetsHold
  PlanIsMaximal
  HoldUnlessResumed
PROPERTIES
  ControllerEnds
CHECK_DEADLOCK FALSE
