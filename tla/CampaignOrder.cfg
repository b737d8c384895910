SPECIFICATION FairSpec
CONSTANTS
  fork = fork  undo1 = undo1  undo2 = undo2
  N = 2
  Calls = {1, 2}
  Helper = {fork}
  Detaches = {fork}
  Unkillable = {}
  Duration = 3
  Budget <- MCBudget
  Interval = 2
  Grace = 1
  Rollback = {undo1, undo2}
  Rollbacks <- MCRollbacks
  MaxTime = 4
INVARIANTS
  StepsAreAlone
  StopsAreOrderly
  EventsTellTheRun
PROPERTIES
  ImplementsCampaign
  EndsUnlessHeld
CHECK_DEADLOCK FALSE
