SPECIFICATION FairSpec
CONSTANTS
  fork = fork  undo1 = undo1  undo2 = undo2
  N = 1
  Calls = {}
  Helper = {fork}
  Detaches = {fork}
  Unkillable = {}
  Duration = 2
  Budget <- MCBudget
  Interval = 2
  Grace = 1
  Rollback = {undo1, undo2}
  Rollbacks <- MCRollbacks
  MaxTime = 3
PROPERTIES
  CampaignEnds
CHECK_DEADLOCK FALSE
