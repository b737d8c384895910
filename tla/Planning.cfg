SPECIFICATION Spec
CONSTANTS
  Levels <- MCLevels
  Policies <- MCPolicies
  Values = {0, 1, 3}
  Health = "health"
  BaselineSamples = 2
  StaleAfter = 1
  Duration = 9
  Cooldown = 2
  RecoveryDeadline = 2
  Teardown = 1
  CanaryInterval = 2
  MaxSamples = 4
  MaxCanaries = 3
  Manifests <- MCManifests
  Zone <- MCZone
  Literal = {"a1", "a2", "a9", "b1"}
  Placeholder = {"example"}
  Reductions <- MCReductions
  Secrets <- MCSecrets
  Family <- MCFamily
  MaxSteps = 4
  StepBytes = 2
  MaxPlanBytes = 7
  Planners = {"p"}
  NoPlan = NoPlan
  MaxEdits = 1
  Matrices <- MCMatrices
  Transport = "transport"
  Authorised = {"udp", "tls", "tcp"}
  Actions = {"hold", "resume", "failure", "recover", "hangup"}
  MaxActions = 3
  SequenceStrength = 2
  CaseBudget <- MCCaseBudget
  Ceiling <- MCCeiling
  MaxCases = {0, 1, 3}
  Sessions <- MCSessions
  Audio = 3
  Progress = 2
  Ends = 2
  Gap = 0
  Dynamic = {101, 102, 103}
  FixtureDeadline = 8
  MaxRepeats = 1
  MaxTime = 9
  Streams <- MCStreams
  Foreign = "foreign"
  Corrupted = "corrupted"
  Impairments <- MCImpairments
  Skews = {0, 10}
  MinDelaySamples = 2
  MinRateSamples = 3
  MaxArrivals = 4
  MaxDamage = 1
  Period = 10
  LinkTime = 10
INVARIANTS
  LevelsAreJudged
  PlansAreFrozen
  MatrixIsCovered
  MediaIsEchoed
  MeasuredIsSuffered
CHECK_DEADLOCK FALSE
