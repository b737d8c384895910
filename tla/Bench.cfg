SPECIFICATION Spec
CONSTANTS
  Record <- MCRecord
  Capacity = 1
  Key = {"k1"}
  MaxInputs = 4
  Selections <- MCSelections
  MaxCases = 2
  MaxPackets = 4
  MaxFailures = 2
  Source <- MCSource
  Dimensions <- MCDimensions
  Trials = 2
  Quorum = 1
  MaxCandidates = 14
  MaxTotalPackets = 60
  MaxTotalBytes = 400
  PacketsPerTrial = 1
  Files <- MCFiles
  Appended = {"notes"}
  Creators = {"c1", "c2"}
  MaxEdits = 1
  MaxInventories = 2
  Writers = {"a", "b", "c"}
  PathsOf <- MCPathsOf
  Nobody = Nobody
  Requests <- MCRequests
  Environments <- MCEnvironments
  Hosts <- MCHosts
  Profiles <- MCProfiles
  Peers = {"p1", "p2", "p3"}
  MaxChanges = 2
INVARIANTS
  ConsoleIsHonest
  MutationsAnswered
  ResultIsMinimal
  EvidenceIsWhole
  AllOrNothing
  OnlyTargetsImpaired
CHECK_DEADLOCK FALSE
