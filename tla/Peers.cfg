SPECIFICATION FairSpec
CONSTANTS
  MaxMessages = 4
  AcceptForeign = {TRUE, FALSE}
  MaxLate = 2
  Packets = 2
  RequireRelay = {TRUE, FALSE}
  Candidates = {"host", "relay"}
INVARIANTS
  VerdictIsTheAdapters
  PassMeansWholeCall
PROPERTIES
  SelfTestsEnd
CHECK_DEADLOCK FALSE
