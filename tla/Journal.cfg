SPECIFICATION FairSpec
CONSTANTS
  p1 = p1  p2 = p2  p3 = p3
  Nobody = Nobody
  Process = {p1, p2, p3}
  Body = {"scope", "finding"}
  Sizes <- MCSizes
  Least <- MCLeast
  MaxBytes = 7
  MaxEntries = 2
INVARIANTS
  JournalIsWhole
  ReadersSeeDurable
PROPERTIES
  CommandsEnd
CHECK_DEADLOCK FALSE
