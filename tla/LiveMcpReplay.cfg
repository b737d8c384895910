SPECIFICATION FairSpec
CONSTANTS
  r1 = r1  r2 = r2  r3 = r3  s1 = s1  s2 = s2
  probe = probe  reissued = reissued  look = look  k1 = k1  k2 = k2
  NoRequest = NoRequest
  Request = {r1, r2, r3}
  Server = {s1, s2}
  HostOf <- MCHostShared
  Grant = {probe, reissued}
  Key = {k1}
  KeyOf <- MCCallKeyOf
  ActionOf <- MCCallActionOf
  NotBefore <- MCCallNotBefore
  ExpiresAt <- MCCallExpiresAt
  Defect = {"none"}
  Skew = 0
  MaxTime = 1
INVARIANTS
  NonceSpentOnce
PROPERTIES
  ImplementsLedger
  EveryCallEnds
CHECK_DEADLOCK FALSE
