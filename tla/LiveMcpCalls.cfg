SPECIFICATION Spec
CONSTANTS
  r1 = r1  r2 = r2  r3 = r3  s1 = s1  s2 = s2
  probe = probe  reissued = reissued  look = look  k1 = k1  k2 = k2
  NoRequest = NoRequest
  Request = {r1, r2}
  Server = {s1, s2}
  HostOf <- MCHostApart
  Grant = {probe, reissued, look}
  Key = {k1, k2}
  KeyOf <- MCKeyOf
  ActionOf <- MCActionOf
  NotBefore <- MCNotBefore
  ExpiresAt <- MCExpiresAt
  Defect = {"none", "input", "destination", "limits", "malformed", "signature", "identity", "digest"}
  Skew = 1
  MaxTime = 3
INVARIANTS
  AttemptsAreSound
  ReportNeverUnderstates
CHECK_DEADLOCK FALSE
