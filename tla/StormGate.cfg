\* A part in which a request never starts ends with it idle.
SPECIFICATION MCSpec
CONSTANTS
  r1 = r1  r2 = r2  r3 = r3  r4 = r4  m1 = m1  m2 = m2  m3 = m3  p = p
  Requests = {r1, r2, r3, r4}
  Models = {m1, m2, m3}
  ModelOf <- Split
  Provider = p
  Policies <- AllPolicies
  MinSamples = 1  ErrorPercent = 60
  InitialBackoff = 1  MaxBackoff = 1  BackoffMultiplier = 2  JitterPercent = 0
  Hints = {0, 2}
  RecoverySuccesses = 1  QuotaRecoverySuccesses = 2
  MaxAttempts = 3  MaxGenerations = 2  MaxReleases = 1
INVARIANTS SingleFileRecovery ProbeOwned WaitersAccounted
PROPERTIES ClosedByItsProbe StormsJust
CHECK_DEADLOCK FALSE
