SPECIFICATION Spec
CONSTANTS
  Requests = {g1, c1}
  CursorRequests = {c1}
  BaseBackoff = 1
  MaxBackoff = 2
  MaxRetryHint = 2
  Hints = {0, 3}
  MaxRetries = 1
  StormMaxRetries = 0
  MaxCallbacks = 1
  MaxInterventions = 1
INVARIANT DrainReachesParked
