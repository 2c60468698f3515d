SPECIFICATION FairSpec
CONSTANTS
  Requests = {g1, c1}
  CursorRequests = {c1}
  BaseBackoff = 1
  MaxBackoff = 2
  MaxRetryHint = 2
  Hints = {0, 3}
  MaxRetries = 1
  StormMaxRetries = 1
  MaxCallbacks = 1
  MaxInterventions = 1
INVARIANTS TokenExclusive WaitersAccounted
PROPERTIES EveryRequestFinishes OnlyOwnerRelents ImplementsBreaker
