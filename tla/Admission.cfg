\* A part in which a client never comes ends with it absent.
SPECIFICATION MCSpec
CONSTANTS
  r1 = r1  r2 = r2  r3 = r3  r4 = r4  k1 = k1  k2 = k2  b1 = b1
  Requests = {r1, r2, r3, r4}
  Returning = {}
  Groups = {k1, k2}
  GroupOf <- Shared
  FirstCap <- Mixed
  Caps = {0, 1, 2}
  MaxQueueSize = 0
  Est <- Sizes
  Actual <- Reports
  HoldScope = {r1}
  Limits <- Edits
  Background = {b1}
  Interventions = {"abort", "maxWait", "throttle", "pace", "drain", "hold", "cap"}
  MaxInterventions = 2
INVARIANTS SlotsExact GrantOrQueued GateExact WaitersWoken
PROPERTIES ImplementsSlots
CHECK_DEADLOCK FALSE
