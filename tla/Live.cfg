SPECIFICATION FairSpec
CONSTANT
    Parts = {"handoff", "admission", "storm", "recording", "feed", "replacement", "throttles", "runs", "request"}
    Clients = {"a", "b"}
    DrainBounded = TRUE
    MaxRestarts = 2
    MaxReloads = 1
    MaxSignals = 1
INVARIANT
    HandoffSound
PROPERTIES
    GatesLive RecordingLive ServingLive
CHECK_DEADLOCK FALSE
