\* A marker whose rename lands although writing it reports a failure.
SPECIFICATION Spec
CONSTANTS
    Snapshots = {"a"}
    Valid = {"a"}
    MaxCrashes = 2
    MaxFaults = 1
    MaxRestores = 1
    MaxStops = 1
INVARIANT FramesKept
CHECK_DEADLOCK FALSE
