SPECIFICATION PartSpec
CONSTANTS
    a = a
    b = b
    x = x
    y = y
    Parts = {"recording", "feed", "window", "epochs"}
    Records = {a, b}
    Incoming = {x}
    Foreign = {y}
    Matching = {a}
    ChanCap = 2
    BatchCap = 2
    RingCap = 2
    MaxPurges = 1
    MaxMerges = 1
    MaxFailures = 1
    MaxStops = 1
    MaxReads = 1
    Requests = {a, b}
    SubCap = 1
    MaxFaults = 1
    MoreFaults = 4
INVARIANTS RecordsAccounted TotalsSound PageSound
PROPERTIES PurgeIsOneCut
CHECK_DEADLOCK FALSE
