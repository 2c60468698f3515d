SPECIFICATION PartSpec
CONSTANT
    Parts = {"replacement", "names", "pauses", "throttles", "budgets", "groups", "sessions", "captures", "expiry", "refresh", "discovery", "explorer", "ring", "merged", "chart", "history", "readers", "lineage", "conversations"}
    Snapshots = {"a", "b", "c"}
    Valid = {"a", "c"}
    MaxCrashes = 2
    MaxFaults = 2
    MaxRestores = 2
    MaxStops = 2
INVARIANTS
    ReplacementSound TablesSound PausesSound ThrottlesDurable BudgetKept SessionsSound CapturesSound DiscoverySound DashboardSound LineageExact TrackerSound
CHECK_DEADLOCK FALSE
