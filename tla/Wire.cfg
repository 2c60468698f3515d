SPECIFICATION PartSpec
CONSTANT
    Parts = {"holds", "shared_run", "foreign_run", "parked_runs", "full_run", "chat", "anthropic", "responses", "request", "budgets", "translation", "refused"}
    Waiters = {"a", "b"}
    HoldIDs = {"x", "y"}
    Cap = 1
    MaxEdits = 2
INVARIANTS
    HoldsAttributed RunsSound OneTurn BookedAsRead RequestSound TranslationSound
CHECK_DEADLOCK FALSE
