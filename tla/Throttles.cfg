SPECIFICATION Spec
CONSTANTS
    Providers = {"p"}
    MaxGates = 1
    Operators = {"o"}
    Headers = {"h"}
    Posts <- MCPosts
    Patches <- MCPatches
    Windows = {1, 2}
    RewriteFails = TRUE
    MaxEdits = 2
    MaxFaults = 1
    MaxRestarts = 0
INVARIANT DurableIsCurrent
CHECK_DEADLOCK FALSE
