SPECIFICATION Spec
CONSTANTS
    Pairs <- MCPairs
    Outputs <- MCBoth
    Refused <- MCRefused
    IncludeUsage = TRUE
    RetainMax = 4
    ToolBlocksMax = 1
    ArgumentsMax = 3
    MaxEvents = 3
INVARIANT ReasoningWhole
CHECK_DEADLOCK FALSE
