SPECIFICATION Spec
CONSTANTS
    Wires = {"chat"}
    Lines <- MCLines
    Tails <- MCTails
    HoldMax = 2
    QualityRetries = 1
    ThinkingRetries = 1
    MaxLines = 4
INVARIANT CommittedNeverResent
CHECK_DEADLOCK FALSE
