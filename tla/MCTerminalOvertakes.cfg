\* The same request, asked whether text may still follow the terminal.
CONSTANTS
    MaxRetries = 2
    FlushAt = 1
    MaxText = 2
    MaxParts = 0
    MaxOther = 1
    MaxSent = 3

SPECIFICATION Spec
INVARIANTS DoneIsLast
CHECK_DEADLOCK FALSE
