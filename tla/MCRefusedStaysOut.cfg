\* The same request, asked whether a refused call stays away from the client.
CONSTANTS
    MaxRetries = 2
    FlushAt = 1
    MaxText = 1
    MaxParts = 2
    MaxOther = 1
    MaxSent = 4

SPECIFICATION Spec
INVARIANTS RefusedStaysOut
CHECK_DEADLOCK FALSE
