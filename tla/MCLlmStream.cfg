\* One request, every chain; the request may stop where nothing is sent.
CONSTANTS
    MaxRetries = 2
    FlushAt = 1
    MaxText = 3
    MaxParts = 2
    MaxOther = 1
    MaxSent = 5

SPECIFICATION Spec
INVARIANTS
    TextInOrder
    OnlyAuditedCalls
    EndIsHonest
    NeverSilent
CHECK_DEADLOCK FALSE
