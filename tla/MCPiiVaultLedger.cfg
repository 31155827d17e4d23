\* Three values and two entries a side, so that evictions happen; two requests.
SPECIFICATION Spec
CONSTANTS
    Value = {v1, v2, v3}
    Request = {q1, q2}
    MaxEntries = 2
    MaxMints = 4
    MaxLeaves = 2
    MaxPieces = 1
    MaxLines = 2
SYMMETRY Symmetry
PROPERTIES ImplementsLedger
CHECK_DEADLOCK FALSE
