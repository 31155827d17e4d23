\* A vault of two entries a side, three values, four tokens, two requests.
SPECIFICATION Spec
CONSTANTS
    Value = {v1, v2, v3}
    Request = {q1, q2}
    MaxEntries = 2
    MaxMints = 4
    MaxLeaves = 2
    MaxPieces = 2
    MaxLines = 2
SYMMETRY Symmetry
INVARIANTS TypeOK LiveIndicesDistinct MaskedUnlessRestored EchoIsFaithful StreamKeepsItsTokens
CHECK_DEADLOCK FALSE
