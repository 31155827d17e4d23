\* A vault of two entries, three secrets, three tokens, requests one after another.
SPECIFICATION Spec
CONSTANTS
    Secret = {v1, v2, v3}
    Request = {q1}
    Addr = {a1, a2}
    MaxEntries = 2
    MaxSeq = 3
    NoSecret = NoSecret
SYMMETRY Symmetry
INVARIANTS MapsInverse OrderListsEntries CachesCurrent
           RequestRestoresItsSecrets RestoreUsesOwnMap
PROPERTIES ImplementsLedger
