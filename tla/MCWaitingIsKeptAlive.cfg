SPECIFICATION Spec
CONSTANTS
    Stream = {s1, s2, p1}
    Audited = {s1, s2}
    User = {u1}
    Whitelist = {u1}
    MaxSeq = 2
    None = None
CHECK_DEADLOCK FALSE
INVARIANTS WaitingIsKeptAlive
