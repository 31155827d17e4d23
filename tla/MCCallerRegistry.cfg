\* Two registrations of one unchanging script, under one name or two.
SPECIFICATION Spec
CONSTANTS
    Reg = {r1, r2}
    Revoker = {x1}
    Name = {n1, n2}
    Path = {p1}
    Hash = {h1}
    MaxTasks = 1
    DiskMayFail = FALSE
    NoReg = NoReg
SYMMETRY Symmetry
INVARIANTS EnabledWasApproved RevokedStaysRevoked NoDanglingIndex
CHECK_DEADLOCK FALSE
