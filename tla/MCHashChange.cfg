\* One registration whose script changes back and forth, on a disk that may fail.
SPECIFICATION Spec
CONSTANTS
    Reg = {r1}
    Revoker = {x1}
    Name = {n1}
    Path = {p1}
    Hash = {h1, h2}
    MaxTasks = 2
    DiskMayFail = TRUE
    NoReg = NoReg
SYMMETRY Symmetry
INVARIANTS TrustedHashWasAccepted
CHECK_DEADLOCK FALSE
