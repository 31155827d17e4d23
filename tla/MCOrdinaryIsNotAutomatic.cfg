\* A registration answered with the ordinary approval.
SPECIFICATION Spec
CONSTANTS
    Reg = {r1, r2}
    Revoker = {x1}
    Name = {n1}
    Path = {p1}
    Hash = {h1}
    MaxTasks = 1
    DiskMayFail = FALSE
    NoReg = NoReg
INVARIANTS OrdinaryIsNotAutomatic
CHECK_DEADLOCK FALSE
