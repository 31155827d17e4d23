\* The lock command while an unlock is under way.
SPECIFICATION Spec
CONSTANTS
    Req = {r1, r2}
    User = {u1}
    Whitelist = {}
    Kinds = {"matrix"}
    MaxGen = 1
    NoReq = NoReq
CHECK_DEADLOCK FALSE
INVARIANTS LockStopsEarlierUnlocks
