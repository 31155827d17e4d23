\* Requests decided by people; no auto-unlock.
SPECIFICATION FairSpec
CONSTANTS
    Req = {r1, r2}
    User = {u1}
    Whitelist = {}
    Kinds = {"matrix", "revoke"}
    MaxGen = 1
    NoReq = NoReq
CHECK_DEADLOCK FALSE
PROPERTIES EveryRequestAnswered ImplementsApproval
