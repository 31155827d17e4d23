\* The auto-unlock path joins an unlock in progress.
SPECIFICATION FairSpec
CONSTANTS
    Req = {r1, r2}
    User = {u1}
    Whitelist = {}
    Kinds = {"autoUnlock"}
    MaxGen = 2
    NoReq = NoReq
CHECK_DEADLOCK FALSE
PROPERTIES EveryRequestAnswered
