\* Two requests of every kind, one approver and one other member.
SPECIFICATION Spec
CONSTANTS
    Req = {r1, r2}
    User = {u1, u2}
    Whitelist = {u1}
    Kinds = {"refused", "matrix", "auto", "autoUnlock", "revoke"}
    MaxGen = 2
    NoReq = NoReq
SYMMETRY Symmetry
INVARIANTS TypeOK ReleaseNeedsOwnApproval CancelledNeverReleased NoOrphanedWaiter
           UnlockedWakesAll NoLeftovers KeePassExclusive
           OutdatedUnlockLoadsNothing
PROPERTIES AsleepForGood
CHECK_DEADLOCK FALSE
