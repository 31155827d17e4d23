\* Two audited streams, one approver and one other member.
SPECIFICATION FairSpec
CONSTANTS
    Stream = {s1, s2}
    Audited = {s1, s2}
    User = {u1, u2}
    Whitelist = {u1}
    MaxSeq = 2
    None = None
CHECK_DEADLOCK FALSE
INVARIANTS TypeOK ApprovedOnlyByWhitelist NoOrphans WaiterCanWake
PROPERTIES ApprovalSettles ImplementsApproval
