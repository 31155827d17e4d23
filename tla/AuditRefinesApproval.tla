------------------------ MODULE AuditRefinesApproval ------------------------
(* Flagged tool calls keep the promise of Approval.                        *)
EXTENDS AuditApproval

(* What has become of an approval: an entry that is gone while its handler  *)
(* is still inside was swept.                                               *)
CallStatus(n) ==
    IF outcome[n] = "approved" THEN "granted"
    ELSE IF outcome[n] # "open" THEN "denied"
    ELSE IF n > seq THEN "new"
    ELSE CASE pending[n] = "yes"    -> "approved"
           [] pending[n] = "no"     -> "refused"
           [] pending[n] = "absent" -> "withdrawn"
           [] pending[n] = "none"   -> "open"

Promise == INSTANCE Approval WITH
    Case      <- Id,
    Person    <- User,
    Approvers <- Whitelist,
    status    <- [n \in Id |-> CallStatus(n)],
    said      <- pressed

(* A flagged tool call is let through exactly on the first decision of a    *)
(* whitelisted member, unless the sweeper, the timer or the end of the      *)
(* stream came first (_request_audit_approval, branch 5 of on_reaction).    *)
ImplementsApproval == Promise!Spec
============================================================================
