--------------------- MODULE CredentialRefinesApproval ---------------------
(* Credential requests and revocations keep the promise of Approval.       *)
EXTENDS CredentialProxy

(* What has become of a request.  Once its handler is past the approval the *)
(* entry is gone; while it is inside, an absent entry was cleared by a lock. *)
RequestStatus(r) ==
    IF pc[r] = "idle" THEN "new"
    ELSE IF kind[r] \in {"auto", "autoUnlock"} THEN "exempt"
    ELSE IF PastApproval(r) \/ pc[r] = "error" THEN "granted"
    ELSE IF pc[r] \in Answers THEN "denied"
    ELSE CASE pending[r] = "yes"    -> "approved"
           [] pending[r] = "no"     -> "refused"
           [] pending[r] = "none"   -> "open"
           [] pending[r] = "absent" -> IF pc[r] \in ApprovalStage THEN "withdrawn" ELSE "open"

Promise == INSTANCE Approval WITH
    Case      <- Req,
    Person    <- User,
    Approvers <- {u \in User : MayApprove(u)},
    status    <- [r \in Req |-> RequestStatus(r)],
    said      <- pressed

(* A request that needs a person is carried out exactly on the first        *)
(* decision made by a member who may approve, unless a lock or a timer took  *)
(* it back in between: every step of the handlers and of the room is a step  *)
(* of Approval, or changes nothing there (handle_credential, handle_revoke,  *)
(* on_reaction, `lock proxy`).                                               *)
ImplementsApproval == Promise!Spec
============================================================================
