------------------------------ MODULE Approval ------------------------------
(***************************************************************************)
(* What the proxy promises about asking a person, whoever asks: a case     *)
(* (a credential request, a flagged tool call) is carried out only on the  *)
(* first decision about it, made by somebody who may decide, and not taken *)
(* back before it was used.                                                *)
(*                                                                         *)
(* CredentialRefinesApproval and AuditRefinesApproval show that the two    *)
(* approval paths of the code implement this module.                       *)
(***************************************************************************)
CONSTANTS
    Case,           \* what may need approval
    Person,         \* who may answer in the room
    Approvers       \* the persons whose answer counts

VARIABLES
    status,         \* how far a case has come
    said            \* who has approved a case so far

vars == <<status, said>>

Open    == {"open", "approved", "refused", "withdrawn"}
Status  == {"new", "granted", "denied", "exempt"} \cup Open

Move(c, from, to) ==
    /\ status[c] \in from
    /\ status' = [status EXCEPT ![c] = to]
    /\ UNCHANGED said

----------------------------------------------------------------------------
Init ==
    /\ status = [c \in Case |-> "new"]
    /\ said = [c \in Case |-> {}]

(* The case needs a person, or it needs none.                              *)
Submit(c) == Move(c, {"new"}, "open") \/ Move(c, {"new"}, "exempt")

(* Somebody presses approve.  It decides the case if it is the first        *)
(* decision and counts; the case may also not be listening yet.             *)
Press(c, u) ==
    /\ said' = [said EXCEPT ![c] = @ \cup {u}]
    /\ \/ UNCHANGED status
       \/ /\ u \in Approvers
          /\ status[c] = "open"
          /\ status' = [status EXCEPT ![c] = "approved"]

Refuse(c) == Move(c, {"open"}, "refused")

(* A lock, a sweep or the end of a stream takes cases back, the approved    *)
(* ones included.                                                           *)
Withdraw ==
    /\ UNCHANGED said
    /\ \E C \in SUBSET {c \in Case : status[c] \in Open} :
           status' = [c \in Case |-> IF c \in C THEN "withdrawn" ELSE status[c]]

Grant(c) == Move(c, {"approved"}, "granted")

Deny(c) == Move(c, Open \cup {"new"}, "denied")

Next ==
    \/ Withdraw
    \/ \E c \in Case : Submit(c) \/ Refuse(c) \/ Grant(c) \/ Deny(c)
    \/ \E c \in Case, u \in Person : Press(c, u)

Spec == Init /\ [][Next]_vars

----------------------------------------------------------------------------
(* A case that was carried out had the approval of somebody who may decide. *)
GrantedWasApproved ==
    \A c \in Case : status[c] \in {"approved", "granted"} => said[c] \cap Approvers # {}
============================================================================
