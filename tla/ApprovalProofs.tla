--------------------------- MODULE ApprovalProofs ---------------------------
(* What follows from the promise of Approval.                              *)
EXTENDS Approval, TLAPS

(* Approved cases were approved, and the variables are functions of cases.  *)
PromiseInv ==
    /\ status \in [Case -> Status]
    /\ said \in [Case -> SUBSET Person]
    /\ GrantedWasApproved

(* A step that moves one case keeps the invariant if the case does not      *)
(* become approved by it, or granted without having been approved.          *)
LEMMA MoveKeeps ==
    ASSUME NEW c \in Case, NEW from, NEW to \in Status,
           PromiseInv, Move(c, from, to),
           to # "approved",
           to = "granted" => from = {"approved"}
    PROVE  PromiseInv'
  BY DEF PromiseInv, Move, GrantedWasApproved

(* Whatever implements Approval carries a case out only if somebody who may *)
(* decide has approved it, however refusals, withdrawals and late answers    *)
(* are ordered.                                                             *)
THEOREM GrantsAreApproved == Spec => []GrantedWasApproved
<1>1. Init => PromiseInv
  BY DEF Init, PromiseInv, GrantedWasApproved, Status
<1>2. PromiseInv /\ [Next]_vars => PromiseInv'
  <2> SUFFICES ASSUME PromiseInv, [Next]_vars
               PROVE  PromiseInv'
    OBVIOUS
  <2>1. ASSUME NEW c \in Case, Submit(c)
        PROVE  PromiseInv'
    BY <2>1, MoveKeeps DEF Submit, Status, Open
  <2>2. ASSUME NEW c \in Case, Refuse(c)
        PROVE  PromiseInv'
    BY <2>2, MoveKeeps DEF Refuse, Status, Open
  <2>3. ASSUME NEW c \in Case, Grant(c)
        PROVE  PromiseInv'
    BY <2>3, MoveKeeps DEF Grant, Status, Open
  <2>4. ASSUME NEW c \in Case, Deny(c)
        PROVE  PromiseInv'
    BY <2>4, MoveKeeps DEF Deny, Status, Open
  <2>5. ASSUME NEW c \in Case, NEW u \in Person, Press(c, u)
        PROVE  PromiseInv'
    BY <2>5 DEF Press, Status, Open, PromiseInv, GrantedWasApproved
  <2>6. CASE Withdraw
    BY <2>6 DEF Withdraw, Status, Open, PromiseInv, GrantedWasApproved
  <2>7. CASE UNCHANGED vars
    BY <2>7 DEF vars, PromiseInv, GrantedWasApproved
  <2> QED
    BY <2>1, <2>2, <2>3, <2>4, <2>5, <2>6, <2>7 DEF Next
<1>3. PromiseInv => GrantedWasApproved
  BY DEF PromiseInv
<1> QED
  BY <1>1, <1>2, <1>3, PTL DEF Spec
=============================================================================
