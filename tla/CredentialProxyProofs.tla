----------------------- MODULE CredentialProxyProofs -----------------------
(***************************************************************************)
(* Proofs about the credential path, for every set of requests, members    *)
(* and approvers and every bound on the unlock generation.                 *)
(***************************************************************************)
EXTENDS CredentialRefinesApproval, TLAPS

(* A step of the specification is a step of one of the listed actions, or  *)
(* stutters; the invariance proofs split on it.                            *)
LEMMA StepCases ==
    ASSUME [Next]_vars
    PROVE  \/ \E r \in Req :
              \/ Start(r) \/ Gate(r) \/ UnlockAsk(r) \/ UnlockRegister(r)
              \/ UnlockGiveUp(r) \/ UnlockWake(r) \/ UnlockTimeout(r) \/ CreatePending(r)
              \/ Ask(r) \/ AskFailed(r) \/ RegisterMsg(r) \/ RevokeRegister(r)
              \/ Wake(r) \/ Timeout(r) \/ Expired(r) \/ Final(r)
              \/ AutoGate(r) \/ AutoUnlock(r) \/ AutoWake(r) \/ AutoUnsealOk(r)
              \/ AutoUnsealFail(r) \/ QueryEnter(r) \/ Open(r) \/ CacheHandle(r)
              \/ Find(r) \/ Tokenize(r) \/ ReactUnlockApprove(r) \/ ReactUnlockReject(r)
           \/ \E g \in 1..MaxGen : DoUnlockOk(g) \/ DoUnlockFail(g)
           \/ \E m \in Req, u \in User, key \in Reactions : ReactApproval(m, u, key)
           \/ RateIntervalPasses \/ LockProxy \/ Shutdown
           \/ UNCHANGED vars
  BY DEF Next, Handler, UnlockTask, Room

(* Every variable keeps its type: in particular the handlers reach only the *)
(* listed suspension points, and message and event references always name   *)
(* a request.                                                               *)
THEOREM TypeCorrect == Spec => []TypeOK
<1>1. Init => TypeOK
  <2>1. Init => RequestTypes /\ RoomTypes
    BY DEF Init, RequestTypes, RoomTypes, Points, Answers, AllKinds
  <2>2. Init => FlagTypes
    BY DEF Init, FlagTypes
  <2>3. Init => UnlockTypes /\ PendingTypes
    BY ProxyAssumption DEF Init, UnlockTypes, PendingTypes
  <2> QED BY <2>1, <2>2, <2>3 DEF TypeOK
<1>2. TypeOK /\ [Next]_vars => TypeOK'
  <2> SUFFICES ASSUME TypeOK, [Next]_vars PROVE TypeOK'
    OBVIOUS
  <2> USE ProxyAssumption DEF TypeOK, RequestTypes, FlagTypes, UnlockTypes,
      PendingTypes, RoomTypes, Points, Answers, AllKinds, requestVars,
      unlockVars, pendingVars, roomVars, syncVars
  <2>1. ASSUME NEW r \in Req, Start(r) PROVE TypeOK'
    BY <2>1 DEF Start, Goto
  <2>2. ASSUME NEW r \in Req, Gate(r) PROVE TypeOK'
    <3>1. RequestTypes'
      BY <2>2 DEF Gate, Goto
    <3>2. FlagTypes' /\ UnlockTypes' /\ PendingTypes' /\ RoomTypes'
      BY <2>2, ZenonT(40) DEF Gate
    <3> QED BY <3>1, <3>2
  <2>3. ASSUME NEW r \in Req, UnlockAsk(r) PROVE TypeOK'
    BY <2>3 DEF UnlockAsk, Goto
  <2>4. ASSUME NEW r \in Req, UnlockRegister(r) PROVE TypeOK'
    BY <2>4 DEF UnlockRegister, Goto
  <2>5. ASSUME NEW r \in Req, UnlockGiveUp(r) PROVE TypeOK'
    BY <2>5 DEF UnlockGiveUp, Goto, AbandonUnlock, WithUnlockEventSet
  <2>6. ASSUME NEW r \in Req, UnlockWake(r) PROVE TypeOK'
    BY <2>6 DEF UnlockWake, Goto
  <2>7. ASSUME NEW r \in Req, UnlockTimeout(r) PROVE TypeOK'
    BY <2>7 DEF UnlockTimeout, Goto
  <2>8. ASSUME NEW r \in Req, CreatePending(r) PROVE TypeOK'
    BY <2>8 DEF CreatePending, Goto
  <2>9. ASSUME NEW r \in Req, Ask(r) PROVE TypeOK'
    BY <2>9 DEF Ask, Goto
  <2>10. ASSUME NEW r \in Req, AskFailed(r) PROVE TypeOK'
    BY <2>10 DEF AskFailed, Goto, Cleanup
  <2>11. ASSUME NEW r \in Req, RegisterMsg(r) PROVE TypeOK'
    BY <2>11 DEF RegisterMsg, Goto
  <2>12. ASSUME NEW r \in Req, RevokeRegister(r) PROVE TypeOK'
    BY <2>12 DEF RevokeRegister, Goto
  <2>13. ASSUME NEW r \in Req, Wake(r) PROVE TypeOK'
    BY <2>13 DEF Wake, Goto
  <2>14. ASSUME NEW r \in Req, Timeout(r) PROVE TypeOK'
    BY <2>14 DEF Timeout, Goto
  <2>15. ASSUME NEW r \in Req, Expired(r) PROVE TypeOK'
    BY <2>15 DEF Expired, Goto, Cleanup
  <2>16. ASSUME NEW r \in Req, Final(r) PROVE TypeOK'
    BY <2>16 DEF Final, Goto, Cleanup
  <2>17. ASSUME NEW r \in Req, AutoGate(r) PROVE TypeOK'
    BY <2>17 DEF AutoGate, Goto
  <2>18. ASSUME NEW r \in Req, AutoUnlock(r) PROVE TypeOK'
    <3>1. RequestTypes'
      BY <2>18 DEF AutoUnlock, Goto
    <3>2. UnlockTypes'
      BY <2>18 DEF AutoUnlock
    <3>3. FlagTypes' /\ PendingTypes' /\ RoomTypes'
      BY <2>18 DEF AutoUnlock
    <3> QED BY <3>1, <3>2, <3>3
  <2>19. ASSUME NEW r \in Req, AutoWake(r) PROVE TypeOK'
    BY <2>19 DEF AutoWake, Goto
  <2>20. ASSUME NEW r \in Req, AutoUnsealOk(r) PROVE TypeOK'
    BY <2>20, ZenonT(40) DEF AutoUnsealOk, Goto, LoadPassword, WithUnlockEventSet
  <2>21. ASSUME NEW r \in Req, AutoUnsealFail(r) PROVE TypeOK'
    BY <2>21 DEF AutoUnsealFail, Goto, AbandonUnlock, WithUnlockEventSet
  <2>22. ASSUME NEW r \in Req, QueryEnter(r) PROVE TypeOK'
    BY <2>22 DEF QueryEnter, Goto
  <2>23. ASSUME NEW r \in Req, Open(r) PROVE TypeOK'
    BY <2>23 DEF Open, Goto
  <2>24. ASSUME NEW r \in Req, CacheHandle(r) PROVE TypeOK'
    BY <2>24 DEF CacheHandle, Goto
  <2>25. ASSUME NEW r \in Req, Find(r) PROVE TypeOK'
    BY <2>25 DEF Find, Goto
  <2>26. ASSUME NEW r \in Req, Tokenize(r) PROVE TypeOK'
    BY <2>26 DEF Tokenize, Goto
  <2>27. ASSUME NEW g \in 1..MaxGen, DoUnlockOk(g) PROVE TypeOK'
    BY <2>27, ZenonT(40) DEF DoUnlockOk, LoadPassword, WithUnlockEventSet
  <2>28. ASSUME NEW g \in 1..MaxGen, DoUnlockFail(g) PROVE TypeOK'
    BY <2>28 DEF DoUnlockFail, AbandonUnlock, WithUnlockEventSet
  <2>29. ASSUME RateIntervalPasses PROVE TypeOK'
    BY <2>29, ZenonT(40) DEF RateIntervalPasses
  <2>30. ASSUME NEW r \in Req, ReactUnlockApprove(r) PROVE TypeOK'
    BY <2>30 DEF ReactUnlockApprove, OnUnlockMsg
  <2>31. ASSUME NEW r \in Req, ReactUnlockReject(r) PROVE TypeOK'
    BY <2>31 DEF ReactUnlockReject, OnUnlockMsg, AbandonUnlock,
        WithUnlockEventSet
  <2>32. ASSUME NEW m \in Req, NEW u \in User, NEW key \in Reactions,
               ReactApproval(m, u, key)
        PROVE  TypeOK'
    BY <2>32 DEF ReactApproval
  <2>33. ASSUME LockProxy PROVE TypeOK'
    BY <2>33 DEF LockProxy, AbandonUnlock, WithUnlockEventSet
  <2>34. ASSUME Shutdown PROVE TypeOK'
    BY <2>34 DEF Shutdown, WithUnlockEventSet
  <2>35. CASE UNCHANGED vars
    BY <2>35 DEF vars
  <2> QED
    BY <2>1, <2>2, <2>3, <2>4, <2>5, <2>6, <2>7, <2>8, <2>9, <2>10, <2>11,
        <2>12, <2>13, <2>14, <2>15, <2>16, <2>17, <2>18, <2>19, <2>20, <2>21,
        <2>22, <2>23, <2>24, <2>25, <2>26, <2>27, <2>28, <2>29, <2>30, <2>31,
        <2>32, <2>33, <2>34, <2>35, StepCases
<1> QED BY <1>1, <1>2, PTL DEF Spec

(* The invariant that carries the approval properties: messages point to    *)
(* their own requests, entries exist only in the approval stage, an entry   *)
(* is granted only by an approver's press on its message, and only such a   *)
(* grant (or the registry) lets a handler past the approval.                *)
THEOREM ApprovalInvariant == Spec => []ApprovalInv
<1>1. Init => ApprovalInv
  BY ProxyAssumption DEF Init, ApprovalInv, MsgsInv, EntriesInv, GrantInv,
      KindInv, DecisionWakes, ReleaseNeedsOwnApproval, PastApproval,
      ApprovalStage, AutoStage, Answers
<1>2. TypeOK /\ ApprovalInv /\ [Next]_vars => ApprovalInv'
  <2> SUFFICES ASSUME TypeOK, ApprovalInv, [Next]_vars PROVE ApprovalInv'
    OBVIOUS
  <2> USE ProxyAssumption DEF TypeOK, RequestTypes, PendingTypes, ApprovalInv,
      MsgsInv, EntriesInv, GrantInv, KindInv, DecisionWakes,
      ReleaseNeedsOwnApproval, PastApproval, ApprovalStage, AutoStage,
      AllKinds, Answers, requestVars, unlockVars, pendingVars, roomVars,
      syncVars
  <2>1. ASSUME NEW r \in Req, Start(r) PROVE ApprovalInv'
    BY <2>1 DEF Start, Goto
  <2>2. ASSUME NEW r \in Req, Gate(r) PROVE ApprovalInv'
    BY <2>2 DEF Gate, Goto
  <2>3. ASSUME NEW r \in Req, UnlockAsk(r) PROVE ApprovalInv'
    BY <2>3 DEF UnlockAsk, Goto
  <2>4. ASSUME NEW r \in Req, UnlockRegister(r) PROVE ApprovalInv'
    BY <2>4 DEF UnlockRegister, Goto
  <2>5. ASSUME NEW r \in Req, UnlockGiveUp(r) PROVE ApprovalInv'
    BY <2>5 DEF UnlockGiveUp, Goto, AbandonUnlock, WithUnlockEventSet
  <2>6. ASSUME NEW r \in Req, UnlockWake(r) PROVE ApprovalInv'
    BY <2>6 DEF UnlockWake, Goto
  <2>7. ASSUME NEW r \in Req, UnlockTimeout(r) PROVE ApprovalInv'
    BY <2>7 DEF UnlockTimeout, Goto
  <2>8. ASSUME NEW r \in Req, CreatePending(r) PROVE ApprovalInv'
    BY <2>8 DEF CreatePending, Goto
  <2>9. ASSUME NEW r \in Req, Ask(r) PROVE ApprovalInv'
    BY <2>9 DEF Ask, Goto
  <2>10. ASSUME NEW r \in Req, AskFailed(r) PROVE ApprovalInv'
    BY <2>10 DEF AskFailed, Goto, Cleanup
  <2>11. ASSUME NEW r \in Req, RegisterMsg(r) PROVE ApprovalInv'
    BY <2>11 DEF RegisterMsg, Goto
  <2>12. ASSUME NEW r \in Req, RevokeRegister(r) PROVE ApprovalInv'
    BY <2>12 DEF RevokeRegister, Goto
  <2>13. ASSUME NEW r \in Req, Wake(r) PROVE ApprovalInv'
    BY <2>13 DEF Wake, Goto
  <2>14. ASSUME NEW r \in Req, Timeout(r) PROVE ApprovalInv'
    BY <2>14 DEF Timeout, Goto
  <2>15. ASSUME NEW r \in Req, Expired(r) PROVE ApprovalInv'
    BY <2>15 DEF Expired, Goto, Cleanup
  <2>16. ASSUME NEW r \in Req, Final(r) PROVE ApprovalInv'
    BY <2>16 DEF Final, Goto, Cleanup
  <2>17. ASSUME NEW r \in Req, AutoGate(r) PROVE ApprovalInv'
    BY <2>17 DEF AutoGate, Goto
  <2>18. ASSUME NEW r \in Req, AutoUnlock(r) PROVE ApprovalInv'
    BY <2>18 DEF AutoUnlock, Goto
  <2>19. ASSUME NEW r \in Req, AutoWake(r) PROVE ApprovalInv'
    BY <2>19 DEF AutoWake, Goto
  <2>20. ASSUME NEW r \in Req, AutoUnsealOk(r) PROVE ApprovalInv'
    BY <2>20 DEF AutoUnsealOk, Goto, LoadPassword, WithUnlockEventSet
  <2>21. ASSUME NEW r \in Req, AutoUnsealFail(r) PROVE ApprovalInv'
    BY <2>21 DEF AutoUnsealFail, Goto, AbandonUnlock, WithUnlockEventSet
  <2>22. ASSUME NEW r \in Req, QueryEnter(r) PROVE ApprovalInv'
    BY <2>22 DEF QueryEnter, Goto
  <2>23. ASSUME NEW r \in Req, Open(r) PROVE ApprovalInv'
    BY <2>23 DEF Open, Goto
  <2>24. ASSUME NEW r \in Req, CacheHandle(r) PROVE ApprovalInv'
    BY <2>24 DEF CacheHandle, Goto
  <2>25. ASSUME NEW r \in Req, Find(r) PROVE ApprovalInv'
    BY <2>25 DEF Find, Goto
  <2>26. ASSUME NEW r \in Req, Tokenize(r) PROVE ApprovalInv'
    BY <2>26 DEF Tokenize, Goto
  <2>27. ASSUME NEW g \in 1..MaxGen, DoUnlockOk(g) PROVE ApprovalInv'
    BY <2>27 DEF DoUnlockOk, LoadPassword, WithUnlockEventSet
  <2>28. ASSUME NEW g \in 1..MaxGen, DoUnlockFail(g) PROVE ApprovalInv'
    BY <2>28 DEF DoUnlockFail, AbandonUnlock, WithUnlockEventSet
  <2>29. ASSUME RateIntervalPasses PROVE ApprovalInv'
    BY <2>29 DEF RateIntervalPasses
  <2>30. ASSUME NEW r \in Req, ReactUnlockApprove(r) PROVE ApprovalInv'
    BY <2>30 DEF ReactUnlockApprove, OnUnlockMsg
  <2>31. ASSUME NEW r \in Req, ReactUnlockReject(r) PROVE ApprovalInv'
    BY <2>31 DEF ReactUnlockReject, OnUnlockMsg, AbandonUnlock,
        WithUnlockEventSet
  <2>32. ASSUME NEW m \in Req, NEW u \in User, NEW key \in Reactions,
               ReactApproval(m, u, key)
        PROVE  ApprovalInv'
    <3> DEFINE r == approvalMsgs[m]
    <3>1. MsgsInv' /\ EntriesInv' /\ KindInv' /\ DecisionWakes'
      BY <2>32 DEF ReactApproval
    <3>2. \A q \in Req : pressed[q] \subseteq pressed'[q]
      BY <2>32 DEF ReactApproval, RoomTypes
    <3>3. ReleaseNeedsOwnApproval'
      BY <2>32, <3>2 DEF ReactApproval, MayApprove
    <3>4. GrantInv'
      <4>1. ASSUME NEW q \in Req, pending'[q] = "yes", pending[q] # "yes"
            PROVE  \E v \in pressed'[q] : MayApprove(v)
        <5>1. q = m /\ key = "approve" /\ MayApprove(u)
          BY <2>32, <4>1 DEF ReactApproval
        <5>2. u \in pressed'[m]
          BY <2>32, <5>1 DEF ReactApproval, RoomTypes
        <5> QED BY <5>1, <5>2
      <4>2. ASSUME NEW q \in Req, pending[q] = "yes"
            PROVE  \E v \in pressed'[q] : MayApprove(v)
        BY <4>2, <3>2
      <4> QED BY <4>1, <4>2 DEF MayApprove
    <3> QED BY <3>1, <3>3, <3>4
  <2>33. ASSUME LockProxy PROVE ApprovalInv'
    BY <2>33 DEF LockProxy, AbandonUnlock, WithUnlockEventSet
  <2>34. ASSUME Shutdown PROVE ApprovalInv'
    BY <2>34 DEF Shutdown, WithUnlockEventSet
  <2>35. CASE UNCHANGED vars
    BY <2>35 DEF vars
  <2> QED
    BY <2>1, <2>2, <2>3, <2>4, <2>5, <2>6, <2>7, <2>8, <2>9, <2>10, <2>11,
        <2>12, <2>13, <2>14, <2>15, <2>16, <2>17, <2>18, <2>19, <2>20, <2>21,
        <2>22, <2>23, <2>24, <2>25, <2>26, <2>27, <2>28, <2>29, <2>30, <2>31,
        <2>32, <2>33, <2>34, <2>35, StepCases
<1> QED BY TypeCorrect, <1>1, <1>2, PTL DEF Spec

(* A request that needs a person is carried out only after an approver      *)
(* pressed approve on its own message.                                      *)
THEOREM ReleaseIsApproved == Spec => []ReleaseNeedsOwnApproval
<1>1. ApprovalInv => ReleaseNeedsOwnApproval
  BY DEF ApprovalInv
<1> QED BY <1>1, ApprovalInvariant, PTL

(* A request refused first, or waiting at a `lock proxy`, is never carried  *)
(* out.                                                                     *)
THEOREM CancelledIsFinal == Spec => []CancelledNeverReleased
<1>1. ApprovalInv => CancelledNeverReleased
  BY DEF ApprovalInv, EntriesInv, CancelledNeverReleased, PastApproval, ApprovalStage,
      Answers
<1> QED BY <1>1, ApprovalInvariant, PTL

(* An answered request leaves no entry in pending_requests and no message   *)
(* in approval_msgs.                                                        *)
THEOREM AnsweredLeavesNothing == Spec => []NoLeftovers
<1>1. ApprovalInv => NoLeftovers
  BY ProxyAssumption DEF ApprovalInv, EntriesInv, MsgsInv, NoLeftovers, ApprovalStage,
      Answers
<1> QED BY <1>1, ApprovalInvariant, PTL

(* A decision recorded in a pending entry always wakes its handler.         *)
THEOREM DecisionsWake == Spec => []DecisionWakes
<1>1. ApprovalInv => DecisionWakes
  BY DEF ApprovalInv
<1> QED BY <1>1, ApprovalInvariant, PTL

(* The invariant that carries the unlock properties: a waiter's event is    *)
(* set or current, and the current event is set while the password is       *)
(* loaded.                                                                  *)
THEOREM UnlockInvariant == Spec => []UnlockInv
<1>1. Init => UnlockInv
  BY DEF Init, UnlockInv, NoOrphanedWaiter, UnlockStage
<1>2. TypeOK /\ UnlockInv /\ [Next]_vars => UnlockInv'
  <2> SUFFICES ASSUME TypeOK, UnlockInv, [Next]_vars PROVE UnlockInv'
    OBVIOUS
  <2> USE ProxyAssumption DEF TypeOK, RequestTypes, UnlockTypes, UnlockInv,
      NoOrphanedWaiter, UnlockStage, requestVars, unlockVars
  <2>1. ASSUME NEW r \in Req, Start(r) PROVE UnlockInv'
    BY <2>1 DEF Start, Goto
  <2>2. ASSUME NEW r \in Req, Gate(r) PROVE UnlockInv'
    BY <2>2 DEF Gate, Goto
  <2>3. ASSUME NEW r \in Req, UnlockAsk(r) PROVE UnlockInv'
    BY <2>3 DEF UnlockAsk, Goto
  <2>4. ASSUME NEW r \in Req, UnlockRegister(r) PROVE UnlockInv'
    BY <2>4 DEF UnlockRegister, Goto
  <2>5. ASSUME NEW r \in Req, UnlockGiveUp(r) PROVE UnlockInv'
    BY <2>5 DEF UnlockGiveUp, Goto, AbandonUnlock, WithUnlockEventSet
  <2>6. ASSUME NEW r \in Req, UnlockWake(r) PROVE UnlockInv'
    BY <2>6 DEF UnlockWake, Goto
  <2>7. ASSUME NEW r \in Req, UnlockTimeout(r) PROVE UnlockInv'
    BY <2>7 DEF UnlockTimeout, Goto
  <2>8. ASSUME NEW r \in Req, CreatePending(r) PROVE UnlockInv'
    BY <2>8 DEF CreatePending, Goto
  <2>9. ASSUME NEW r \in Req, Ask(r) PROVE UnlockInv'
    BY <2>9 DEF Ask, Goto
  <2>10. ASSUME NEW r \in Req, AskFailed(r) PROVE UnlockInv'
    BY <2>10 DEF AskFailed, Goto, Cleanup
  <2>11. ASSUME NEW r \in Req, RegisterMsg(r) PROVE UnlockInv'
    BY <2>11 DEF RegisterMsg, Goto
  <2>12. ASSUME NEW r \in Req, RevokeRegister(r) PROVE UnlockInv'
    BY <2>12 DEF RevokeRegister, Goto
  <2>13. ASSUME NEW r \in Req, Wake(r) PROVE UnlockInv'
    BY <2>13 DEF Wake, Goto
  <2>14. ASSUME NEW r \in Req, Timeout(r) PROVE UnlockInv'
    BY <2>14 DEF Timeout, Goto
  <2>15. ASSUME NEW r \in Req, Expired(r) PROVE UnlockInv'
    BY <2>15 DEF Expired, Goto, Cleanup
  <2>16. ASSUME NEW r \in Req, Final(r) PROVE UnlockInv'
    BY <2>16 DEF Final, Goto, Cleanup
  <2>17. ASSUME NEW r \in Req, AutoGate(r) PROVE UnlockInv'
    BY <2>17 DEF AutoGate, Goto
  <2>18. ASSUME NEW r \in Req, AutoUnlock(r) PROVE UnlockInv'
    BY <2>18 DEF AutoUnlock, Goto
  <2>19. ASSUME NEW r \in Req, AutoWake(r) PROVE UnlockInv'
    BY <2>19 DEF AutoWake, Goto
  <2>20. ASSUME NEW r \in Req, AutoUnsealOk(r) PROVE UnlockInv'
    BY <2>20 DEF AutoUnsealOk, Goto, LoadPassword, WithUnlockEventSet
  <2>21. ASSUME NEW r \in Req, AutoUnsealFail(r) PROVE UnlockInv'
    BY <2>21 DEF AutoUnsealFail, Goto, AbandonUnlock, WithUnlockEventSet
  <2>22. ASSUME NEW r \in Req, QueryEnter(r) PROVE UnlockInv'
    BY <2>22 DEF QueryEnter, Goto
  <2>23. ASSUME NEW r \in Req, Open(r) PROVE UnlockInv'
    BY <2>23 DEF Open, Goto
  <2>24. ASSUME NEW r \in Req, CacheHandle(r) PROVE UnlockInv'
    BY <2>24 DEF CacheHandle, Goto
  <2>25. ASSUME NEW r \in Req, Find(r) PROVE UnlockInv'
    BY <2>25 DEF Find, Goto
  <2>26. ASSUME NEW r \in Req, Tokenize(r) PROVE UnlockInv'
    BY <2>26 DEF Tokenize, Goto
  <2>27. ASSUME NEW g \in 1..MaxGen, DoUnlockOk(g) PROVE UnlockInv'
    BY <2>27 DEF DoUnlockOk, LoadPassword, WithUnlockEventSet
  <2>28. ASSUME NEW g \in 1..MaxGen, DoUnlockFail(g) PROVE UnlockInv'
    BY <2>28 DEF DoUnlockFail, AbandonUnlock, WithUnlockEventSet
  <2>29. ASSUME RateIntervalPasses PROVE UnlockInv'
    BY <2>29 DEF RateIntervalPasses
  <2>30. ASSUME NEW r \in Req, ReactUnlockApprove(r) PROVE UnlockInv'
    BY <2>30 DEF ReactUnlockApprove, OnUnlockMsg
  <2>31. ASSUME NEW r \in Req, ReactUnlockReject(r) PROVE UnlockInv'
    BY <2>31 DEF ReactUnlockReject, OnUnlockMsg, AbandonUnlock,
        WithUnlockEventSet
  <2>32. ASSUME NEW m \in Req, NEW u \in User, NEW key \in Reactions,
               ReactApproval(m, u, key)
        PROVE  UnlockInv'
    BY <2>32 DEF ReactApproval
  <2>33. ASSUME LockProxy PROVE UnlockInv'
    BY <2>33 DEF LockProxy, AbandonUnlock, WithUnlockEventSet
  <2>34. ASSUME Shutdown PROVE UnlockInv'
    BY <2>34 DEF Shutdown, WithUnlockEventSet
  <2>35. CASE UNCHANGED vars
    BY <2>35 DEF vars
  <2> QED
    BY <2>1, <2>2, <2>3, <2>4, <2>5, <2>6, <2>7, <2>8, <2>9, <2>10, <2>11,
        <2>12, <2>13, <2>14, <2>15, <2>16, <2>17, <2>18, <2>19, <2>20, <2>21,
        <2>22, <2>23, <2>24, <2>25, <2>26, <2>27, <2>28, <2>29, <2>30, <2>31,
        <2>32, <2>33, <2>34, <2>35, StepCases
<1> QED BY TypeCorrect, <1>1, <1>2, PTL DEF Spec

(* No handler waits for an unlock event that was replaced without being     *)
(* set.                                                                     *)
THEOREM WaitersAreNotOrphaned == Spec => []NoOrphanedWaiter
<1>1. UnlockInv => NoOrphanedWaiter
  BY DEF UnlockInv
<1> QED BY <1>1, UnlockInvariant, PTL

(* Loading the password leaves nobody waiting for it.                       *)
THEOREM UnlockWakesEveryWaiter == Spec => []UnlockedWakesAll
<1>1. UnlockInv => UnlockedWakesAll
  BY ProxyAssumption DEF UnlockInv, NoOrphanedWaiter, UnlockedWakesAll
<1> QED BY <1>1, UnlockInvariant, PTL

(* One handler at a time works on the KeePass file, and the semaphore is    *)
(* released on every way out.                                               *)
THEOREM KeePassIsExclusive == Spec => []KeePassExclusive
<1>1. Init => KeePassExclusive
  BY ProxyAssumption DEF Init, KeePassExclusive
<1>2. TypeOK /\ KeePassExclusive /\ [Next]_vars => KeePassExclusive'
  <2> SUFFICES ASSUME TypeOK, KeePassExclusive, [Next]_vars PROVE KeePassExclusive'
    OBVIOUS
  <2> USE ProxyAssumption DEF TypeOK, RequestTypes, RoomTypes, KeePassExclusive,
      requestVars, syncVars
  <2>1. ASSUME NEW r \in Req, Start(r) PROVE KeePassExclusive'
    BY <2>1 DEF Start, Goto
  <2>2. ASSUME NEW r \in Req, Gate(r) PROVE KeePassExclusive'
    BY <2>2 DEF Gate, Goto
  <2>3. ASSUME NEW r \in Req, UnlockAsk(r) PROVE KeePassExclusive'
    BY <2>3 DEF UnlockAsk, Goto
  <2>4. ASSUME NEW r \in Req, UnlockRegister(r) PROVE KeePassExclusive'
    BY <2>4 DEF UnlockRegister, Goto
  <2>5. ASSUME NEW r \in Req, UnlockGiveUp(r) PROVE KeePassExclusive'
    BY <2>5 DEF UnlockGiveUp, Goto, AbandonUnlock, WithUnlockEventSet
  <2>6. ASSUME NEW r \in Req, UnlockWake(r) PROVE KeePassExclusive'
    BY <2>6 DEF UnlockWake, Goto
  <2>7. ASSUME NEW r \in Req, UnlockTimeout(r) PROVE KeePassExclusive'
    BY <2>7 DEF UnlockTimeout, Goto
  <2>8. ASSUME NEW r \in Req, CreatePending(r) PROVE KeePassExclusive'
    BY <2>8 DEF CreatePending, Goto
  <2>9. ASSUME NEW r \in Req, Ask(r) PROVE KeePassExclusive'
    BY <2>9 DEF Ask, Goto
  <2>10. ASSUME NEW r \in Req, AskFailed(r) PROVE KeePassExclusive'
    BY <2>10 DEF AskFailed, Goto, Cleanup
  <2>11. ASSUME NEW r \in Req, RegisterMsg(r) PROVE KeePassExclusive'
    BY <2>11 DEF RegisterMsg, Goto
  <2>12. ASSUME NEW r \in Req, RevokeRegister(r) PROVE KeePassExclusive'
    BY <2>12 DEF RevokeRegister, Goto
  <2>13. ASSUME NEW r \in Req, Wake(r) PROVE KeePassExclusive'
    BY <2>13 DEF Wake, Goto
  <2>14. ASSUME NEW r \in Req, Timeout(r) PROVE KeePassExclusive'
    BY <2>14 DEF Timeout, Goto
  <2>15. ASSUME NEW r \in Req, Expired(r) PROVE KeePassExclusive'
    BY <2>15 DEF Expired, Goto, Cleanup
  <2>16. ASSUME NEW r \in Req, Final(r) PROVE KeePassExclusive'
    BY <2>16 DEF Final, Goto, Cleanup
  <2>17. ASSUME NEW r \in Req, AutoGate(r) PROVE KeePassExclusive'
    BY <2>17 DEF AutoGate, Goto
  <2>18. ASSUME NEW r \in Req, AutoUnlock(r) PROVE KeePassExclusive'
    BY <2>18 DEF AutoUnlock, Goto
  <2>19. ASSUME NEW r \in Req, AutoWake(r) PROVE KeePassExclusive'
    BY <2>19 DEF AutoWake, Goto
  <2>20. ASSUME NEW r \in Req, AutoUnsealOk(r) PROVE KeePassExclusive'
    BY <2>20 DEF AutoUnsealOk, Goto, LoadPassword, WithUnlockEventSet
  <2>21. ASSUME NEW r \in Req, AutoUnsealFail(r) PROVE KeePassExclusive'
    BY <2>21 DEF AutoUnsealFail, Goto, AbandonUnlock, WithUnlockEventSet
  <2>22. ASSUME NEW r \in Req, QueryEnter(r) PROVE KeePassExclusive'
    BY <2>22 DEF QueryEnter, Goto
  <2>23. ASSUME NEW r \in Req, Open(r) PROVE KeePassExclusive'
    BY <2>23 DEF Open, Goto
  <2>24. ASSUME NEW r \in Req, CacheHandle(r) PROVE KeePassExclusive'
    BY <2>24 DEF CacheHandle, Goto
  <2>25. ASSUME NEW r \in Req, Find(r) PROVE KeePassExclusive'
    BY <2>25 DEF Find, Goto
  <2>26. ASSUME NEW r \in Req, Tokenize(r) PROVE KeePassExclusive'
    BY <2>26 DEF Tokenize, Goto
  <2>27. ASSUME NEW g \in 1..MaxGen, DoUnlockOk(g) PROVE KeePassExclusive'
    BY <2>27 DEF DoUnlockOk, LoadPassword, WithUnlockEventSet
  <2>28. ASSUME NEW g \in 1..MaxGen, DoUnlockFail(g) PROVE KeePassExclusive'
    BY <2>28 DEF DoUnlockFail, AbandonUnlock, WithUnlockEventSet
  <2>29. ASSUME RateIntervalPasses PROVE KeePassExclusive'
    BY <2>29 DEF RateIntervalPasses
  <2>30. ASSUME NEW r \in Req, ReactUnlockApprove(r) PROVE KeePassExclusive'
    BY <2>30 DEF ReactUnlockApprove, OnUnlockMsg
  <2>31. ASSUME NEW r \in Req, ReactUnlockReject(r) PROVE KeePassExclusive'
    BY <2>31 DEF ReactUnlockReject, OnUnlockMsg, AbandonUnlock,
        WithUnlockEventSet
  <2>32. ASSUME NEW m \in Req, NEW u \in User, NEW key \in Reactions,
               ReactApproval(m, u, key)
        PROVE  KeePassExclusive'
    BY <2>32 DEF ReactApproval
  <2>33. ASSUME LockProxy PROVE KeePassExclusive'
    BY <2>33 DEF LockProxy, AbandonUnlock, WithUnlockEventSet
  <2>34. ASSUME Shutdown PROVE KeePassExclusive'
    BY <2>34 DEF Shutdown, WithUnlockEventSet
  <2>35. CASE UNCHANGED vars
    BY <2>35 DEF vars
  <2> QED
    BY <2>1, <2>2, <2>3, <2>4, <2>5, <2>6, <2>7, <2>8, <2>9, <2>10, <2>11,
        <2>12, <2>13, <2>14, <2>15, <2>16, <2>17, <2>18, <2>19, <2>20, <2>21,
        <2>22, <2>23, <2>24, <2>25, <2>26, <2>27, <2>28, <2>29, <2>30, <2>31,
        <2>32, <2>33, <2>34, <2>35, StepCases
<1> QED BY TypeCorrect, <1>1, <1>2, PTL DEF Spec

----------------------------------------------------------------------------
(* Generations, and waiting on the lock                                     *)

(* The lock never remembers a generation that is still to come.             *)
GenerationInv == lockGen <= gen /\ OutdatedUnlockLoadsNothing

(* Whoever waits inside the locked block holds the lock, nobody else keeps  *)
(* it, and they got there with can_auto_unlock.                             *)
SleepInv ==
    /\ \A q \in Req : pc[q] = "autoUnlock" => kind[q] = "autoUnlock"
    /\ LockKeeper

(* What holds of every step: both invariants are kept, and a handler asleep *)
(* on the lock stays asleep.                                                *)
Sound ==
    /\ GenerationInv' /\ SleepInv'
    /\ \A q \in Req : AsleepOnLock(q) => AsleepOnLock(q)'

(* Every action is sound: those that set an event or load the password need *)
(* the free lock.                                                           *)
LEMMA SoundSteps ==
    ASSUME TypeOK, GenerationInv, SleepInv, [Next]_vars
    PROVE  Sound
<1> USE ProxyAssumption DEF TypeOK, RequestTypes, RoomTypes, UnlockTypes, GenerationInv,
    OutdatedUnlockLoadsNothing, SleepInv, LockKeeper, AsleepOnLock, Sound, Free,
    requestVars, syncVars, unlockVars
<1>1. ASSUME NEW r \in Req, Start(r) PROVE Sound
  BY <1>1 DEF Start, Goto
<1>2. ASSUME NEW r \in Req, Gate(r) PROVE Sound
  BY <1>2 DEF Gate, Goto
<1>3. ASSUME NEW r \in Req, UnlockAsk(r) PROVE Sound
  BY <1>3 DEF UnlockAsk, Goto
<1>4. ASSUME NEW r \in Req, UnlockRegister(r) PROVE Sound
  BY <1>4 DEF UnlockRegister, Goto
<1>5. ASSUME NEW r \in Req, UnlockGiveUp(r) PROVE Sound
  BY <1>5 DEF UnlockGiveUp, Goto, AbandonUnlock, WithUnlockEventSet
<1>6. ASSUME NEW r \in Req, UnlockWake(r) PROVE Sound
  BY <1>6 DEF UnlockWake, Goto
<1>7. ASSUME NEW r \in Req, UnlockTimeout(r) PROVE Sound
  BY <1>7 DEF UnlockTimeout, Goto
<1>8. ASSUME NEW r \in Req, CreatePending(r) PROVE Sound
  BY <1>8 DEF CreatePending, Goto
<1>9. ASSUME NEW r \in Req, Ask(r) PROVE Sound
  BY <1>9 DEF Ask, Goto
<1>10. ASSUME NEW r \in Req, AskFailed(r) PROVE Sound
  BY <1>10 DEF AskFailed, Goto, Cleanup
<1>11. ASSUME NEW r \in Req, RegisterMsg(r) PROVE Sound
  BY <1>11 DEF RegisterMsg, Goto
<1>12. ASSUME NEW r \in Req, RevokeRegister(r) PROVE Sound
  BY <1>12 DEF RevokeRegister, Goto
<1>13. ASSUME NEW r \in Req, Wake(r) PROVE Sound
  BY <1>13 DEF Wake, Goto
<1>14. ASSUME NEW r \in Req, Timeout(r) PROVE Sound
  BY <1>14 DEF Timeout, Goto
<1>15. ASSUME NEW r \in Req, Expired(r) PROVE Sound
  BY <1>15 DEF Expired, Goto, Cleanup
<1>16. ASSUME NEW r \in Req, Final(r) PROVE Sound
  BY <1>16 DEF Final, Goto, Cleanup
<1>17. ASSUME NEW r \in Req, AutoGate(r) PROVE Sound
  BY <1>17 DEF AutoGate, Goto
<1>18. ASSUME NEW r \in Req, AutoUnlock(r) PROVE Sound
  <2> HIDE DEF TypeOK, GenerationInv
  <2>1. GenerationInv'
    BY <1>18 DEF AutoUnlock, TypeOK, GenerationInv
  <2>2. pc[r] = "autoUnlock" /\ kind[r] = "autoUnlock" /\ lock = NoReq
    BY <1>18 DEF AutoUnlock
  <2>3. /\ kind' = kind
        /\ \/ lock' = r /\ pc' = [pc EXCEPT ![r] = "autoWait"]
           \/ lock' = lock /\ pc' = [pc EXCEPT ![r] = "autoUnseal"]
    BY <1>18 DEF AutoUnlock, Goto
  <2>4. \A q \in Req : pc'[q] = "autoUnlock" => kind'[q] = "autoUnlock"
    BY <2>3 DEF TypeOK
  <2>5. \A q \in Req : lock' = q <=> pc'[q] = "autoWait"
    BY <2>2, <2>3 DEF TypeOK
  <2>6. \A q \in Req : lock' = q => kind'[q] = "autoUnlock"
    BY <2>2, <2>3
  <2>7. \A q \in Req : ~AsleepOnLock(q)
    BY <2>2
  <2> QED BY <2>1, <2>4, <2>5, <2>6, <2>7
<1>19. ASSUME NEW r \in Req, AutoWake(r) PROVE Sound
  BY <1>19 DEF AutoWake, Goto
<1>20. ASSUME NEW r \in Req, AutoUnsealOk(r) PROVE Sound
  BY <1>20 DEF AutoUnsealOk, Goto, LoadPassword, WithUnlockEventSet
<1>21. ASSUME NEW r \in Req, AutoUnsealFail(r) PROVE Sound
  BY <1>21 DEF AutoUnsealFail, Goto, AbandonUnlock, WithUnlockEventSet
<1>22. ASSUME NEW r \in Req, QueryEnter(r) PROVE Sound
  BY <1>22 DEF QueryEnter, Goto
<1>23. ASSUME NEW r \in Req, Open(r) PROVE Sound
  BY <1>23 DEF Open, Goto
<1>24. ASSUME NEW r \in Req, CacheHandle(r) PROVE Sound
  BY <1>24 DEF CacheHandle, Goto
<1>25. ASSUME NEW r \in Req, Find(r) PROVE Sound
  BY <1>25 DEF Find, Goto
<1>26. ASSUME NEW r \in Req, Tokenize(r) PROVE Sound
  BY <1>26 DEF Tokenize, Goto
<1>27. ASSUME NEW g \in 1..MaxGen, DoUnlockOk(g) PROVE Sound
  BY <1>27 DEF DoUnlockOk, LoadPassword, WithUnlockEventSet
<1>28. ASSUME NEW g \in 1..MaxGen, DoUnlockFail(g) PROVE Sound
  BY <1>28 DEF DoUnlockFail, AbandonUnlock, WithUnlockEventSet
<1>29. ASSUME RateIntervalPasses PROVE Sound
  BY <1>29 DEF RateIntervalPasses
<1>30. ASSUME NEW r \in Req, ReactUnlockApprove(r) PROVE Sound
  BY <1>30 DEF ReactUnlockApprove, OnUnlockMsg
<1>31. ASSUME NEW r \in Req, ReactUnlockReject(r) PROVE Sound
  BY <1>31 DEF ReactUnlockReject, OnUnlockMsg, AbandonUnlock,
      WithUnlockEventSet
<1>32. ASSUME NEW m \in Req, NEW u \in User, NEW key \in Reactions,
             ReactApproval(m, u, key)
      PROVE  Sound
  BY <1>32 DEF ReactApproval
<1>33. ASSUME LockProxy PROVE Sound
  BY <1>33 DEF LockProxy, AbandonUnlock, WithUnlockEventSet
<1>34. ASSUME Shutdown PROVE Sound
  BY <1>34 DEF Shutdown, WithUnlockEventSet
<1>35. CASE UNCHANGED vars
  BY <1>35 DEF vars
<1> QED
  BY <1>1, <1>2, <1>3, <1>4, <1>5, <1>6, <1>7, <1>8, <1>9, <1>10, <1>11,
      <1>12, <1>13, <1>14, <1>15, <1>16, <1>17, <1>18, <1>19, <1>20, <1>21,
      <1>22, <1>23, <1>24, <1>25, <1>26, <1>27, <1>28, <1>29, <1>30, <1>31,
      <1>32, <1>33, <1>34, <1>35, StepCases

(* The generation check keeps outdated unlocks out.                         *)
THEOREM OutdatedUnlocksLoadNothing == Spec => []OutdatedUnlockLoadsNothing
<1>1. Init => GenerationInv /\ SleepInv
  BY ProxyAssumption
  DEF Init, GenerationInv, OutdatedUnlockLoadsNothing, SleepInv, LockKeeper
<1>2. TypeOK /\ GenerationInv /\ SleepInv /\ [Next]_vars => GenerationInv' /\ SleepInv'
  BY SoundSteps DEF Sound
<1>3. GenerationInv => OutdatedUnlockLoadsNothing
  BY DEF GenerationInv
<1> QED BY TypeCorrect, <1>1, <1>2, <1>3, PTL DEF Spec

(* Between two steps the lock is kept by the automatic unlocks that wait    *)
(* inside `async with self._lock`, and by nobody else (_auto_unlock): every *)
(* other path, the failing ones included, gives it back.                    *)
THEOREM OnlyAutomaticUnlocksSleep == Spec => []LockKeeper
<1>1. Init => GenerationInv /\ SleepInv
  BY ProxyAssumption
  DEF Init, GenerationInv, OutdatedUnlockLoadsNothing, SleepInv, LockKeeper
<1>2. TypeOK /\ GenerationInv /\ SleepInv /\ [Next]_vars => GenerationInv' /\ SleepInv'
  BY SoundSteps DEF Sound
<1>3. SleepInv => LockKeeper
  BY DEF SleepInv
<1> QED BY TypeCorrect, <1>1, <1>2, <1>3, PTL DEF Spec

(* The deadlock of two automatic unlocks is for good, on every instance.    *)
THEOREM DeadlockIsForGood == Spec => AsleepForGood
<1>1. Init => GenerationInv /\ SleepInv
  BY ProxyAssumption
  DEF Init, GenerationInv, OutdatedUnlockLoadsNothing, SleepInv, LockKeeper
<1>2. TypeOK /\ GenerationInv /\ SleepInv /\ [Next]_vars => GenerationInv' /\ SleepInv'
  BY SoundSteps DEF Sound
<1>3. TypeOK /\ GenerationInv /\ SleepInv /\ [Next]_vars
         => [\A r \in Req : AsleepOnLock(r) => AsleepOnLock(r)']_vars
  BY SoundSteps DEF Sound
<1> QED BY TypeCorrect, <1>1, <1>2, <1>3, PTL DEF Spec, AsleepForGood

----------------------------------------------------------------------------
(* The credential path implements Approval                                  *)

(* The status of every request, as Approval sees it.                        *)
Statuses == [r \in Req |-> RequestStatus(r)]

(* A step of request r's handler that Approval allows: nobody is heard, no  *)
(* other request moves, and r stays where it is or moves as Submit, Deny or *)
(* Grant do.                                                                *)
Others(r) ==
    /\ pressed' = pressed
    /\ \A q \in Req \ {r} : pc'[q] = pc[q] /\ kind'[q] = kind[q] /\ pending'[q] = pending[q]

Moves(r) ==
    \/ RequestStatus(r)' = RequestStatus(r)
    \/ RequestStatus(r) = "new" /\ RequestStatus(r)' \in {"open", "exempt"}
    \/ RequestStatus(r) \in Promise!Open \cup {"new"} /\ RequestStatus(r)' = "denied"
    \/ RequestStatus(r) = "approved" /\ RequestStatus(r)' = "granted"

(* Such a step is a step of Approval, or changes nothing there.             *)
LEMMA HandlerMoves ==
    ASSUME TypeOK, NEW r \in Req, Others(r), Moves(r)
    PROVE  [Promise!Next]_(Promise!vars)
<1>1. ASSUME NEW q \in Req, q # r PROVE RequestStatus(q)' = RequestStatus(q)
  BY <1>1 DEF Others, RequestStatus, PastApproval, TypeOK, PendingTypes
<1>2. Statuses' = [Statuses EXCEPT ![r] = RequestStatus(r)']
  BY <1>1 DEF Statuses
<1>3. Statuses[r] = RequestStatus(r) /\ pressed' = pressed
  BY DEF Statuses, Others
<1>4. CASE RequestStatus(r)' = RequestStatus(r)
  BY <1>2, <1>3, <1>4 DEF Promise!vars, Statuses
<1>5. CASE RequestStatus(r) = "new" /\ RequestStatus(r)' \in {"open", "exempt"}
  <2>1. Promise!Submit(r)
    BY <1>2, <1>3, <1>5 DEF Promise!Submit, Promise!Move, Statuses
  <2> QED BY <2>1 DEF Promise!Next
<1>6. CASE RequestStatus(r) \in Promise!Open \cup {"new"} /\ RequestStatus(r)' = "denied"
  <2>1. Promise!Deny(r)
    BY <1>2, <1>3, <1>6 DEF Promise!Deny, Promise!Move, Statuses
  <2> QED BY <2>1 DEF Promise!Next
<1>7. CASE RequestStatus(r) = "approved" /\ RequestStatus(r)' = "granted"
  <2>1. Promise!Grant(r)
    BY <1>2, <1>3, <1>7 DEF Promise!Grant, Promise!Move, Statuses
  <2> QED BY <2>1 DEF Promise!Next
<1> QED BY <1>4, <1>5, <1>6, <1>7 DEF Moves

(* A step that touches no handler, no entry and no reaction is none of      *)
(* Approval's business.                                                     *)
LEMMA StatusKept ==
    ASSUME UNCHANGED <<pc, kind, pending, pressed>>
    PROVE  UNCHANGED Promise!vars
  BY DEF Promise!vars, RequestStatus, PastApproval

(* Every step of a handler is such a step.                                  *)
LEMMA HandlerSteps ==
    ASSUME TypeOK, ApprovalInv, NEW r \in Req, Start(r) \/ Handler(r)
    PROVE  [Promise!Next]_(Promise!vars)
<1> SUFFICES Others(r) /\ Moves(r)
  BY HandlerMoves
<1> USE DEF TypeOK, RequestTypes, PendingTypes, RoomTypes, requestVars, unlockVars, pendingVars,
        roomVars, syncVars
<1>1. CASE Start(r)
  <2>1. Others(r)
    BY <1>1 DEF Start, Goto, Others
  <2>2. Moves(r)
    BY <1>1, ZenonT(40) DEF Start, Goto, Moves, RequestStatus, PastApproval, Promise!Open, Answers,
       ApprovalStage, ApprovalInv, EntriesInv
  <2> QED BY <2>1, <2>2
<1>2. CASE Gate(r)
  <2>1. Others(r)
    BY <1>2 DEF Gate, Goto, Others
  <2>2. Moves(r)
    BY <1>2 DEF Gate, Goto, Moves, RequestStatus, PastApproval, Promise!Open, Answers,
       ApprovalStage, ApprovalInv, EntriesInv
  <2> QED BY <2>1, <2>2
<1>3. CASE UnlockAsk(r)
  <2>1. Others(r)
    BY <1>3 DEF UnlockAsk, Goto, Others
  <2>2. Moves(r)
    BY <1>3 DEF UnlockAsk, Goto, Moves, RequestStatus, PastApproval, Promise!Open, Answers,
       ApprovalStage, ApprovalInv, EntriesInv
  <2> QED BY <2>1, <2>2
<1>4. CASE UnlockRegister(r)
  <2>1. Others(r)
    BY <1>4 DEF UnlockRegister, Goto, Others
  <2>2. Moves(r)
    BY <1>4 DEF UnlockRegister, Goto, Moves, RequestStatus, PastApproval, Promise!Open, Answers,
       ApprovalStage, ApprovalInv, EntriesInv
  <2> QED BY <2>1, <2>2
<1>5. CASE UnlockGiveUp(r)
  <2>1. Others(r)
    BY <1>5 DEF UnlockGiveUp, Goto, Others
  <2>2. Moves(r)
    BY <1>5 DEF UnlockGiveUp, Goto, Moves, RequestStatus, PastApproval, Promise!Open, Answers,
       ApprovalStage, ApprovalInv, EntriesInv
  <2> QED BY <2>1, <2>2
<1>6. CASE UnlockWake(r)
  <2>1. Others(r)
    BY <1>6 DEF UnlockWake, Goto, Others
  <2>2. Moves(r)
    BY <1>6 DEF UnlockWake, Goto, Moves, RequestStatus, PastApproval, Promise!Open, Answers,
       ApprovalStage, ApprovalInv, EntriesInv
  <2> QED BY <2>1, <2>2
<1>7. CASE UnlockTimeout(r)
  <2>1. Others(r)
    BY <1>7 DEF UnlockTimeout, Goto, Others
  <2>2. Moves(r)
    BY <1>7 DEF UnlockTimeout, Goto, Moves, RequestStatus, PastApproval, Promise!Open, Answers,
       ApprovalStage, ApprovalInv, EntriesInv
  <2> QED BY <2>1, <2>2
<1>8. CASE CreatePending(r)
  <2>1. Others(r)
    BY <1>8 DEF CreatePending, Goto, Others
  <2>2. Moves(r)
    BY <1>8 DEF CreatePending, Goto, Moves, RequestStatus, PastApproval, Promise!Open, Answers,
       ApprovalStage, ApprovalInv, EntriesInv
  <2> QED BY <2>1, <2>2
<1>9. CASE Ask(r)
  <2>1. Others(r)
    BY <1>9 DEF Ask, Goto, Others
  <2>2. Moves(r)
    BY <1>9 DEF Ask, Goto, Moves, RequestStatus, PastApproval, Promise!Open, Answers,
       ApprovalStage, ApprovalInv, EntriesInv
  <2> QED BY <2>1, <2>2
<1>10. CASE AskFailed(r)
  <2>1. Others(r)
    BY <1>10 DEF AskFailed, Goto, Cleanup, Others
  <2>2. Moves(r)
    BY <1>10 DEF AskFailed, Goto, Cleanup, Moves, RequestStatus, PastApproval, Promise!Open, Answers,
       ApprovalStage, ApprovalInv, EntriesInv
  <2> QED BY <2>1, <2>2
<1>11. CASE RegisterMsg(r)
  <2>1. Others(r)
    BY <1>11 DEF RegisterMsg, Goto, Others
  <2>2. Moves(r)
    BY <1>11 DEF RegisterMsg, Goto, Moves, RequestStatus, PastApproval, Promise!Open, Answers,
       ApprovalStage, ApprovalInv, EntriesInv
  <2> QED BY <2>1, <2>2
<1>12. CASE RevokeRegister(r)
  <2>1. Others(r)
    BY <1>12 DEF RevokeRegister, Goto, Others
  <2>2. Moves(r)
    BY <1>12 DEF RevokeRegister, Goto, Moves, RequestStatus, PastApproval, Promise!Open, Answers,
       ApprovalStage, ApprovalInv, EntriesInv
  <2> QED BY <2>1, <2>2
<1>13. CASE Wake(r)
  <2>1. Others(r)
    BY <1>13 DEF Wake, Goto, Others
  <2>2. Moves(r)
    BY <1>13 DEF Wake, Goto, Moves, RequestStatus, PastApproval, Promise!Open, Answers,
       ApprovalStage, ApprovalInv, EntriesInv
  <2> QED BY <2>1, <2>2
<1>14. CASE Timeout(r)
  <2>1. Others(r)
    BY <1>14 DEF Timeout, Goto, Others
  <2>2. Moves(r)
    BY <1>14 DEF Timeout, Goto, Moves, RequestStatus, PastApproval, Promise!Open, Answers,
       ApprovalStage, ApprovalInv, EntriesInv
  <2> QED BY <2>1, <2>2
<1>15. CASE Expired(r)
  <2>1. Others(r)
    BY <1>15 DEF Expired, Goto, Cleanup, Others
  <2>2. Moves(r)
    BY <1>15 DEF Expired, Goto, Cleanup, Moves, RequestStatus, PastApproval, Promise!Open, Answers,
       ApprovalStage, ApprovalInv, EntriesInv
  <2> QED BY <2>1, <2>2
<1>16. CASE Final(r)
  <2>1. Others(r)
    BY <1>16 DEF Final, Goto, Cleanup, Others
  <2>2. Moves(r)
    BY <1>16 DEF Final, Goto, Cleanup, Moves, RequestStatus, PastApproval, Promise!Open, Answers,
       ApprovalStage, ApprovalInv, EntriesInv
  <2> QED BY <2>1, <2>2
<1>17. CASE AutoGate(r)
  <2>1. Others(r)
    BY <1>17 DEF AutoGate, Goto, Others
  <2>2. Moves(r)
    BY <1>17 DEF AutoGate, Goto, Moves, RequestStatus, PastApproval, Promise!Open, Answers,
       ApprovalStage, ApprovalInv, KindInv, AutoStage
  <2> QED BY <2>1, <2>2
<1>18. CASE AutoUnlock(r)
  <2>1. Others(r)
    BY <1>18 DEF AutoUnlock, Goto, Others
  <2>2. Moves(r)
    BY <1>18 DEF AutoUnlock, Goto, Moves, RequestStatus, PastApproval, Promise!Open, Answers,
       ApprovalStage, ApprovalInv, KindInv, AutoStage
  <2> QED BY <2>1, <2>2
<1>19. CASE AutoWake(r)
  <2>1. Others(r)
    BY <1>19 DEF AutoWake, Goto, Others
  <2>2. Moves(r)
    BY <1>19 DEF AutoWake, Goto, Moves, RequestStatus, PastApproval, Promise!Open, Answers,
       ApprovalStage, ApprovalInv, KindInv, AutoStage
  <2> QED BY <2>1, <2>2
<1>20. CASE AutoUnsealOk(r)
  <2>1. Others(r)
    BY <1>20 DEF AutoUnsealOk, Goto, Others
  <2>2. Moves(r)
    BY <1>20 DEF AutoUnsealOk, Goto, Moves, RequestStatus, PastApproval, Promise!Open, Answers,
       ApprovalStage, ApprovalInv, KindInv, AutoStage
  <2> QED BY <2>1, <2>2
<1>21. CASE AutoUnsealFail(r)
  <2>1. Others(r)
    BY <1>21 DEF AutoUnsealFail, Goto, Others
  <2>2. Moves(r)
    BY <1>21 DEF AutoUnsealFail, Goto, Moves, RequestStatus, PastApproval, Promise!Open, Answers,
       ApprovalStage, ApprovalInv, KindInv, AutoStage
  <2> QED BY <2>1, <2>2
<1>22. CASE QueryEnter(r)
  <2>1. Others(r)
    BY <1>22 DEF QueryEnter, Goto, Others
  <2>2. Moves(r)
    BY <1>22 DEF QueryEnter, Goto, Moves, RequestStatus, PastApproval, Promise!Open, Answers,
       ApprovalStage, ApprovalInv, EntriesInv
  <2> QED BY <2>1, <2>2
<1>23. CASE Open(r)
  <2>1. Others(r)
    BY <1>23 DEF Open, Goto, Others
  <2>2. Moves(r)
    BY <1>23 DEF Open, Goto, Moves, RequestStatus, PastApproval, Promise!Open, Answers,
       ApprovalStage, ApprovalInv, EntriesInv
  <2> QED BY <2>1, <2>2
<1>24. CASE CacheHandle(r)
  <2>1. Others(r)
    BY <1>24 DEF CacheHandle, Goto, Others
  <2>2. Moves(r)
    BY <1>24 DEF CacheHandle, Goto, Moves, RequestStatus, PastApproval, Promise!Open, Answers,
       ApprovalStage, ApprovalInv, EntriesInv
  <2> QED BY <2>1, <2>2
<1>25. CASE Find(r)
  <2>1. Others(r)
    BY <1>25 DEF Find, Goto, Others
  <2>2. Moves(r)
    BY <1>25 DEF Find, Goto, Moves, RequestStatus, PastApproval, Promise!Open, Answers,
       ApprovalStage, ApprovalInv, EntriesInv
  <2> QED BY <2>1, <2>2
<1>26. CASE Tokenize(r)
  <2>1. Others(r)
    BY <1>26 DEF Tokenize, Goto, Others
  <2>2. Moves(r)
    BY <1>26 DEF Tokenize, Goto, Moves, RequestStatus, PastApproval, Promise!Open, Answers,
       ApprovalStage, ApprovalInv, EntriesInv
  <2> QED BY <2>1, <2>2
<1> QED BY <1>1, <1>2, <1>3, <1>4, <1>5, <1>6, <1>7, <1>8, <1>9, <1>10, <1>11, <1>12, <1>13,
           <1>14, <1>15, <1>16, <1>17, <1>18, <1>19, <1>20, <1>21, <1>22, <1>23, <1>24,
           <1>25, <1>26 DEF Handler

(* A reaction is heard, and decides the request of its message if it is the *)
(* first decision of a member who may approve.                              *)
LEMMA ReactionSteps ==
    ASSUME TypeOK, ApprovalInv, NEW m \in Req, NEW u \in User, NEW key \in Reactions,
           ReactApproval(m, u, key)
    PROVE  [Promise!Next]_(Promise!vars)
<1> USE DEF TypeOK, RequestTypes, PendingTypes, RoomTypes, requestVars
<1> DEFINE decides == approvalMsgs[m] # NoReq /\ MayApprove(u) /\ pending[approvalMsgs[m]] = "none"
<1>1. approvalMsgs[m] # NoReq => approvalMsgs[m] = m /\ pc[m] \in {"wait", "expired", "final"}
  BY DEF ApprovalInv, MsgsInv
<1>2. UNCHANGED <<pc, kind>>
  BY DEF ReactApproval
<1>3. ASSUME NEW q \in Req, q # m PROVE RequestStatus(q)' = RequestStatus(q)
  <2>1. pending'[q] = pending[q]
    BY <1>1, <1>3 DEF ReactApproval
  <2> QED BY <1>2, <2>1 DEF RequestStatus, PastApproval
<1>4. Statuses' = [Statuses EXCEPT ![m] = RequestStatus(m)']
  BY <1>3 DEF Statuses
<1>5. CASE decides
  <2>1. pending[m] = "none" /\ pending'[m] = IF key = "approve" THEN "yes" ELSE "no"
    BY <1>1, <1>5 DEF ReactApproval
  <2>2. \/ kind[m] \in {"auto", "autoUnlock"} /\ RequestStatus(m)' = RequestStatus(m)
        \/ /\ RequestStatus(m) = "open"
           /\ RequestStatus(m)' = IF key = "approve" THEN "approved" ELSE "refused"
    BY <1>1, <1>2, <1>5, <2>1 DEF RequestStatus, PastApproval, Answers
  <2>3. CASE key = "approve"
    <3>1. pressed' = [pressed EXCEPT ![m] = @ \cup {u}]
      BY <2>3 DEF ReactApproval
    <3>2. Promise!Press(m, u)
      BY <1>4, <1>5, <2>2, <2>3, <3>1 DEF Promise!Press, Statuses
    <3> QED BY <3>2 DEF Promise!Next
  <2>4. CASE key # "approve"
    <3>1. pressed' = pressed
      BY <2>4 DEF ReactApproval
    <3>2. Promise!Refuse(m) \/ UNCHANGED Promise!vars
      BY <1>4, <2>2, <2>4, <3>1 DEF Promise!Refuse, Promise!Move, Promise!vars, Statuses
    <3> QED BY <3>2 DEF Promise!Next
  <2> QED BY <2>3, <2>4
<1>6. CASE ~decides
  <2>1. pending' = pending
    BY <1>6 DEF ReactApproval
  <2>2. Statuses' = Statuses
    BY <1>2, <2>1 DEF Statuses, RequestStatus, PastApproval
  <2>3. CASE key = "approve"
    <3>1. pressed' = [pressed EXCEPT ![m] = @ \cup {u}]
      BY <2>3 DEF ReactApproval
    <3>2. Promise!Press(m, u)
      BY <2>2, <3>1 DEF Promise!Press, Statuses
    <3> QED BY <3>2 DEF Promise!Next
  <2>4. CASE key # "approve"
    <3>1. pressed' = pressed
      BY <2>4 DEF ReactApproval
    <3> QED BY <2>2, <3>1 DEF Promise!vars, Statuses
  <2> QED BY <2>3, <2>4
<1> QED BY <1>5, <1>6

(* `lock proxy` takes back every request that is inside its approval.       *)
LEMMA LockSteps ==
    ASSUME TypeOK, ApprovalInv, LockProxy
    PROVE  Promise!Next
<1> USE DEF TypeOK, RequestTypes, PendingTypes, requestVars, roomVars
<1> DEFINE C == {r \in Req : pending[r] # "absent" /\ kind[r] \notin {"auto", "autoUnlock"}}
<1>1. UNCHANGED <<pc, kind, pressed>> /\ pending' = [r \in Req |-> "absent"]
  BY DEF LockProxy
<1>2. \A r \in Req : pending[r] # "absent" => pc[r] \in ApprovalStage
  BY DEF ApprovalInv, EntriesInv
<1>3. ASSUME NEW r \in C
      PROVE  RequestStatus(r) \in Promise!Open /\ RequestStatus(r)' = "withdrawn"
  BY <1>1, <1>2 DEF RequestStatus, PastApproval, ApprovalStage, Answers, Promise!Open
<1>4. ASSUME NEW r \in Req \ C PROVE RequestStatus(r)' = RequestStatus(r)
  BY <1>1, <1>2 DEF RequestStatus, PastApproval, ApprovalStage
<1> HIDE DEF C
<1>5. C \in SUBSET {r \in Req : Statuses[r] \in Promise!Open}
  <2>1. C \subseteq Req
    BY DEF C
  <2> QED BY <1>3, <2>1 DEF Statuses
<1>6. Statuses' = [r \in Req |-> IF r \in C THEN "withdrawn" ELSE Statuses[r]]
  BY <1>3, <1>4 DEF Statuses
<1>7. Promise!Withdraw
  BY <1>1, <1>5, <1>6 DEF Promise!Withdraw, Statuses
<1> QED BY <1>7 DEF Promise!Next

(* The credential path implements Approval, whatever the number of requests *)
(* and members: a request that needs a person is carried out exactly on the *)
(* first decision of a member who may approve, unless a lock or a timer     *)
(* took it back in between.                                                 *)
THEOREM CredentialKeepsThePromise == Spec => ImplementsApproval
<1>1. Init => Promise!Init
  BY DEF Init, Promise!Init, RequestStatus
<1>2. TypeOK /\ ApprovalInv /\ [Next]_vars => [Promise!Next]_(Promise!vars)
  <2> SUFFICES ASSUME TypeOK, ApprovalInv, [Next]_vars PROVE [Promise!Next]_(Promise!vars)
    OBVIOUS
  <2> USE DEF requestVars, pendingVars, roomVars
  <2>1. ASSUME NEW r \in Req, Start(r) \/ Handler(r) PROVE [Promise!Next]_(Promise!vars)
    BY <2>1, HandlerSteps
  <2>2. ASSUME NEW g \in 1..MaxGen, UnlockTask(g) PROVE UNCHANGED Promise!vars
    BY <2>2, StatusKept DEF UnlockTask, DoUnlockOk, DoUnlockFail
  <2>3. ASSUME RateIntervalPasses \/ Shutdown PROVE UNCHANGED Promise!vars
    BY <2>3, StatusKept DEF RateIntervalPasses, Shutdown
  <2>4. ASSUME NEW r \in Req, ReactUnlockApprove(r) \/ ReactUnlockReject(r)
        PROVE  UNCHANGED Promise!vars
    BY <2>4, StatusKept DEF ReactUnlockApprove, ReactUnlockReject
  <2>5. ASSUME NEW m \in Req, NEW u \in User, NEW key \in Reactions, ReactApproval(m, u, key)
        PROVE  [Promise!Next]_(Promise!vars)
    BY <2>5, ReactionSteps
  <2>6. ASSUME LockProxy PROVE Promise!Next
    BY <2>6, LockSteps
  <2>7. CASE UNCHANGED vars
    BY <2>7, StatusKept DEF vars
  <2> QED BY <2>1, <2>2, <2>3, <2>4, <2>5, <2>6, <2>7 DEF Next, Room
<1> QED
  BY <1>1, <1>2, TypeCorrect, ApprovalInvariant, PTL DEF Spec, Promise!Spec, ImplementsApproval
=============================================================================
