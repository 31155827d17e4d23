------------------------ MODULE AuditApprovalProofs ------------------------
(***************************************************************************)
(* Proofs about the approval of flagged tool calls, for every set of       *)
(* streams and members and every number of approvals.                      *)
(***************************************************************************)
EXTENDS AuditRefinesApproval, TLAPS

(* An entry that exists belongs to a call that has not returned.            *)
LEMMA EntryIsOpen ==
    ASSUME TypeOK, AuditInv, NEW n \in Id, pending[n] # "absent"
    PROVE  outcome[n] = "open" /\ n <= seq
<1>1. PICK s \in Stream : cur[s] = n /\ n \in created[s]
  BY DEF AuditInv, NoOrphans
<1>2. n # 0
  BY DEF Id
<1> QED BY <1>1, <1>2 DEF AuditInv, HandlerInv

(* A handler inside an approval has an id of its own.                       *)
LEMMA CurIsId ==
    ASSUME TypeOK, AuditInv, NEW s \in Stream, pc[s] \in Inside
    PROVE  cur[s] \in Id /\ cur[s] \in created[s]
  BY DEF AuditInv, HandlerInv, TypeOK

(* The inductive invariant of the approval path holds in every reachable    *)
(* state.                                                                   *)
THEOREM AuditInvariant == Spec => [](TypeOK /\ AuditInv)
<1>1. Init => TypeOK /\ AuditInv
  BY AuditAssumption DEF Init, TypeOK, Id, Outcomes, AuditInv, HandlerInv, EntryInv, Inside,
     MsgsPosted, NoOrphans, ApprovedOnlyByWhitelist, WaiterCanWake
<1>2. TypeOK /\ AuditInv /\ [Next]_vars => TypeOK' /\ AuditInv'
  <2> SUFFICES ASSUME TypeOK, AuditInv, [Next]_vars PROVE TypeOK' /\ AuditInv'
    OBVIOUS
  <2> USE AuditAssumption DEF streamVars, approvalVars, kaVars, historyVars, TypeOK, Id,
      Reactions
  <2>1. ASSUME NEW s \in Stream, Open(s)
        PROVE  TypeOK' /\ AuditInv'
    <3>1. TypeOK'
      BY <2>1 DEF Open, Goto, Outcomes
    <3>2. HandlerInv'
      BY <2>1 DEF Open, Goto, AuditInv, HandlerInv, EntryInv, Inside
    <3>3. EntryInv'
      BY <2>1 DEF Open, Goto, AuditInv, HandlerInv, EntryInv, Inside
    <3>4. MsgsPosted'
      BY <2>1 DEF Open, Goto, AuditInv, MsgsPosted
    <3>5. NoOrphans'
      BY <2>1 DEF Open, Goto, AuditInv, HandlerInv, EntryInv, Inside, NoOrphans
    <3>6. ApprovedOnlyByWhitelist'
      BY <2>1 DEF Open, Goto, AuditInv, HandlerInv, EntryInv, Inside,
         ApprovedOnlyByWhitelist, NoOrphans
    <3>7. WaiterCanWake'
      BY <2>1 DEF Open, Goto, AuditInv, HandlerInv, EntryInv, Inside, WaiterCanWake
    <3> QED BY <3>1, <3>2, <3>3, <3>4, <3>5, <3>6, <3>7 DEF AuditInv
  <2>2. ASSUME NEW s \in Stream, Write(s)
        PROVE  TypeOK' /\ AuditInv'
    <3>1. TypeOK'
      BY <2>2 DEF Write, SomePending, Outcomes
    <3>2. AuditInv'
      BY <2>2 DEF Write, AuditInv, HandlerInv, EntryInv, MsgsPosted, NoOrphans,
         ApprovedOnlyByWhitelist, WaiterCanWake
    <3> QED BY <3>1, <3>2
  <2>3. ASSUME NEW s \in Stream, Begin(s)
        PROVE  TypeOK' /\ AuditInv'
    <3>1. TypeOK'
      <4>1. seq + 1 \in Id /\ seq + 1 \in 0..MaxSeq
        BY <2>3 DEF Begin, Id
      <4>2. pc' \in [Stream -> {"new", "open", "asking", "waiting", "expired", "ended"}]
        BY <2>3 DEF Begin, Goto
      <4> QED BY <2>3, <4>1, <4>2, ZenonT(40) DEF Begin
    <3>2. HandlerInv'
      BY <2>3 DEF Begin, Goto, AuditInv, HandlerInv, EntryInv, Inside
    <3>3. EntryInv'
      BY <2>3 DEF Begin, Goto, AuditInv, HandlerInv, EntryInv, Inside
    <3>4. MsgsPosted'
      BY <2>3 DEF Begin, Goto, AuditInv, MsgsPosted
    <3>5. NoOrphans'
      <4> SUFFICES ASSUME NEW n \in Id, pending'[n] # "absent" \/ n \in msgs'
                   PROVE  \E t \in Stream : cur'[t] = n /\ n \in created'[t]
                             /\ pc'[t] \in {"asking", "waiting", "expired"}
        BY DEF NoOrphans
      <4>1. CASE n = seq + 1
        BY <2>3, <4>1 DEF Begin, Goto
      <4>2. CASE n # seq + 1
        <5>1. PICK t \in Stream : cur[t] = n /\ n \in created[t]
                                     /\ pc[t] \in {"asking", "waiting", "expired"}
          BY <2>3, <4>2 DEF Begin, AuditInv, NoOrphans
        <5>2. t # s
          BY <2>3, <5>1 DEF Begin
        <5> QED BY <2>3, <5>1, <5>2 DEF Begin, Goto
      <4> QED BY <4>1, <4>2
    <3>6. ApprovedOnlyByWhitelist'
      BY <2>3 DEF Begin, Goto, AuditInv, HandlerInv, EntryInv, Inside,
         ApprovedOnlyByWhitelist, NoOrphans
    <3>7. WaiterCanWake'
      BY <2>3 DEF Begin, Goto, AuditInv, HandlerInv, EntryInv, Inside, WaiterCanWake
    <3> QED BY <3>1, <3>2, <3>3, <3>4, <3>5, <3>6, <3>7 DEF AuditInv
  <2>4. ASSUME NEW s \in Stream, Post(s)
        PROVE  TypeOK' /\ AuditInv'
    <3>1. TypeOK'
      <4>1. cur[s] \in Id
        BY <2>4, CurIsId DEF Post, Inside
      <4> QED BY <2>4, <4>1 DEF Post
    <3>2. HandlerInv'
      BY <2>4 DEF Post, AuditInv, HandlerInv, EntryInv, Inside
    <3>3. EntryInv'
      BY <2>4 DEF Post, AuditInv, HandlerInv, EntryInv, Inside
    <3>4. MsgsPosted'
      BY <2>4 DEF Post, AuditInv, MsgsPosted
    <3>5. NoOrphans'
      BY <2>4 DEF Post, AuditInv, HandlerInv, EntryInv, Inside, NoOrphans
    <3>6. ApprovedOnlyByWhitelist'
      BY <2>4 DEF Post, AuditInv, HandlerInv, EntryInv, Inside,
         ApprovedOnlyByWhitelist, NoOrphans
    <3>7. WaiterCanWake'
      BY <2>4 DEF Post, AuditInv, HandlerInv, EntryInv, Inside, WaiterCanWake
    <3> QED BY <3>1, <3>2, <3>3, <3>4, <3>5, <3>6, <3>7 DEF AuditInv
  <2>5. ASSUME NEW s \in Stream, Register(s)
        PROVE  TypeOK' /\ AuditInv'
    <3>1. TypeOK'
      BY <2>5 DEF Register, Goto, Outcomes
    <3>2. HandlerInv'
      BY <2>5 DEF Register, Goto, AuditInv, HandlerInv, EntryInv, Inside
    <3>3. EntryInv'
      BY <2>5 DEF Register, Goto, AuditInv, HandlerInv, EntryInv, Inside
    <3>4. MsgsPosted'
      BY <2>5 DEF Register, Goto, AuditInv, MsgsPosted
    <3>5. NoOrphans'
      BY <2>5 DEF Register, Goto, AuditInv, HandlerInv, EntryInv, Inside, NoOrphans
    <3>6. ApprovedOnlyByWhitelist'
      BY <2>5 DEF Register, Goto, AuditInv, HandlerInv, EntryInv, Inside,
         ApprovedOnlyByWhitelist, NoOrphans
    <3>7. WaiterCanWake'
      BY <2>5 DEF Register, Goto, AuditInv, HandlerInv, EntryInv, Inside,
         WaiterCanWake
    <3> QED BY <3>1, <3>2, <3>3, <3>4, <3>5, <3>6, <3>7 DEF AuditInv
  <2>6. ASSUME NEW s \in Stream, AskFailed(s)
        PROVE  TypeOK' /\ AuditInv'
    <3>1. TypeOK'
      BY <2>6 DEF AskFailed, Drop, Return, Goto, Outcomes
    <3>2. HandlerInv'
      BY <2>6 DEF AskFailed, Drop, Return, Goto, AuditInv, HandlerInv, EntryInv,
         Inside
    <3>3. EntryInv'
      BY <2>6 DEF AskFailed, Drop, Return, Goto, AuditInv, HandlerInv, EntryInv,
         Inside
    <3>4. MsgsPosted'
      BY <2>6 DEF AskFailed, Drop, Return, Goto, AuditInv, MsgsPosted
    <3>5. NoOrphans'
      <4> SUFFICES ASSUME NEW n \in Id, pending'[n] # "absent" \/ n \in msgs'
                   PROVE  \E t \in Stream : cur'[t] = n /\ n \in created'[t]
                             /\ pc'[t] \in {"asking", "waiting", "expired"}
        BY DEF NoOrphans
      <4>1. cur[s] \in Id
        BY <2>6, CurIsId DEF AskFailed, Inside
      <4>2. PICK t \in Stream : cur[t] = n /\ n \in created[t]
                                   /\ pc[t] \in {"asking", "waiting", "expired"}
        BY <2>6, <4>1 DEF AskFailed, Drop, AuditInv, NoOrphans
      <4>3. CASE t # s
        BY <2>6, <4>2, <4>3 DEF AskFailed, Return, Goto
      <4>4. CASE t = s
        BY <2>6, <4>1, <4>2, <4>4 DEF AskFailed, Drop, AuditInv, MsgsPosted
      <4> QED BY <4>3, <4>4
    <3>6. ApprovedOnlyByWhitelist'
      BY <2>6 DEF AskFailed, Drop, Return, Goto, AuditInv, HandlerInv, EntryInv,
         Inside, ApprovedOnlyByWhitelist, NoOrphans
    <3>7. WaiterCanWake'
      BY <2>6 DEF AskFailed, Drop, Return, Goto, AuditInv, HandlerInv, EntryInv,
         Inside, WaiterCanWake
    <3> QED BY <3>1, <3>2, <3>3, <3>4, <3>5, <3>6, <3>7 DEF AuditInv
  <2>7. ASSUME NEW s \in Stream, Resume(s)
        PROVE  TypeOK' /\ AuditInv'
    <3>1. TypeOK'
      BY <2>7 DEF Resume, Drop, Return, Goto, Outcomes
    <3>2. HandlerInv'
      BY <2>7 DEF Resume, Drop, Return, Goto, AuditInv, HandlerInv, EntryInv, Inside
    <3>3. EntryInv'
      BY <2>7 DEF Resume, Drop, Return, Goto, AuditInv, HandlerInv, EntryInv, Inside
    <3>4. MsgsPosted'
      BY <2>7 DEF Resume, Drop, Return, Goto, AuditInv, MsgsPosted
    <3>5. NoOrphans'
      BY <2>7 DEF Resume, Drop, Return, Goto, AuditInv, HandlerInv, EntryInv,
         Inside, NoOrphans
    <3>6. ApprovedOnlyByWhitelist'
      <4>1. cur[s] \in Id
        BY <2>7, CurIsId DEF Resume, Inside
      <4>2. pending[cur[s]] = "yes"
               => cur[s] \notin refused /\ pressed[cur[s]] \cap Whitelist # {}
        BY <4>1 DEF AuditInv, EntryInv
      <4> QED BY <2>7, <4>1, <4>2 DEF Resume, Return, AuditInv, ApprovedOnlyByWhitelist
    <3>7. WaiterCanWake'
      BY <2>7 DEF Resume, Drop, Return, Goto, AuditInv, HandlerInv, EntryInv,
         Inside, WaiterCanWake
    <3> QED BY <3>1, <3>2, <3>3, <3>4, <3>5, <3>6, <3>7 DEF AuditInv
  <2>8. ASSUME NEW s \in Stream, Expire(s)
        PROVE  TypeOK' /\ AuditInv'
    <3>1. TypeOK'
      BY <2>8 DEF Expire, Goto, Outcomes
    <3>2. HandlerInv'
      BY <2>8 DEF Expire, Goto, AuditInv, HandlerInv, EntryInv, Inside
    <3>3. EntryInv'
      BY <2>8 DEF Expire, Goto, AuditInv, HandlerInv, EntryInv, Inside
    <3>4. MsgsPosted'
      BY <2>8 DEF Expire, Goto, AuditInv, MsgsPosted
    <3>5. NoOrphans'
      BY <2>8 DEF Expire, Goto, AuditInv, HandlerInv, EntryInv, Inside, NoOrphans
    <3>6. ApprovedOnlyByWhitelist'
      BY <2>8 DEF Expire, Goto, AuditInv, HandlerInv, EntryInv, Inside,
         ApprovedOnlyByWhitelist, NoOrphans
    <3>7. WaiterCanWake'
      BY <2>8 DEF Expire, Goto, AuditInv, HandlerInv, EntryInv, Inside,
         WaiterCanWake
    <3> QED BY <3>1, <3>2, <3>3, <3>4, <3>5, <3>6, <3>7 DEF AuditInv
  <2>9. ASSUME NEW s \in Stream, Expired(s)
        PROVE  TypeOK' /\ AuditInv'
    <3>1. TypeOK'
      BY <2>9 DEF Expired, Drop, Return, Goto, Outcomes
    <3>2. HandlerInv'
      BY <2>9 DEF Expired, Drop, Return, Goto, AuditInv, HandlerInv, EntryInv,
         Inside
    <3>3. EntryInv'
      BY <2>9 DEF Expired, Drop, Return, Goto, AuditInv, HandlerInv, EntryInv,
         Inside
    <3>4. MsgsPosted'
      BY <2>9 DEF Expired, Drop, Return, Goto, AuditInv, MsgsPosted
    <3>5. NoOrphans'
      BY <2>9 DEF Expired, Drop, Return, Goto, AuditInv, HandlerInv, EntryInv,
         Inside, NoOrphans
    <3>6. ApprovedOnlyByWhitelist'
      BY <2>9 DEF Expired, Drop, Return, Goto, AuditInv, HandlerInv, EntryInv,
         Inside, ApprovedOnlyByWhitelist, NoOrphans
    <3>7. WaiterCanWake'
      BY <2>9 DEF Expired, Drop, Return, Goto, AuditInv, HandlerInv, EntryInv,
         Inside, WaiterCanWake
    <3> QED BY <3>1, <3>2, <3>3, <3>4, <3>5, <3>6, <3>7 DEF AuditInv
  <2>10. ASSUME NEW s \in Stream, Abort(s)
        PROVE  TypeOK' /\ AuditInv'
    <3>1. TypeOK'
      BY <2>10 DEF Abort, Goto, Outcomes
    <3>2. HandlerInv'
      BY <2>10 DEF Abort, Goto, AuditInv, HandlerInv, EntryInv, Inside
    <3>3. EntryInv'
      BY <2>10 DEF Abort, Goto, AuditInv, HandlerInv, EntryInv, Inside
    <3>4. MsgsPosted'
      BY <2>10 DEF Abort, Goto, AuditInv, MsgsPosted
    <3>5. NoOrphans'
      BY <2>10 DEF Abort, Goto, AuditInv, HandlerInv, EntryInv, Inside, NoOrphans
    <3>6. ApprovedOnlyByWhitelist'
      BY <2>10, EntryIsOpen DEF Abort, AuditInv, ApprovedOnlyByWhitelist, Outcomes
    <3>7. WaiterCanWake'
      BY <2>10 DEF Abort, Goto, AuditInv, HandlerInv, EntryInv, Inside,
         WaiterCanWake
    <3> QED BY <3>1, <3>2, <3>3, <3>4, <3>5, <3>6, <3>7 DEF AuditInv
  <2>11. ASSUME NEW s \in Stream, Finish(s)
        PROVE  TypeOK' /\ AuditInv'
    <3>1. TypeOK'
      BY <2>11 DEF Finish, Goto, Outcomes
    <3>2. HandlerInv'
      BY <2>11 DEF Finish, Goto, AuditInv, HandlerInv, EntryInv, Inside
    <3>3. EntryInv'
      BY <2>11 DEF Finish, Goto, AuditInv, HandlerInv, EntryInv, Inside
    <3>4. MsgsPosted'
      BY <2>11 DEF Finish, Goto, AuditInv, MsgsPosted
    <3>5. NoOrphans'
      BY <2>11, ZenonT(40) DEF Finish, Goto, AuditInv, HandlerInv, EntryInv, Inside, NoOrphans
    <3>6. ApprovedOnlyByWhitelist'
      BY <2>11 DEF Finish, Goto, AuditInv, HandlerInv, EntryInv, Inside,
         ApprovedOnlyByWhitelist, NoOrphans
    <3>7. WaiterCanWake'
      BY <2>11 DEF Finish, Goto, AuditInv, HandlerInv, EntryInv, Inside,
         WaiterCanWake
    <3> QED BY <3>1, <3>2, <3>3, <3>4, <3>5, <3>6, <3>7 DEF AuditInv
  <2>12. ASSUME NEW s \in Stream, LocalKeepaliveEnds(s)
        PROVE  TypeOK' /\ AuditInv'
    <3>1. TypeOK'
      BY <2>12 DEF LocalKeepaliveEnds, Outcomes
    <3>2. AuditInv'
      BY <2>12 DEF LocalKeepaliveEnds, AuditInv, HandlerInv, EntryInv, MsgsPosted,
         NoOrphans, ApprovedOnlyByWhitelist, WaiterCanWake
    <3> QED BY <3>1, <3>2
  <2>13. ASSUME NEW n \in Id, KeepaliveEnds(n)
        PROVE  TypeOK' /\ AuditInv'
    <3>1. TypeOK'
      BY <2>13 DEF KeepaliveEnds, Outcomes
    <3>2. AuditInv'
      BY <2>13 DEF KeepaliveEnds, AuditInv, HandlerInv, EntryInv, MsgsPosted,
         NoOrphans, ApprovedOnlyByWhitelist, WaiterCanWake
    <3> QED BY <3>1, <3>2
  <2>14. ASSUME NEW n \in Id, NEW u \in User, NEW key \in Reactions, React(n, u, key)
        PROVE  TypeOK' /\ AuditInv'
    <3>1. TypeOK'
      BY <2>14 DEF React, Outcomes
    <3>2. HandlerInv'
      BY <2>14 DEF React, AuditInv, HandlerInv, EntryInv, Inside
    <3>3. EntryInv'
      <4>1. n <= seq
        BY <2>14, EntryIsOpen DEF React
      <4> QED BY <2>14, <4>1 DEF React, AuditInv, EntryInv
    <3>4. MsgsPosted'
      BY <2>14 DEF React, AuditInv, MsgsPosted
    <3>5. NoOrphans'
      BY <2>14 DEF React, AuditInv, HandlerInv, EntryInv, Inside, NoOrphans
    <3>6. ApprovedOnlyByWhitelist'
      BY <2>14 DEF React, AuditInv, HandlerInv, EntryInv, Inside,
         ApprovedOnlyByWhitelist, NoOrphans
    <3>7. WaiterCanWake'
      BY <2>14 DEF React, AuditInv, HandlerInv, EntryInv, Inside, WaiterCanWake
    <3> QED BY <3>1, <3>2, <3>3, <3>4, <3>5, <3>6, <3>7 DEF AuditInv
  <2>15. ASSUME Sweep
        PROVE  TypeOK' /\ AuditInv'
    <3>1. TypeOK'
      BY <2>15 DEF Sweep, Outcomes
    <3>2. HandlerInv'
      BY <2>15 DEF Sweep, AuditInv, HandlerInv, EntryInv, Inside
    <3>3. EntryInv'
      <4>1. \A n \in Id : pending[n] = "none" => n <= seq
        BY EntryIsOpen
      <4>2. \A s \in Stream : pc[s] = "asking" => cur[s] \in Id
        BY CurIsId DEF Inside
      <4> QED BY <2>15, <4>1, <4>2 DEF Sweep, AuditInv, EntryInv
    <3>4. MsgsPosted'
      BY <2>15 DEF Sweep, AuditInv, MsgsPosted
    <3>5. NoOrphans'
      BY <2>15 DEF Sweep, AuditInv, HandlerInv, EntryInv, Inside, NoOrphans
    <3>6. ApprovedOnlyByWhitelist'
      BY <2>15 DEF Sweep, AuditInv, HandlerInv, EntryInv, Inside,
         ApprovedOnlyByWhitelist, NoOrphans
    <3>7. WaiterCanWake'
      BY <2>15 DEF Sweep, AuditInv, HandlerInv, EntryInv, Inside, WaiterCanWake
    <3> QED BY <3>1, <3>2, <3>3, <3>4, <3>5, <3>6, <3>7 DEF AuditInv
  <2>16. CASE UNCHANGED vars
    <3>1. TypeOK'
      BY <2>16 DEF vars
    <3>2. HandlerInv' /\ EntryInv' /\ MsgsPosted'
      BY <2>16 DEF vars, AuditInv, HandlerInv, EntryInv, MsgsPosted
    <3>3. NoOrphans' /\ ApprovedOnlyByWhitelist' /\ WaiterCanWake'
      BY <2>16 DEF vars, AuditInv, NoOrphans, ApprovedOnlyByWhitelist, WaiterCanWake
    <3> QED BY <3>1, <3>2, <3>3 DEF AuditInv
  <2> HIDE DEF TypeOK, Id, Reactions, streamVars, approvalVars, kaVars, historyVars
  <2> QED
    BY <2>1, <2>2, <2>3, <2>4, <2>5, <2>6, <2>7, <2>8, <2>9, <2>10, <2>11, <2>12,
       <2>13, <2>14, <2>15, <2>16 DEF Next, Handler
<1> QED BY <1>1, <1>2, PTL DEF Spec

(* Every variable of the approval path keeps its type.                      *)
THEOREM AuditTypeCorrect == Spec => []TypeOK
  BY AuditInvariant, PTL

(* A flagged tool call passes only with a whitelisted member's approval of  *)
(* its own message, and never after anything refused it.                    *)
THEOREM ApprovalIsGenuine == Spec => []ApprovedOnlyByWhitelist
<1>1. AuditInv => ApprovedOnlyByWhitelist
  BY DEF AuditInv
<1> QED BY <1>1, AuditInvariant, PTL

(* No entry or message outlives the handler that waits on it, so the        *)
(* sweeper never meets an orphan.                                           *)
THEOREM NothingIsOrphaned == Spec => []NoOrphans
<1>1. AuditInv => NoOrphans
  BY DEF AuditInv
<1> QED BY <1>1, AuditInvariant, PTL

(* A waiting handler can always be woken.                                   *)
THEOREM WaitersCanWake == Spec => []WaiterCanWake
<1>1. AuditInv => WaiterCanWake
  BY DEF AuditInv
<1> QED BY <1>1, AuditInvariant, PTL

----------------------------------------------------------------------------
(* The approval path implements Approval                                    *)

(* The status of every approval, as Approval sees it.                       *)
Statuses == [n \in Id |-> CallStatus(n)]

(* What can be read off the status of an approval.                          *)
LEMMA StatusMeaning ==
    ASSUME TypeOK, NEW n \in Id
    PROVE  /\ outcome[n] = "approved" => CallStatus(n) = "granted"
           /\ outcome[n] \notin {"open", "approved"} => CallStatus(n) = "denied"
           /\ outcome[n] = "open" /\ n > seq => CallStatus(n) = "new"
           /\ outcome[n] = "open" /\ n <= seq =>
                /\ pending[n] = "yes" => CallStatus(n) = "approved"
                /\ pending[n] = "no" => CallStatus(n) = "refused"
                /\ pending[n] = "absent" => CallStatus(n) = "withdrawn"
                /\ pending[n] = "none" => CallStatus(n) = "open"
  BY AuditAssumption DEF CallStatus, TypeOK, Id

(* The status of an approval depends on nothing but its entry, its result   *)
(* and the last id given out.                                               *)
LEMMA StatusKept ==
    ASSUME UNCHANGED <<outcome, seq, pending, pressed>>
    PROVE  UNCHANGED Promise!vars
  BY DEF Promise!vars, CallStatus

(* A step that returns the result of one approval grants or denies it.      *)
LEMMA StatusReturned ==
    ASSUME TypeOK, AuditInv, TypeOK', NEW s \in Stream, pc[s] \in Inside,
           NEW result \in Outcomes \ {"open"},
           result = "approved" => pending[cur[s]] = "yes",
           outcome' = [outcome EXCEPT ![cur[s]] = result],
           \A n \in Id : n # cur[s] => pending'[n] = pending[n],
           UNCHANGED <<seq, pressed>>
    PROVE  Promise!Next
<1>1. PICK k \in Id : k = cur[s] /\ outcome[k] = "open" /\ k <= seq
  BY CurIsId, AuditAssumption DEF AuditInv, HandlerInv, Inside, TypeOK, Id
<1>2. Statuses[k] \in Promise!Open /\ (result = "approved" => Statuses[k] = "approved")
  BY <1>1, StatusMeaning DEF Statuses, TypeOK, Promise!Open
<1>3. CallStatus(k)' = IF result = "approved" THEN "granted" ELSE "denied"
  <2>1. outcome'[k] = result
    BY <1>1 DEF TypeOK
  <2> QED BY <2>1 DEF CallStatus, Outcomes
<1>4. ASSUME NEW n \in Id, n # k PROVE CallStatus(n)' = CallStatus(n)
  <2>1. outcome'[n] = outcome[n] /\ pending'[n] = pending[n]
    BY <1>1, <1>4 DEF TypeOK
  <2> QED BY <2>1 DEF CallStatus, TypeOK
<1>5. Statuses' = [Statuses EXCEPT ![k] = IF result = "approved" THEN "granted" ELSE "denied"]
  BY <1>3, <1>4 DEF Statuses
<1>6. CASE result = "approved"
  BY <1>2, <1>5, <1>6 DEF Promise!Next, Promise!Grant, Promise!Move, Statuses
<1>7. CASE result # "approved"
  BY <1>2, <1>5, <1>7 DEF Promise!Next, Promise!Deny, Promise!Move, Statuses
<1> QED BY <1>6, <1>7

(* Every step of the approval path is a step of Approval, or changes        *)
(* nothing there.                                                           *)
LEMMA AuditRefinementStep ==
    ASSUME TypeOK, AuditInv, TypeOK', [Next]_vars
    PROVE  [Promise!Next]_(Promise!vars)
<1> USE AuditAssumption DEF streamVars, approvalVars, kaVars, historyVars
<1>1. ASSUME NEW s \in Stream,
             Open(s) \/ Write(s) \/ Post(s) \/ Register(s) \/ Expire(s) \/ Finish(s)
                \/ LocalKeepaliveEnds(s)
      PROVE  UNCHANGED Promise!vars
  BY <1>1, StatusKept DEF Open, Write, Post, Register, Expire, Finish, LocalKeepaliveEnds
<1>2. ASSUME NEW n \in Id, KeepaliveEnds(n) PROVE UNCHANGED Promise!vars
  BY <1>2, StatusKept DEF KeepaliveEnds
<1>3. ASSUME NEW s \in Stream, Begin(s) PROVE Promise!Next
  <2>1. PICK k \in Id : k = seq + 1 /\ outcome[k] = "open"
    BY <1>3 DEF Begin, TypeOK, Id, AuditInv, EntryInv
  <2>2. seq' = k /\ pending' = [pending EXCEPT ![k] = "none"] /\ UNCHANGED <<outcome, pressed>>
    BY <1>3, <2>1 DEF Begin
  <2>3. Statuses[k] = "new"
    BY <2>1, StatusMeaning DEF Statuses, TypeOK, Id
  <2>4. CallStatus(k)' = "open"
    BY <2>1, <2>2 DEF CallStatus, TypeOK, Id
  <2>5. ASSUME NEW n \in Id, n # k PROVE CallStatus(n)' = CallStatus(n)
    <3>1. pending'[n] = pending[n] /\ (n > seq' <=> n > seq)
      BY <2>1, <2>2, <2>5 DEF TypeOK, Id
    <3> QED BY <2>2, <3>1 DEF CallStatus, TypeOK
  <2>6. Statuses' = [Statuses EXCEPT ![k] = "open"]
    BY <2>4, <2>5 DEF Statuses
  <2> QED BY <2>2, <2>3, <2>6 DEF Promise!Next, Promise!Submit, Promise!Move, Statuses
<1>4. ASSUME NEW s \in Stream, AskFailed(s) \/ Resume(s) \/ Expired(s) PROVE Promise!Next
  <2>1. pc[s] \in Inside /\ Drop(cur[s]) /\ UNCHANGED <<seq, pressed>>
    BY <1>4 DEF AskFailed, Resume, Expired, Inside
  <2>2. PICK result \in Outcomes \ {"open"} :
           /\ outcome' = [outcome EXCEPT ![cur[s]] = result]
           /\ result = "approved" => pending[cur[s]] = "yes"
    BY <1>4 DEF AskFailed, Resume, Expired, Return, Outcomes
  <2>3. \A n \in Id : n # cur[s] => pending'[n] = pending[n]
    BY <2>1 DEF Drop, TypeOK
  <2> QED BY <2>1, <2>2, <2>3, StatusReturned
<1>5. ASSUME NEW s \in Stream, Abort(s) PROVE [Promise!Next]_(Promise!vars)
  <2>1. ASSUME NEW n \in Id, n # cur[s] PROVE pending'[n] = pending[n]
    <3>1. CASE n \in created[s]
      <4>1. pending[n] = "absent"
        BY <2>1, <3>1 DEF AuditInv, NoOrphans, HandlerInv
      <4> QED BY <1>5, <3>1, <4>1 DEF Abort
    <3>2. CASE n \notin created[s]
      BY <1>5, <3>2 DEF Abort
    <3> QED BY <3>1, <3>2
  <2>2. CASE pc[s] \in Inside
    <3>1. outcome' = [outcome EXCEPT ![cur[s]] = "cancelled"]
      BY <1>5, <2>2, CurIsId DEF Abort, TypeOK
    <3> QED BY <1>5, <2>1, <2>2, <3>1, StatusReturned DEF Abort, Outcomes
  <2>3. CASE pc[s] \notin Inside
    <3>1. cur[s] = 0
      BY <2>3 DEF AuditInv, HandlerInv
    <3>2. \A n \in Id : n # cur[s]
      BY <3>1 DEF Id
    <3>3. outcome' = outcome /\ pending' = pending
      BY <1>5, <2>1, <3>2 DEF Abort, TypeOK
    <3> QED BY <1>5, <3>3, StatusKept DEF Abort
  <2> QED BY <2>2, <2>3
<1>6. ASSUME NEW n \in Id, NEW u \in User, NEW key \in Reactions, React(n, u, key)
      PROVE  Promise!Next
  <2>1. outcome[n] = "open" /\ n <= seq /\ pending[n] = "none" /\ u \in Whitelist
    BY <1>6, EntryIsOpen DEF React
  <2>2. Statuses[n] = "open"
    BY <2>1, StatusMeaning DEF Statuses
  <2>3. UNCHANGED <<outcome, seq>>
    BY <1>6 DEF React
  <2>4. ASSUME NEW m \in Id, m # n PROVE CallStatus(m)' = CallStatus(m)
    <3>1. pending'[m] = pending[m]
      BY <1>6, <2>4 DEF React, TypeOK
    <3> QED BY <2>3, <3>1 DEF CallStatus
  <2>5. CASE key = "approve"
    <3>1. pressed' = [pressed EXCEPT ![n] = @ \cup {u}]
      BY <1>6, <2>5 DEF React
    <3>2. CallStatus(n)' = "approved"
      <4>1. pending'[n] = "yes"
        BY <1>6, <2>5 DEF React, TypeOK
      <4> QED BY <2>1, <2>3, <4>1 DEF CallStatus, TypeOK, Id
    <3>3. Statuses' = [Statuses EXCEPT ![n] = "approved"]
      BY <2>4, <3>2 DEF Statuses
    <3> QED BY <2>1, <2>2, <3>1, <3>3 DEF Promise!Next, Promise!Press, Statuses
  <2>6. CASE key # "approve"
    <3>1. pressed' = pressed
      BY <1>6, <2>6 DEF React, TypeOK
    <3>2. CallStatus(n)' = "refused"
      <4>1. pending'[n] = "no"
        BY <1>6, <2>6 DEF React, TypeOK
      <4> QED BY <2>1, <2>3, <4>1 DEF CallStatus, TypeOK, Id
    <3>3. Statuses' = [Statuses EXCEPT ![n] = "refused"]
      BY <2>4, <3>2 DEF Statuses
    <3> QED BY <2>2, <3>1, <3>3 DEF Promise!Next, Promise!Refuse, Promise!Move, Statuses
  <2> QED BY <2>5, <2>6
<1>7. ASSUME Sweep PROVE Promise!Next
  <2> DEFINE C == {n \in Id : pending[n] = "none"}
  <2>1. /\ pending' = [n \in Id |-> IF n \in C THEN "absent" ELSE pending[n]]
        /\ UNCHANGED <<outcome, seq, pressed>>
    BY <1>7 DEF Sweep
  <2>2. \A n \in C : n \in Id /\ outcome[n] = "open" /\ n <= seq /\ pending[n] = "none"
    BY EntryIsOpen
  <2>3. \A n \in C : Statuses[n] \in Promise!Open
    BY <2>2, StatusMeaning DEF Statuses, Promise!Open
  <2> HIDE DEF C
  <2>4. ASSUME NEW n \in Id
        PROVE  CallStatus(n)' = IF n \in C THEN "withdrawn" ELSE CallStatus(n)
    <3>1. pending'[n] = IF n \in C THEN "absent" ELSE pending[n]
      BY <2>1
    <3> QED BY <2>1, <2>2, <3>1 DEF CallStatus, TypeOK, Id
  <2>5. Statuses' = [n \in Id |-> IF n \in C THEN "withdrawn" ELSE Statuses[n]]
    BY <2>4 DEF Statuses
  <2>6. C \in SUBSET {n \in Id : Statuses[n] \in Promise!Open}
    BY <2>2, <2>3
  <2> QED BY <2>1, <2>5, <2>6 DEF Promise!Next, Promise!Withdraw, Statuses
<1>8. CASE UNCHANGED vars
  BY <1>8, StatusKept DEF vars
<1> QED BY <1>1, <1>2, <1>3, <1>4, <1>5, <1>6, <1>7, <1>8 DEF Next, Handler

(* The approval of flagged tool calls implements Approval, whatever the     *)
(* number of streams, members and approvals: a call is let through exactly  *)
(* on the first decision of a whitelisted member, unless the sweeper, the   *)
(* timer or the end of the stream came first.                               *)
THEOREM AuditKeepsThePromise == Spec => ImplementsApproval
<1>1. Init => Promise!Init
  <2> SUFFICES ASSUME Init PROVE Promise!Init
    OBVIOUS
  <2>1. \A n \in Id : CallStatus(n) = "new"
    BY AuditAssumption DEF Init, CallStatus, Id
  <2> QED BY <2>1 DEF Init, Promise!Init
<1>2. TypeOK /\ AuditInv /\ TypeOK' /\ [Next]_vars => [Promise!Next]_(Promise!vars)
  BY AuditRefinementStep
<1> QED BY <1>1, <1>2, AuditInvariant, PTL DEF Spec, Promise!Spec, ImplementsApproval
============================================================================
