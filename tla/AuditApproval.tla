--------------------------- MODULE AuditApproval ---------------------------
(***************************************************************************)
(* Approval of flagged tool calls while an LLM answer streams              *)
(* (AUDIT_MODE=approve): _request_audit_approval and the end of the        *)
(* request handler in _llm.py, branch 5 of on_reaction in _matrix.py, and  *)
(* the periodic sweeper in _audit.py.                                      *)
(*                                                                         *)
(* A stream's handler is suspended inside at most one approval.  Approval  *)
(* ids are the values of _audit_pending_seq; an id also names its Matrix   *)
(* message, its asyncio.Event and the keepalive task it started.  The      *)
(* keepalive response and task live in two attributes of the proxy that    *)
(* all streams share.                                                      *)
(***************************************************************************)
EXTENDS Naturals

CONSTANTS
    Stream,         \* streaming requests
    Audited,        \* those on the audited (slow) path; the others only pass through
    User,           \* room members other than the bot
    Whitelist,      \* approval_whitelist, never empty in approve mode
    MaxSeq,         \* bound on the number of approvals
    None            \* stands for None

ASSUME AuditAssumption ==
    /\ Audited \subseteq Stream
    /\ Whitelist \subseteq User
    /\ MaxSeq \in Nat
    /\ None \notin Stream

Id == 1..MaxSeq

VARIABLES
    pc,             \* where each stream's handler is
    cur,            \* the approval a stream's handler is inside, or 0
    created,        \* _audit_created_ids_var of each stream's context
    seq,            \* _audit_pending_seq
    pending,        \* _audit_approval_pending: the entry's `approved`, or "absent"
    evtSet,         \* approvals whose event is set
    posted,         \* approval messages the room shows
    msgs,           \* _audit_approval_msgs: the registered messages
    outcome,        \* what _request_audit_approval returned
    kaResp,         \* self._audit_keepalive_resp
    kaTask,         \* self._audit_keepalive_task: the approval that started it, or 0
    running,        \* approval keepalive tasks that have not ended
    taskResp,       \* the response a keepalive task writes to
    buf,            \* does a stream hold unflushed text
    localKa,        \* does a stream's own keepalive task run
    pressed,        \* history: who pressed approve on a registered, undecided message
    refused,        \* history: approvals that were decided against
    sweptLive       \* history: approvals the sweeper refused while their stream waited

streamVars   == <<pc, cur, created, outcome>>
approvalVars == <<seq, pending, evtSet, posted, msgs>>
kaVars       == <<kaResp, kaTask, running, taskResp, buf, localKa>>
historyVars  == <<pressed, refused, sweptLive>>
vars         == <<streamVars, approvalVars, kaVars, historyVars>>

Reactions == {"approve", "autoUnlock", "reject"}

Outcomes == {"open", "approved", "rejected", "expired", "failed", "cancelled"}

----------------------------------------------------------------------------
Goto(s, p) == pc' = [pc EXCEPT ![s] = p]

SomePending == \E n \in Id : pending[n] # "absent"

Drop(n) == pending' = [pending EXCEPT ![n] = "absent"]

(* _request_audit_approval returns `result` to stream s.                    *)
Return(s, result) ==
    /\ outcome' = [outcome EXCEPT ![cur[s]] = result]
    /\ created' = [created EXCEPT ![s] = @ \ {cur[s]}]
    /\ cur' = [cur EXCEPT ![s] = 0]
    /\ Goto(s, "open")

----------------------------------------------------------------------------
Init ==
    /\ pc = [s \in Stream |-> "new"]
    /\ cur = [s \in Stream |-> 0]
    /\ created = [s \in Stream |-> {}]
    /\ seq = 0
    /\ pending = [n \in Id |-> "absent"]
    /\ evtSet = {}
    /\ posted = {}
    /\ msgs = {}
    /\ outcome = [n \in Id |-> "open"]
    /\ kaResp = None
    /\ kaTask = 0
    /\ running = {}
    /\ taskResp = [n \in Id |-> None]
    /\ buf = [s \in Stream |-> FALSE]
    /\ localKa = [s \in Stream |-> FALSE]
    /\ pressed = [n \in Id |-> {}]
    /\ refused = {}
    /\ sweptLive = {}

(* The upstream answered with an event stream: every stream takes over the  *)
(* shared keepalive attributes, whatever they held.                         *)
Open(s) ==
    /\ pc[s] = "new"
    /\ Goto(s, "open")
    /\ kaResp' = s
    /\ kaTask' = 0
    /\ UNCHANGED <<cur, created, outcome, approvalVars, running, taskResp, buf, localKa,
                   historyVars>>

(* _tracked_write, then _reset_keepalive: the stream's own task is          *)
(* cancelled, and started again if text is held or any approval is open.    *)
Write(s) ==
    /\ pc[s] = "open"
    /\ s \in Audited
    /\ \E held \in BOOLEAN :
          /\ buf' = [buf EXCEPT ![s] = held]
          /\ localKa' = [localKa EXCEPT ![s] = held \/ SomePending]
    /\ UNCHANGED <<streamVars, approvalVars, kaResp, kaTask, running, taskResp,
                   historyVars>>

(* Variant: the keepalive is started without a response to write to.        *)
BeginUnguarded(s) ==
    /\ pc[s] = "open"
    /\ s \in Audited
    /\ seq < MaxSeq
    /\ LET n == seq + 1 IN
       /\ seq' = n
       /\ cur' = [cur EXCEPT ![s] = n]
       /\ created' = [created EXCEPT ![s] = @ \cup {n}]
       /\ pending' = [pending EXCEPT ![n] = "none"]
       /\ IF kaTask = 0
          THEN /\ kaTask' = n
               /\ running' = running \cup {n}
               /\ taskResp' = [taskResp EXCEPT ![n] = kaResp]
          ELSE UNCHANGED <<kaTask, running, taskResp>>
    /\ Goto(s, "asking")
    /\ UNCHANGED <<outcome, evtSet, posted, msgs, kaResp, buf, localKa, historyVars>>

(* A flagged tool call: allocate the id, register the entry, and start the  *)
(* keepalive of the approval window if none is recorded.                    *)
Begin(s) ==
    /\ pc[s] = "open"
    /\ s \in Audited
    /\ seq < MaxSeq
    /\ LET n == seq + 1 IN
       /\ seq' = n
       /\ cur' = [cur EXCEPT ![s] = n]
       /\ created' = [created EXCEPT ![s] = @ \cup {n}]
       /\ pending' = [pending EXCEPT ![n] = "none"]
       /\ IF kaResp # None /\ kaTask = 0
          THEN /\ kaTask' = n
               /\ running' = running \cup {n}
               /\ taskResp' = [taskResp EXCEPT ![n] = kaResp]
          ELSE UNCHANGED <<kaTask, running, taskResp>>
    /\ Goto(s, "asking")
    /\ UNCHANGED <<outcome, evtSet, posted, msgs, kaResp, buf, localKa, historyVars>>

(* _ask: the message appears in the room before _ask returns its id.        *)
Post(s) ==
    /\ pc[s] = "asking"
    /\ cur[s] \notin posted
    /\ posted' = posted \cup {cur[s]}
    /\ UNCHANGED <<streamVars, seq, pending, evtSet, msgs, kaVars, historyVars>>

Register(s) ==
    /\ pc[s] = "asking"
    /\ cur[s] \in posted
    /\ msgs' = msgs \cup {cur[s]}
    /\ Goto(s, "waiting")
    /\ UNCHANGED <<cur, created, outcome, seq, pending, evtSet, posted, kaVars,
                   historyVars>>

(* _ask returned None or raised.                                            *)
AskFailed(s) ==
    /\ pc[s] = "asking"
    /\ cur[s] \notin posted
    /\ Drop(cur[s])
    /\ Return(s, "failed")
    /\ UNCHANGED <<seq, evtSet, posted, msgs, kaVars, historyVars>>

(* Variant: the set event is taken for an approval.                         *)
ResumeOnEvent(s) ==
    /\ pc[s] = "waiting"
    /\ cur[s] \in evtSet
    /\ Drop(cur[s])
    /\ msgs' = msgs \ {cur[s]}
    /\ Return(s, "approved")
    /\ UNCHANGED <<seq, evtSet, posted, kaVars, historyVars>>

(* The event is set: only an entry that is still there and approved counts. *)
Resume(s) ==
    /\ pc[s] = "waiting"
    /\ cur[s] \in evtSet
    /\ Drop(cur[s])
    /\ msgs' = msgs \ {cur[s]}
    /\ Return(s, IF pending[cur[s]] = "yes" THEN "approved" ELSE "rejected")
    /\ UNCHANGED <<seq, evtSet, posted, kaVars, historyVars>>

(* Variant: the wait has no timeout.                                        *)
NeverExpires(s) ==
    /\ pc[s] = "waiting"
    /\ FALSE
    /\ UNCHANGED vars

(* AUDIT_TIMEOUT: a decision that arrives between the timer and the handler *)
(* resuming is dropped with the entry.                                      *)
Expire(s) ==
    /\ pc[s] = "waiting"
    /\ Goto(s, "expired")
    /\ cur[s] \notin evtSet
    /\ UNCHANGED <<cur, created, outcome, approvalVars, kaVars, historyVars>>

(* Variant: the timeout path forgets the message registration.              *)
ExpiredKeepsMessage(s) ==
    /\ pc[s] = "expired"
    /\ Drop(cur[s])
    /\ Return(s, "expired")
    /\ UNCHANGED <<seq, evtSet, posted, msgs, kaVars, historyVars>>

Expired(s) ==
    /\ pc[s] = "expired"
    /\ Drop(cur[s])
    /\ msgs' = msgs \ {cur[s]}
    /\ Return(s, "expired")
    /\ UNCHANGED <<seq, evtSet, posted, kaVars, historyVars>>

(* The handler's task is cancelled at an await, or fails: the finally block *)
(* refuses and removes the approvals its context created.  The shared       *)
(* keepalive attributes are not reset on this path.                         *)
Abort(s) ==
    /\ pc[s] \in {"open", "asking", "waiting", "expired"}
    /\ Goto(s, "ended")
    /\ evtSet' = evtSet \cup {n \in created[s] : pending[n] = "none"}
    /\ refused' = refused \cup {n \in created[s] : pending[n] = "none"}
    /\ pending' = [n \in Id |-> IF n \in created[s] THEN "absent" ELSE pending[n]]
    /\ msgs' = msgs \ created[s]
    /\ outcome' = [n \in Id |-> IF n = cur[s] THEN "cancelled" ELSE outcome[n]]
    /\ cur' = [cur EXCEPT ![s] = 0]
    /\ UNCHANGED <<created, seq, posted, kaVars, pressed, sweptLive>>

(* The stream ends normally.  The audited path clears the shared keepalive  *)
(* attributes and cancels the task they name, whoever it works for.         *)
Finish(s) ==
    /\ pc[s] = "open"
    /\ Goto(s, "ended")
    /\ localKa' = [localKa EXCEPT ![s] = FALSE]
    /\ IF s \in Audited
       THEN /\ kaResp' = None
            /\ kaTask' = 0
            /\ running' = running \ {kaTask}
       ELSE UNCHANGED <<kaResp, kaTask, running>>
    /\ UNCHANGED <<cur, created, outcome, approvalVars, taskResp, buf, historyVars>>

(* An approval keepalive task wakes up and finds no approval open (or its   *)
(* write fails); its handle stays in self._audit_keepalive_task.            *)
KeepaliveEnds(n) ==
    /\ n \in running
    /\ ~SomePending \/ pc[taskResp[n]] = "ended"
    /\ running' = running \ {n}
    /\ UNCHANGED <<streamVars, approvalVars, kaResp, kaTask, taskResp, buf, localKa,
                   historyVars>>

LocalKeepaliveEnds(s) ==
    /\ localKa[s]
    /\ ~buf[s] /\ ~SomePending
    /\ localKa' = [localKa EXCEPT ![s] = FALSE]
    /\ UNCHANGED <<streamVars, approvalVars, kaResp, kaTask, running, taskResp, buf,
                   historyVars>>

(* Variant: any member of the room decides.                                 *)
ReactByAnyone(n, u, key) ==
    /\ n \in posted
    /\ n \in msgs
    /\ pending[n] = "none"
    /\ pending' = [pending EXCEPT ![n] = IF key = "approve" THEN "yes" ELSE "no"]
    /\ evtSet' = evtSet \cup {n}
    /\ pressed' = [pressed EXCEPT ![n] = @ \cup (IF key = "approve" THEN {u} ELSE {})]
    /\ refused' = refused \cup (IF key = "approve" THEN {} ELSE {n})
    /\ UNCHANGED <<streamVars, seq, posted, msgs, kaVars, sweptLive>>

(* on_reaction, branch 5.                                                   *)
React(n, u, key) ==
    /\ n \in posted
    /\ n \in msgs
    /\ u \in Whitelist
    /\ pending[n] = "none"
    /\ pending' = [pending EXCEPT ![n] = IF key = "approve" THEN "yes" ELSE "no"]
    /\ evtSet' = evtSet \cup {n}
    /\ pressed' = [pressed EXCEPT ![n] = @ \cup (IF key = "approve" THEN {u} ELSE {})]
    /\ refused' = refused \cup (IF key = "approve" THEN {} ELSE {n})
    /\ UNCHANGED <<streamVars, seq, posted, msgs, kaVars, sweptLive>>

(* Variant: swept entries are removed and nobody is woken.                  *)
SweepSilently ==
    LET undecided == {n \in Id : pending[n] = "none"} IN
    /\ undecided # {}
    /\ pending' = [n \in Id |-> IF n \in undecided THEN "absent" ELSE pending[n]]
    /\ refused' = refused \cup undecided
    /\ sweptLive' = sweptLive \cup {n \in undecided : \E s \in Stream : cur[s] = n}
    /\ UNCHANGED <<streamVars, seq, evtSet, posted, msgs, kaVars, pressed>>

(* Every 60 s: every undecided entry is refused and removed.                *)
Sweep ==
    LET undecided == {n \in Id : pending[n] = "none"} IN
    /\ undecided # {}
    /\ pending' = [n \in Id |-> IF n \in undecided THEN "absent" ELSE pending[n]]
    /\ evtSet' = evtSet \cup undecided
    /\ refused' = refused \cup undecided
    /\ sweptLive' = sweptLive \cup {n \in undecided : \E s \in Stream : cur[s] = n}
    /\ UNCHANGED <<streamVars, seq, posted, msgs, kaVars, pressed>>

----------------------------------------------------------------------------
Handler(s) ==
    Post(s) \/ Register(s) \/ AskFailed(s) \/ Resume(s) \/ Expire(s) \/ Expired(s)

Next ==
    \/ \E s \in Stream : Open(s) \/ Write(s) \/ Begin(s) \/ Handler(s) \/ Abort(s)
                            \/ Finish(s) \/ LocalKeepaliveEnds(s)
    \/ \E n \in Id : KeepaliveEnds(n)
    \/ \E n \in Id, u \in User, key \in Reactions : React(n, u, key)
    \/ Sweep

Spec == Init /\ [][Next]_vars

(* A handler inside an approval runs whenever it can, and its timer fires.  *)
FairSpec == Spec /\ \A s \in Stream : WF_vars(Handler(s))

----------------------------------------------------------------------------
(* Every variable of the approval path has its type, and a running          *)
(* keepalive task has a response to write to.                               *)
TypeOK ==
    /\ pc \in [Stream -> {"new", "open", "asking", "waiting", "expired", "ended"}]
    /\ cur \in [Stream -> Id \cup {0}]
    /\ created \in [Stream -> SUBSET Id]
    /\ seq \in 0..MaxSeq
    /\ pending \in [Id -> {"absent", "none", "yes", "no"}]
    /\ evtSet \subseteq Id /\ posted \subseteq Id /\ msgs \subseteq Id
    /\ outcome \in [Id -> Outcomes]
    /\ kaResp \in Stream \cup {None}
    /\ kaTask \in Id \cup {0}
    /\ running \subseteq Id
    /\ taskResp \in [Id -> Stream \cup {None}]
    /\ \A n \in running : taskResp[n] # None
    /\ buf \in [Stream -> BOOLEAN] /\ localKa \in [Stream -> BOOLEAN]
    /\ pressed \in [Id -> SUBSET User]
    /\ refused \subseteq Id /\ sweptLive \subseteq Id

(* A flagged tool call is let through only if a whitelisted member pressed  *)
(* approve on its own message, and nothing (a reject, the sweeper, the end  *)
(* of the stream) had refused it, in whatever order they came.              *)
ApprovedOnlyByWhitelist ==
    \A n \in Id : outcome[n] = "approved"
        => n \notin refused /\ pressed[n] \cap Whitelist # {}

(* Entries and messages live no longer than the handler that waits on them: *)
(* nothing is left to clean up once the call has returned or the stream has *)
(* ended, whatever path it took.                                            *)
NoOrphans ==
    \A n \in Id : pending[n] # "absent" \/ n \in msgs
        => \E s \in Stream : cur[s] = n /\ n \in created[s]
                                /\ pc[s] \in {"asking", "waiting", "expired"}

(* No handler sleeps on an approval that nobody can decide any more: a      *)
(* waiting handler has an undecided entry with a registered message, or its *)
(* event is set.                                                            *)
WaiterCanWake ==
    \A s \in Stream : pc[s] = "waiting"
        => cur[s] \in evtSet \/ (pending[cur[s]] = "none" /\ cur[s] \in msgs)

(* The inductive invariant.                                                 *)

Inside == {"asking", "waiting", "expired"}

(* A handler is inside an approval exactly when it has a current id, which  *)
(* is one its own context created and has not returned from.                *)
HandlerInv ==
    /\ \A s \in Stream : cur[s] # 0 <=> pc[s] \in Inside
    /\ \A s \in Stream : cur[s] # 0 => cur[s] \in created[s] /\ outcome[cur[s]] = "open"
    /\ \A s \in Stream : \A n \in created[s] : n <= seq
    /\ \A s, t \in Stream : \A n \in created[s] : n \in created[t] => s = t

(* A granted entry has its approver; what was refused can not be granted;   *)
(* and an entry is undecided, or its event is set, before the handler waits.*)
EntryInv ==
    /\ \A n \in Id : pending[n] = "yes" => pressed[n] \cap Whitelist # {}
    /\ \A n \in refused : n <= seq /\ pending[n] \in {"absent", "no"}
    /\ \A n \in Id : outcome[n] # "open" => n <= seq
    /\ \A s \in Stream : pc[s] = "asking"
           => cur[s] \in evtSet \/ pending[cur[s]] = "none"

(* Only messages the room shows are registered.                             *)
MsgsPosted == msgs \subseteq posted

AuditInv ==
    /\ HandlerInv /\ EntryInv /\ MsgsPosted /\ NoOrphans
    /\ ApprovedOnlyByWhitelist /\ WaiterCanWake

(* Every approval is settled: by a person, a timer, the sweeper or the end  *)
(* of the stream.                                                           *)
ApprovalSettles ==
    \A s \in Stream : pc[s] \in {"asking", "waiting"} ~> cur[s] = 0

(* The claim of the sweeper's documentation: only orphans, whose stream has *)
(* ended, are swept.                                                        *)
SweepsOnlyOrphans == sweptLive = {}

(* The claim of the keepalive comments: a stream that waits for an approval *)
(* is kept alive by some task that writes to its response.                  *)
WaitingIsKeptAlive ==
    \A s \in Stream : pc[s] = "waiting"
        => localKa[s] \/ \E n \in running : taskResp[n] = s
============================================================================
