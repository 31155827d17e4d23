-------------------------- MODULE CredentialProxy --------------------------
(***************************************************************************)
(* The credential path of the proxy: HTTP requests (_credential.py), the   *)
(* Matrix room that approves them (_matrix.py), the TPM unlock tasks       *)
(* (_tpm.py) and the KeePass handle, all sharing one asyncio.Lock.         *)
(*                                                                         *)
(* Everything runs on one event loop, so a step of the model is the code   *)
(* between two awaits.  A block `async with self._lock` that awaits        *)
(* nothing is one step, enabled while the lock is free; the lock is a      *)
(* variable because _auto_unlock awaits an event while it holds it.        *)
(*                                                                         *)
(* A request is used once, so it names the objects made for it: its        *)
(* unlock asyncio.Event, its unlock_done event, its pending entry and its  *)
(* two Matrix messages.                                                    *)
(***************************************************************************)
EXTENDS Naturals, FiniteSets

CONSTANTS
    Req,            \* requests to /credential and /revoke
    User,           \* room members other than the bot
    Whitelist,      \* approval_whitelist; empty means every member may approve
    Kinds,          \* what authentication and the registry may say of a request
    MaxGen,         \* bound on _unlock_generation
    NoReq           \* stands for None

(* The reactions the bot listens to; every key but approve refuses.         *)
Reactions == {"approve", "autoUnlock", "reject"}

AllKinds == {"refused", "matrix", "auto", "autoUnlock", "revoke"}

ASSUME ProxyAssumption ==
    /\ NoReq \notin Req
    /\ Whitelist \subseteq User
    /\ Kinds \subseteq AllKinds
    /\ MaxGen \in Nat

VARIABLES
    pc,             \* where each request's handler is suspended
    kind,           \* the verdict on the request, fixed when it starts
    waitEvt,        \* the unlock event a handler waits for (its local variable)
    master,         \* is self.master_password loaded
    kp,             \* is self._kp an open KeePass handle
    unlockEvent,    \* self.unlock_event: the request that created it, or NoReq
    unlockMsg,      \* self._unlock_msg_id, named by the request that asked
    inProgress,     \* self._unlock_in_progress
    gen,            \* self._unlock_generation
    autoEvent,      \* self._auto_unlock_event
    unsealing,      \* generations of the running _do_unlock tasks
    autoGen,        \* generation of a request inside _auto_unlock
    evtSet,         \* unlock events that are set
    doneSet,        \* unlock_done events that are set
    pending,        \* self.pending_requests: the entry's `approved`, or "absent"
    decided,        \* requests whose pending entry's event is set
    approvalMsgs,   \* self.approval_msgs: message of a request -> request id
    posted,         \* messages the room shows
    lock,           \* the request that holds self._lock across an await
    sem,            \* the request that holds self._kp_semaphore
    recent,         \* has RATE_LIMIT_INTERVAL not yet passed since the last request
    down,           \* has shutdown() run its critical section
    pressed,        \* history: users who pressed approve on a request's message
    cancelled,      \* history: requests refused, or waiting for approval at a lock
    lockGen,        \* history: generation at the last `lock proxy`
    loadedBy        \* history: generation of the unlock that loaded the password

requestVars == <<pc, kind, waitEvt>>
unlockVars  == <<master, kp, unlockEvent, unlockMsg, inProgress, gen, autoEvent,
                 unsealing, autoGen, evtSet, doneSet, lockGen, loadedBy>>
pendingVars == <<pending, decided, approvalMsgs, cancelled>>
roomVars    == <<posted, pressed>>
syncVars    == <<lock, sem, recent, down>>
vars        == <<requestVars, unlockVars, pendingVars, roomVars, syncVars>>

Answers == {"released", "refused", "timeout", "limited", "unavailable", "error"}

Points == {"idle", "gate", "unlockAsk", "unlockFail", "unlockReg", "unlockWait",
           "unlockExpired", "request", "ask", "askFail", "reg", "wait", "expired",
           "final", "revokeAsk", "revokeReg", "autoGate", "autoUnlock", "autoUnseal",
           "autoWait", "query", "open", "cache", "find", "tokenize"}

----------------------------------------------------------------------------
(* Helpers                                                                 *)

Free == lock = NoReq

Goto(r, p) == pc' = [pc EXCEPT ![r] = p]

(* Variant: `event.set()` without testing that there is an event.           *)
EventSetUnchecked == evtSet \cup {unlockEvent}

(* `if event and not event.is_set(): event.set()`                          *)
WithUnlockEventSet == evtSet \cup ({unlockEvent} \ {NoReq})

(* Variant: the attempt is forgotten and its waiters are not woken.         *)
AbandonSilently ==
    /\ evtSet' = evtSet
    /\ unlockEvent' = NoReq
    /\ unlockMsg' = NoReq

(* Give up the current unlock attempt: wake its waiters and forget it.     *)
AbandonUnlock ==
    /\ evtSet' = WithUnlockEventSet
    /\ unlockEvent' = NoReq
    /\ unlockMsg' = NoReq

(* Variant: the entry goes and its messages stay.                           *)
CleanupEntryOnly(r) ==
    /\ pending' = [pending EXCEPT ![r] = "absent"]
    /\ UNCHANGED approvalMsgs

(* _cleanup_request: drop the entry and every message that points to it.   *)
Cleanup(r) ==
    /\ pending' = [pending EXCEPT ![r] = "absent"]
    /\ approvalMsgs' = [m \in Req |-> IF approvalMsgs[m] = r THEN NoReq
                                                            ELSE approvalMsgs[m]]

MayApprove(u) == Whitelist = {} \/ u \in Whitelist

----------------------------------------------------------------------------
Init ==
    /\ pc = [r \in Req |-> "idle"]
    /\ kind = [r \in Req |-> "refused"]
    /\ waitEvt = [r \in Req |-> NoReq]
    /\ master = FALSE
    /\ kp = FALSE
    /\ unlockEvent = NoReq
    /\ unlockMsg = NoReq
    /\ inProgress = FALSE
    /\ gen = 0
    /\ autoEvent = NoReq
    /\ unsealing = {}
    /\ autoGen = [r \in Req |-> 0]
    /\ evtSet = {}
    /\ doneSet = {}
    /\ pending = [r \in Req |-> "absent"]
    /\ decided = {}
    /\ approvalMsgs = [r \in Req |-> NoReq]
    /\ posted = {}
    /\ lock = NoReq
    /\ sem = NoReq
    /\ recent = FALSE
    /\ down = FALSE
    /\ pressed = [r \in Req |-> {}]
    /\ cancelled = {}
    /\ lockGen = 0
    /\ loadedBy = 0

----------------------------------------------------------------------------
(* A request arrives                                                       *)

(* Body checks, _require_auth, caller_hash, --raw, _check_auto_approve and  *)
(* _check_auto_rate_limit; the registry's verdict is the request's kind.    *)
Start(r) ==
    /\ pc[r] = "idle"
    /\ Free
    /\ \E k \in Kinds :
          /\ kind' = [kind EXCEPT ![r] = k]
          /\ Goto(r, CASE k = "refused" -> "refused"
                       [] k = "matrix"  -> "gate"
                       [] k = "revoke"  -> "revokeAsk"
                       [] OTHER         -> "autoGate")
    /\ UNCHANGED <<waitEvt, unlockVars, pendingVars, roomVars, syncVars>>

(* The locked block that rate-limits and creates or joins an unlock event. *)
Gate(r) ==
    /\ pc[r] = "gate"
    /\ Free
    /\ \/ /\ recent
          /\ Goto(r, "limited")
          /\ UNCHANGED <<waitEvt, unlockEvent, recent>>
       \/ /\ ~recent
          /\ recent' = TRUE
          /\ \/ /\ master
                /\ Goto(r, "request")
                /\ UNCHANGED <<waitEvt, unlockEvent>>
             \/ /\ ~master
                /\ unlockEvent = NoReq
                /\ unlockEvent' = r
                /\ waitEvt' = [waitEvt EXCEPT ![r] = r]
                /\ Goto(r, "unlockAsk")
             \/ /\ ~master
                /\ unlockEvent # NoReq
                /\ waitEvt' = [waitEvt EXCEPT ![r] = unlockEvent]
                /\ Goto(r, "unlockWait")
                /\ UNCHANGED unlockEvent
    /\ UNCHANGED <<kind, master, kp, unlockMsg, inProgress, gen, autoEvent, unsealing,
                   autoGen, evtSet, doneSet, lockGen, loadedBy, pendingVars, roomVars,
                   lock, sem, down>>

RateIntervalPasses ==
    /\ recent
    /\ recent' = FALSE
    /\ UNCHANGED <<requestVars, unlockVars, pendingVars, roomVars, lock, sem, down>>

----------------------------------------------------------------------------
(* Asking the room to unlock, and waiting for it                            *)

(* _ask returns an event id once the message and its reactions are sent,    *)
(* or None when room_send raises.                                           *)
UnlockAsk(r) ==
    /\ pc[r] = "unlockAsk"
    /\ \/ /\ posted' = posted \cup {<<"unlock", r>>}
          /\ Goto(r, "unlockReg")
       \/ /\ Goto(r, "unlockFail")
          /\ UNCHANGED posted
    /\ UNCHANGED <<kind, waitEvt, unlockVars, pendingVars, pressed, syncVars>>

UnlockRegister(r) ==
    /\ pc[r] = "unlockReg"
    /\ Free
    /\ unlockMsg' = r
    /\ Goto(r, "unlockWait")
    /\ UNCHANGED <<kind, waitEvt, master, kp, unlockEvent, inProgress, gen, autoEvent,
                   unsealing, autoGen, evtSet, doneSet, lockGen, loadedBy, pendingVars,
                   roomVars, syncVars>>

(* The message could not be sent, or the wait timed out: in both cases the  *)
(* CURRENT unlock attempt is abandoned, whoever started it.                 *)
UnlockGiveUp(r) ==
    /\ \/ pc[r] = "unlockFail" /\ Goto(r, "unavailable")
       \/ pc[r] = "unlockExpired" /\ Goto(r, "timeout")
    /\ Free
    /\ AbandonUnlock
    /\ UNCHANGED <<kind, waitEvt, master, kp, inProgress, gen, autoEvent, unsealing,
                   autoGen, doneSet, lockGen, loadedBy, pendingVars, roomVars, syncVars>>

UnlockWake(r) ==
    /\ pc[r] = "unlockWait"
    /\ waitEvt[r] \in evtSet
    /\ Goto(r, "request")
    /\ UNCHANGED <<kind, waitEvt, unlockVars, pendingVars, roomVars, syncVars>>

UnlockTimeout(r) ==
    /\ pc[r] = "unlockWait"
    /\ waitEvt[r] \notin evtSet
    /\ Goto(r, "unlockExpired")
    /\ UNCHANGED <<kind, waitEvt, unlockVars, pendingVars, roomVars, syncVars>>

----------------------------------------------------------------------------
(* Asking the room to approve the request                                   *)

CreatePending(r) ==
    /\ pc[r] = "request"
    /\ Free
    /\ IF master THEN /\ pending' = [pending EXCEPT ![r] = "none"]
                      /\ Goto(r, "ask")
                 ELSE /\ Goto(r, "refused")
                      /\ UNCHANGED pending
    /\ UNCHANGED <<kind, waitEvt, unlockVars, decided, approvalMsgs, cancelled, roomVars,
                   syncVars>>

(* handle_revoke asks first and creates its entry when the message is sent. *)
Ask(r) ==
    /\ pc[r] \in {"ask", "revokeAsk"}
    /\ \/ /\ posted' = posted \cup {<<"approve", r>>}
          /\ Goto(r, IF pc[r] = "ask" THEN "reg" ELSE "revokeReg")
       \/ /\ Goto(r, IF pc[r] = "ask" THEN "askFail" ELSE "unavailable")
          /\ UNCHANGED posted
    /\ UNCHANGED <<kind, waitEvt, unlockVars, pendingVars, pressed, syncVars>>

AskFailed(r) ==
    /\ pc[r] = "askFail"
    /\ Free
    /\ Cleanup(r)
    /\ Goto(r, "unavailable")
    /\ UNCHANGED <<kind, waitEvt, unlockVars, decided, cancelled, roomVars, syncVars>>

RegisterMsg(r) ==
    /\ pc[r] = "reg"
    /\ Free
    /\ approvalMsgs' = [approvalMsgs EXCEPT ![r] = r]
    /\ Goto(r, "wait")
    /\ UNCHANGED <<kind, waitEvt, unlockVars, pending, decided, cancelled, roomVars,
                   syncVars>>

RevokeRegister(r) ==
    /\ pc[r] = "revokeReg"
    /\ Free
    /\ pending' = [pending EXCEPT ![r] = "none"]
    /\ approvalMsgs' = [approvalMsgs EXCEPT ![r] = r]
    /\ Goto(r, "wait")
    /\ UNCHANGED <<kind, waitEvt, unlockVars, decided, cancelled, roomVars, syncVars>>

Wake(r) ==
    /\ pc[r] = "wait"
    /\ r \in decided
    /\ Goto(r, "final")
    /\ UNCHANGED <<kind, waitEvt, unlockVars, pendingVars, roomVars, syncVars>>

(* Variant: `await event.wait()` without a timeout.                         *)
NeverTimesOut(r) ==
    /\ pc[r] = "wait"
    /\ FALSE
    /\ UNCHANGED vars

Timeout(r) ==
    /\ pc[r] = "wait"
    /\ r \notin decided
    /\ Goto(r, "expired")
    /\ UNCHANGED <<kind, waitEvt, unlockVars, pendingVars, roomVars, syncVars>>

(* After the timer fired: an approval that slipped in still counts for a    *)
(* credential request, and no longer counts for a revocation.               *)
Expired(r) ==
    /\ pc[r] = "expired"
    /\ Free
    /\ \/ /\ kind[r] # "revoke" /\ pending[r] = "yes"
          /\ Goto(r, "final")
          /\ UNCHANGED <<pending, approvalMsgs>>
       \/ /\ kind[r] # "revoke" /\ pending[r] = "no"
          /\ Cleanup(r)
          /\ Goto(r, "refused")
       \/ /\ kind[r] = "revoke" \/ pending[r] \in {"none", "absent"}
          /\ Cleanup(r)
          /\ Goto(r, "timeout")
    /\ UNCHANGED <<kind, waitEvt, unlockVars, decided, cancelled, roomVars, syncVars>>

Final(r) ==
    /\ pc[r] = "final"
    /\ Free
    /\ Cleanup(r)
    /\ \/ pending[r] # "yes" /\ Goto(r, "refused")
       \/ pending[r] = "yes" /\ Goto(r, IF kind[r] = "revoke" THEN "released" ELSE "query")
    /\ UNCHANGED <<kind, waitEvt, unlockVars, decided, cancelled, roomVars, syncVars>>

----------------------------------------------------------------------------
(* Unlocking                                                                *)

(* Variant: the password is loaded and the waiters are not woken.           *)
LoadSilently(g) ==
    /\ master' = TRUE
    /\ kp' = FALSE
    /\ inProgress' = FALSE
    /\ evtSet' = evtSet
    /\ loadedBy' = g

(* master_password = pw; the cached KeePass handle is dropped and the       *)
(* waiters of the current unlock event are woken.                           *)
LoadPassword(g) ==
    /\ master' = TRUE
    /\ kp' = FALSE
    /\ inProgress' = FALSE
    /\ evtSet' = WithUnlockEventSet
    /\ loadedBy' = g

(* Variant: the generation is not compared.                                 *)
DoUnlockOkUnchecked(g) ==
    /\ g \in unsealing
    /\ Free
    /\ unsealing' = unsealing \ {g}
    /\ LoadPassword(g)
    /\ unlockMsg' = NoReq
    /\ UNCHANGED <<requestVars, unlockEvent, gen, autoEvent, autoGen, doneSet, lockGen,
                   pendingVars, roomVars, syncVars>>

(* The background task started by a reaction: the TPM returned a password.  *)
DoUnlockOk(g) ==
    /\ g \in unsealing
    /\ Free
    /\ unsealing' = unsealing \ {g}
    /\ \/ /\ g = gen
          /\ LoadPassword(g)
          /\ unlockMsg' = NoReq
       \/ /\ g # gen
          /\ inProgress' = FALSE
          /\ UNCHANGED <<master, kp, evtSet, loadedBy, unlockMsg>>
    /\ UNCHANGED <<requestVars, unlockEvent, gen, autoEvent, autoGen, doneSet, lockGen,
                   pendingVars, roomVars, syncVars>>

DoUnlockFail(g) ==
    /\ g \in unsealing
    /\ Free
    /\ unsealing' = unsealing \ {g}
    /\ inProgress' = FALSE
    /\ AbandonUnlock
    /\ UNCHANGED <<requestVars, master, kp, gen, autoEvent, autoGen, doneSet, lockGen,
                   loadedBy, pendingVars, roomVars, syncVars>>

(* _handle_auto_approve reads master_password without the lock.             *)
AutoGate(r) ==
    /\ pc[r] = "autoGate"
    /\ Goto(r, CASE master                   -> "query"
                 [] kind[r] = "autoUnlock" -> "autoUnlock"
                 [] OTHER                  -> "refused")
    /\ UNCHANGED <<kind, waitEvt, unlockVars, pendingVars, roomVars, syncVars>>

(* _auto_unlock's first block: start an unseal, or wait for the one in      *)
(* progress WITHOUT releasing the lock.                                     *)
AutoUnlock(r) ==
    /\ pc[r] = "autoUnlock"
    /\ Free
    /\ \/ /\ inProgress
          /\ lock' = r
          /\ Goto(r, "autoWait")
          /\ waitEvt' = [waitEvt EXCEPT ![r] =
                            IF autoEvent # NoReq THEN autoEvent ELSE unlockEvent]
          /\ UNCHANGED <<inProgress, gen, autoGen, autoEvent>>
       \/ /\ ~inProgress
          /\ gen < MaxGen
          /\ inProgress' = TRUE
          /\ gen' = gen + 1
          /\ autoGen' = [autoGen EXCEPT ![r] = gen + 1]
          /\ autoEvent' = r
          /\ Goto(r, "autoUnseal")
          /\ UNCHANGED <<lock, waitEvt>>
    /\ UNCHANGED <<kind, master, kp, unlockEvent, unlockMsg, unsealing, evtSet, doneSet,
                   lockGen, loadedBy, pendingVars, roomVars, sem, recent, down>>

(* Request r waits for another's unlock_done or for the unlock event; an    *)
(* event made on the spot (neither exists) is never set.                    *)
AutoWake(r) ==
    /\ pc[r] = "autoWait"
    /\ waitEvt[r] \in doneSet \cup evtSet
    /\ lock' = NoReq
    /\ Goto(r, "query")
    /\ UNCHANGED <<kind, waitEvt, unlockVars, pendingVars, roomVars, sem, recent, down>>

AutoUnsealOk(r) ==
    /\ pc[r] = "autoUnseal"
    /\ Free
    /\ Goto(r, "query")
    /\ \/ /\ autoGen[r] = gen
          /\ LoadPassword(gen)
          /\ autoEvent' = NoReq
          /\ doneSet' = doneSet \cup {r}
       \/ /\ autoGen[r] # gen
          /\ UNCHANGED <<master, kp, inProgress, evtSet, loadedBy, autoEvent, doneSet>>
    /\ UNCHANGED <<kind, waitEvt, unlockEvent, unlockMsg, gen, unsealing, autoGen, lockGen,
                   pendingVars, roomVars, syncVars>>

AutoUnsealFail(r) ==
    /\ pc[r] = "autoUnseal"
    /\ Free
    /\ Goto(r, "error")
    /\ inProgress' = FALSE
    /\ autoEvent' = NoReq
    /\ AbandonUnlock
    /\ doneSet' = doneSet \cup {r}
    /\ UNCHANGED <<kind, waitEvt, master, kp, gen, unsealing, autoGen, lockGen, loadedBy,
                   pendingVars, roomVars, syncVars>>

----------------------------------------------------------------------------
(* _query_and_return                                                        *)

(* Variant: no semaphore around the KeePass file.                           *)
QueryEnterUnguarded(r) ==
    /\ pc[r] = "query"
    /\ Free
    /\ sem' = r
    /\ Goto(r, IF kp THEN "find" ELSE "open")
    /\ UNCHANGED <<kind, waitEvt, unlockVars, pendingVars, roomVars, lock, recent, down>>

QueryEnter(r) ==
    /\ pc[r] = "query"
    /\ sem = NoReq
    /\ Free
    /\ sem' = r
    /\ Goto(r, IF kp THEN "find" ELSE "open")
    /\ UNCHANGED <<kind, waitEvt, unlockVars, pendingVars, roomVars, lock, recent, down>>

(* The executor thread reads self.master_password; without it, or on any    *)
(* other error, PyKeePass raises and the request fails.                     *)
Open(r) ==
    /\ pc[r] = "open"
    /\ \/ /\ master
          /\ Goto(r, "cache")
          /\ UNCHANGED sem
       \/ /\ Goto(r, "error")
          /\ sem' = NoReq
    /\ UNCHANGED <<kind, waitEvt, unlockVars, pendingVars, roomVars, lock, recent, down>>

CacheHandle(r) ==
    /\ pc[r] = "cache"
    /\ Free
    /\ kp' = TRUE
    /\ Goto(r, "find")
    /\ UNCHANGED <<kind, waitEvt, master, unlockEvent, unlockMsg, inProgress, gen,
                   autoEvent, unsealing, autoGen, evtSet, doneSet, lockGen, loadedBy,
                   pendingVars, roomVars, syncVars>>

(* find_entries, then the reply: raw at once, tokenized after               *)
(* _register_secret takes the lock; a missing entry is an error answer.     *)
Find(r) ==
    /\ pc[r] = "find"
    /\ sem' = NoReq
    /\ \E p \in {"released", "tokenize", "error"} : Goto(r, p)
    /\ UNCHANGED <<kind, waitEvt, unlockVars, pendingVars, roomVars, lock, recent, down>>

Tokenize(r) ==
    /\ pc[r] = "tokenize"
    /\ Free
    /\ Goto(r, "released")
    /\ UNCHANGED <<kind, waitEvt, unlockVars, pendingVars, roomVars, syncVars>>

----------------------------------------------------------------------------
(* The room                                                                 *)

(* Variant: the reaction is handled without taking the lock.                *)
OnUnlockMsgUnlocked(r) ==
    /\ <<"unlock", r>> \in posted
    /\ unlockEvent # NoReq /\ ~master /\ unlockMsg = r

(* on_reaction, branch 1: the message of the current unlock attempt.        *)
OnUnlockMsg(r) ==
    /\ <<"unlock", r>> \in posted
    /\ Free
    /\ unlockEvent # NoReq /\ ~master /\ unlockMsg = r

ReactUnlockApprove(r) ==
    /\ OnUnlockMsg(r)
    /\ ~inProgress
    /\ gen < MaxGen
    /\ inProgress' = TRUE
    /\ gen' = gen + 1
    /\ unsealing' = unsealing \cup {gen + 1}
    /\ UNCHANGED <<requestVars, master, kp, unlockEvent, unlockMsg, autoEvent, autoGen,
                   evtSet, doneSet, lockGen, loadedBy, pendingVars, roomVars, syncVars>>

(* Refusing wakes the waiters; a running _do_unlock is not told.            *)
ReactUnlockReject(r) ==
    /\ OnUnlockMsg(r)
    /\ AbandonUnlock
    /\ UNCHANGED <<requestVars, master, kp, inProgress, gen, autoEvent, unsealing, autoGen,
                   doneSet, lockGen, loadedBy, pendingVars, roomVars, syncVars>>

(* Variant: the sender is not looked up in the whitelist.                   *)
ReactApprovalByAnyone(m, u, key) ==
    /\ <<"approve", m>> \in posted
    /\ Free
    /\ pressed' = [pressed EXCEPT ![m] = @ \cup (IF key = "approve" THEN {u} ELSE {})]
    /\ LET r == approvalMsgs[m] IN
       IF r # NoReq /\ pending[r] = "none"
       THEN /\ pending' = [pending EXCEPT ![r] = IF key = "approve" THEN "yes" ELSE "no"]
            /\ decided' = decided \cup {r}
            /\ cancelled' = cancelled \cup (IF key = "approve" THEN {} ELSE {r})
       ELSE UNCHANGED <<pending, decided, cancelled>>
    /\ UNCHANGED <<requestVars, unlockVars, approvalMsgs, posted, syncVars>>

(* Variant: a later reaction changes a decision that was already made.      *)
ReactApprovalOverwrites(m, u, key) ==
    /\ <<"approve", m>> \in posted
    /\ Free
    /\ pressed' = [pressed EXCEPT ![m] = @ \cup (IF key = "approve" THEN {u} ELSE {})]
    /\ LET r == approvalMsgs[m] IN
       IF r # NoReq /\ MayApprove(u)
       THEN /\ pending' = [pending EXCEPT ![r] = IF key = "approve" THEN "yes" ELSE "no"]
            /\ decided' = decided \cup {r}
            /\ cancelled' = cancelled \cup (IF key = "approve" THEN {} ELSE {r})
       ELSE UNCHANGED <<pending, decided, cancelled>>
    /\ UNCHANGED <<requestVars, unlockVars, approvalMsgs, posted, syncVars>>

(* on_reaction, branch 4: the first decision of a whitelisted sender on a   *)
(* registered message.                                                      *)
ReactApproval(m, u, key) ==
    /\ <<"approve", m>> \in posted
    /\ Free
    /\ pressed' = [pressed EXCEPT ![m] = @ \cup (IF key = "approve" THEN {u} ELSE {})]
    /\ LET r == approvalMsgs[m] IN
       IF r # NoReq /\ MayApprove(u) /\ pending[r] = "none"
       THEN /\ pending' = [pending EXCEPT ![r] = IF key = "approve" THEN "yes" ELSE "no"]
            /\ decided' = decided \cup {r}
            /\ cancelled' = cancelled \cup (IF key = "approve" THEN {} ELSE {r})
       ELSE UNCHANGED <<pending, decided, cancelled>>
    /\ UNCHANGED <<requestVars, unlockVars, approvalMsgs, posted, syncVars>>

(* Variant: the lock wakes the waiting requests and keeps their entries.    *)
LockProxyKeepsEntries ==
    /\ Free
    /\ master' = FALSE
    /\ AbandonUnlock
    /\ inProgress' = FALSE
    /\ kp' = FALSE
    /\ decided' = decided \cup {r \in Req : pending[r] # "absent"}
    /\ cancelled' = cancelled \cup {r \in Req : pending[r] # "absent"}
    /\ lockGen' = gen
    /\ UNCHANGED <<requestVars, gen, autoEvent, unsealing, autoGen, doneSet, loadedBy,
                   pending, approvalMsgs, roomVars, syncVars>>

(* on_text, `lock proxy`.                                                   *)
LockProxy ==
    /\ Free
    /\ master' = FALSE
    /\ AbandonUnlock
    /\ inProgress' = FALSE
    /\ kp' = FALSE
    /\ decided' = decided \cup {r \in Req : pending[r] # "absent"}
    /\ cancelled' = cancelled \cup {r \in Req : pending[r] # "absent"}
    /\ pending' = [r \in Req |-> "absent"]
    /\ approvalMsgs' = [r \in Req |-> NoReq]
    /\ lockGen' = gen
    /\ UNCHANGED <<requestVars, gen, autoEvent, unsealing, autoGen, doneSet, loadedBy,
                   roomVars, syncVars>>

(* The critical section of shutdown(): everybody is woken, nobody decided.  *)
Shutdown ==
    /\ ~down
    /\ Free
    /\ down' = TRUE
    /\ master' = FALSE
    /\ kp' = FALSE
    /\ evtSet' = WithUnlockEventSet
    /\ decided' = decided \cup {r \in Req : pending[r] # "absent"}
    /\ UNCHANGED <<requestVars, unlockEvent, unlockMsg, inProgress, gen, autoEvent,
                   unsealing, autoGen, doneSet, lockGen, loadedBy, pending, approvalMsgs,
                   cancelled, roomVars, lock, sem, recent>>

----------------------------------------------------------------------------
(* A step of request r's own handler, once it has started.                  *)
Handler(r) ==
    \/ Gate(r) \/ UnlockAsk(r) \/ UnlockRegister(r) \/ UnlockGiveUp(r)
    \/ UnlockWake(r) \/ UnlockTimeout(r)
    \/ CreatePending(r) \/ Ask(r) \/ AskFailed(r) \/ RegisterMsg(r) \/ RevokeRegister(r)
    \/ Wake(r) \/ Timeout(r) \/ Expired(r) \/ Final(r)
    \/ AutoGate(r) \/ AutoUnlock(r) \/ AutoWake(r) \/ AutoUnsealOk(r) \/ AutoUnsealFail(r)
    \/ QueryEnter(r) \/ Open(r) \/ CacheHandle(r) \/ Find(r) \/ Tokenize(r)

UnlockTask(g) == DoUnlockOk(g) \/ DoUnlockFail(g)

Room ==
    \/ \E r \in Req : ReactUnlockApprove(r) \/ ReactUnlockReject(r)
    \/ \E m \in Req, u \in User, key \in Reactions : ReactApproval(m, u, key)
    \/ LockProxy

Next ==
    \/ \E r \in Req : Start(r) \/ Handler(r)
    \/ \E g \in 1..MaxGen : UnlockTask(g)
    \/ RateIntervalPasses
    \/ Room
    \/ Shutdown

Spec == Init /\ [][Next]_vars

(* The event loop runs every ready task, timers fire, and tpm2 and KeePass  *)
(* calls end (subprocess timeouts); people owe the proxy nothing.           *)
Fairness ==
    /\ \A r \in Req : WF_vars(Handler(r))
    /\ \A g \in 1..MaxGen : WF_vars(UnlockTask(g))

FairSpec == Spec /\ Fairness

----------------------------------------------------------------------------
(* Properties                                                               *)

RequestTypes ==
    /\ pc \in [Req -> Points \cup Answers]
    /\ kind \in [Req -> AllKinds]
    /\ waitEvt \in [Req -> Req \cup {NoReq}]

FlagTypes ==
    /\ master \in BOOLEAN /\ kp \in BOOLEAN
    /\ inProgress \in BOOLEAN
    /\ recent \in BOOLEAN /\ down \in BOOLEAN

UnlockTypes ==
    /\ unlockEvent \in Req \cup {NoReq}
    /\ unlockMsg \in Req \cup {NoReq}
    /\ autoEvent \in Req \cup {NoReq}
    /\ evtSet \subseteq Req /\ doneSet \subseteq Req
    /\ gen \in 0..MaxGen
    /\ unsealing \subseteq 1..MaxGen
    /\ autoGen \in [Req -> 0..MaxGen]
    /\ lockGen \in 0..MaxGen /\ loadedBy \in 0..MaxGen

PendingTypes ==
    /\ pending \in [Req -> {"absent", "none", "yes", "no"}]
    /\ decided \subseteq Req
    /\ approvalMsgs \in [Req -> Req \cup {NoReq}]
    /\ cancelled \subseteq Req

RoomTypes ==
    /\ posted \subseteq {"unlock", "approve"} \X Req
    /\ pressed \in [Req -> SUBSET User]
    /\ lock \in Req \cup {NoReq}
    /\ sem \in Req \cup {NoReq}

(* Every variable of the credential path has its type.                      *)
TypeOK == RequestTypes /\ FlagTypes /\ UnlockTypes /\ PendingTypes /\ RoomTypes

(* Stages of a handler.                                                    *)
ApprovalStage == {"ask", "askFail", "reg", "wait", "expired", "final"}
AutoStage     == {"autoGate", "autoUnlock", "autoUnseal", "autoWait"}
UnlockStage   == {"unlockAsk", "unlockReg", "unlockWait"}

(* What a request has gone through once it may read KeePass, or has its     *)
(* answer.                                                                  *)
PastApproval(r) ==
    pc[r] \in {"query", "open", "cache", "find", "tokenize", "released"}

(* A request that needs a person reaches KeePass (or its revocation is      *)
(* carried out) only if a member who may approve pressed approve on that    *)
(* very request's message (handle_credential, handle_revoke, branch 4 of    *)
(* on_reaction).                                                            *)
ReleaseNeedsOwnApproval ==
    \A r \in Req : PastApproval(r) /\ kind[r] \in {"matrix", "revoke"}
                      => \E u \in pressed[r] : MayApprove(u)

(* A request that was refused first, or that was waiting for approval when  *)
(* `lock proxy` came, is never carried out, even if it was approved just    *)
(* before the lock and its handler had not yet resumed.                     *)
CancelledNeverReleased == \A r \in cancelled : ~PastApproval(r)

(* No handler waits for an unlock event that nothing can set any more: the  *)
(* event is set, or it is still the proxy's current one.  All the places    *)
(* that replace self.unlock_event must set the old one first.               *)
NoOrphanedWaiter ==
    \A r \in Req : pc[r] \in UnlockStage
                      => waitEvt[r] \in evtSet \cup {unlockEvent}

(* Once the password is loaded no request is left waiting for the unlock:   *)
(* every event a handler waits for has been set.                            *)
UnlockedWakesAll ==
    master => \A r \in Req : pc[r] \in UnlockStage
                                => waitEvt[r] \in evtSet

(* An answered request leaves nothing behind in pending_requests and        *)
(* approval_msgs, whichever way it ended and whatever the lock command      *)
(* cleared in between.                                                      *)
NoLeftovers ==
    \A r \in Req : pc[r] \in Answers
        => pending[r] = "absent" /\ \A m \in Req : approvalMsgs[m] # r

(* KeePass is opened by one handler at a time, and the semaphore is held    *)
(* exactly while one is between acquiring it and reading the entry.         *)
KeePassExclusive ==
    \A r \in Req : (pc[r] \in {"open", "cache", "find"}) <=> (sem = r)

(* An unset approval event means nobody decided: a decision recorded in the *)
(* pending entry always wakes its handler.                                  *)
DecisionWakes == \A r \in Req : pending[r] \in {"yes", "no"} => r \in decided

(* An unlock that a newer one has outdated before the lock loads nothing:   *)
(* the password is that of the generation the last lock saw, or of a later  *)
(* one (the generation checks of _do_unlock and _auto_unlock).              *)
OutdatedUnlockLoadsNothing == master => loadedBy >= lockGen

(* self._lock is kept across an await by exactly the automatic requests that *)
(* wait for an unlock in progress; they have can_auto_unlock.  Every other  *)
(* handler, task, timer and command of the room, on each of its paths, has  *)
(* given it back by then (_auto_unlock).                                    *)
LockKeeper ==
    \A r \in Req : /\ lock = r <=> pc[r] = "autoWait"
                   /\ lock = r => kind[r] = "autoUnlock"

(* Handlers asleep inside the locked block of _auto_unlock, for an event    *)
(* that is not set.                                                         *)
AsleepOnLock(r) ==
    /\ pc[r] = "autoWait" /\ lock = r
    /\ waitEvt[r] \notin doneSet \cup evtSet

(* Such a handler never wakes: whoever would set its event needs the lock   *)
(* it holds, so that no step of the room, of a task or of another request   *)
(* ends the wait (_auto_unlock awaits the event inside `async with`).       *)
AsleepForGood == [][\A r \in Req : AsleepOnLock(r) => AsleepOnLock(r)']_vars

(* The inductive invariant behind the approval properties.                  *)

(* A message points to its own request, and only between its registration   *)
(* and the end of the request.                                              *)
MsgsInv ==
    \A m \in Req : \/ approvalMsgs[m] = NoReq
                   \/ approvalMsgs[m] = m /\ pc[m] \in {"wait", "expired", "final"}

(* Entries exist only in the approval stage, and a cancelled request has    *)
(* entered it, has no open or granted entry and will be refused.            *)
EntriesInv ==
    /\ \A r \in Req : pending[r] # "absent" => pc[r] \in ApprovalStage
    /\ \A r \in cancelled : /\ pending[r] \in {"no", "absent"}
                            /\ pc[r] \in ApprovalStage \cup (Answers \ {"released"})

GrantInv ==
    \A r \in Req : pending[r] = "yes" => \E u \in pressed[r] : MayApprove(u)

KindInv ==
    \A r \in Req : pc[r] \in AutoStage => kind[r] \in {"auto", "autoUnlock"}

ApprovalInv ==
    MsgsInv /\ EntriesInv /\ GrantInv /\ KindInv /\ ReleaseNeedsOwnApproval /\ DecisionWakes

(* The inductive invariant behind the unlock properties.                    *)
UnlockInv ==
    /\ \A r \in Req : pc[r] \in UnlockStage => waitEvt[r] \in Req
    /\ master => unlockEvent \in evtSet \cup {NoReq}
    /\ NoOrphanedWaiter

(* Every request is eventually answered: the person answers or a timer      *)
(* does.                                                                    *)
EveryRequestAnswered == \A r \in Req : pc[r] # "idle" ~> pc[r] \in Answers

(* The claim of the lock command ("Proxy locked"): the password is loaded   *)
(* only by an unlock that was started after the last lock.                  *)
LockStopsEarlierUnlocks == master => loadedBy > lockGen
============================================================================
