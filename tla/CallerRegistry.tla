--------------------------- MODULE CallerRegistry ---------------------------
(***************************************************************************)
(* The registry of callers (_registry.py) and the endpoints that change it *)
(* (_credential.py): registration with the room's approval, revocation,    *)
(* detection and approval of a changed script hash, and the registry file  *)
(* that survives a restart.                                                *)
(*                                                                         *)
(* A registration handler runs once, so it names the reg_id it creates and *)
(* its Matrix message; a hash-change message is named by the registration  *)
(* and the hash it announces.  _save_caller_registry runs with self._lock  *)
(* held, so a change of the registry and its save are one step: a crash    *)
(* inside it loses both.                                                   *)
(***************************************************************************)
EXTENDS Naturals, Sequences, FiniteSets

CONSTANTS
    Reg,            \* calls of /register-caller, and the reg_ids they create
    Revoker,        \* concurrent calls of /revoke and /revoke/emergency
    Name,           \* caller names
    Path,           \* script paths
    Hash,           \* script hashes
    MaxTasks,       \* bound on hash-change decisions under way
    DiskMayFail,    \* may writing caller_registry.json raise
    NoReg           \* stands for None

ASSUME RegistryAssumption ==
    /\ NoReg \notin Reg \cup Hash
    /\ MaxTasks \in Nat
    /\ DiskMayFail \in BOOLEAN

Keys == {"auto", "normal", "reject"}      \* the reactions, by their meaning here

Absent == [hash |-> NoReg, mode |-> "manual", enabled |-> FALSE, notified |-> FALSE]

Caller == [hash : Hash, mode : {"manual", "auto"}, enabled : BOOLEAN, notified : BOOLEAN]
             \cup {Absent}

VARIABLES
    pc,             \* where each registration handler is
    regName, regPath,           \* name and script_path of a registration
    decision,       \* pending['approved'] of a registration handler
    regOpen,        \* registrations in _registration_pending and _registration_msgs
    registry,       \* _caller_registry
    order,          \* its insertion order, over every registration ever inserted
    byName, byPath, \* _registrations_by_name, _caller_registry_by_path
    disk,           \* caller_registry.json
    target,         \* the reg_id a revocation has looked up
    seen,           \* requests that saw a hash mismatch: <<registration, new hash>>
    asking,         \* hash-change notifications being sent
    hcMsgs,         \* _hash_change_msgs
    hcPending,      \* _hash_change_pending: the new hash, or NoReg
    hcDecided,      \* entries of it whose result is set
    tasks,          \* _resolve_hash_change calls that have not run
    accepted,       \* history: <<registration, hash>> somebody accepted
    revoked         \* history: registrations whose revocation was answered

handlerVars == <<pc, regName, regPath, decision, regOpen>>
storeVars   == <<registry, order, byName, byPath, disk>>
changeVars  == <<seen, asking, hcMsgs, hcPending, hcDecided, tasks>>
historyVars == <<accepted, revoked>>
vars        == <<handlerVars, storeVars, target, changeVars, historyVars>>

----------------------------------------------------------------------------
Goto(r, p) == pc' = [pc EXCEPT ![r] = p]

Present(r) == registry[r] # Absent

(* _lookup_by_name                                                          *)
LookupByName(n) == byName[n] # NoReg /\ Present(byName[n])

(* _find_caller_by_hash: hash_change_at is never set to anything but 0, so  *)
(* the grace-period alternative is never taken.                             *)
FindByHash(h, p) ==
    {r \in Reg : Present(r) /\ registry[r].enabled /\ registry[r].hash = h /\ regPath[r] = p}

(* _save_caller_registry of the registry `new`; `ok` tells whether the      *)
(* write and the rename succeeded.                                          *)
Save(new, ok) ==
    /\ ok \/ DiskMayFail
    /\ disk' = IF ok THEN new ELSE disk

(* Variant: the entry is removed in memory and the file is not written.     *)
RevokeCallerUnsaved(r, ok) ==
    /\ ok
    /\ IF Present(r)
       THEN /\ registry' = [registry EXCEPT ![r] = Absent]
            /\ byName' = [byName EXCEPT ![regName[r]] = NoReg]
            /\ byPath' = [byPath EXCEPT ![regPath[r]] = NoReg]
       ELSE UNCHANGED <<registry, byName, byPath>>
    /\ UNCHANGED disk

(* Variant: the path index is forgotten.                                    *)
RevokeCallerKeepsPath(r, ok) ==
    IF Present(r)
    THEN /\ registry' = [registry EXCEPT ![r] = Absent]
         /\ byName' = [byName EXCEPT ![regName[r]] = NoReg]
         /\ UNCHANGED byPath
         /\ Save(registry', ok)
    ELSE /\ ok
         /\ UNCHANGED <<registry, byName, byPath, disk>>

(* _revoke_caller: the entry leaves the registry and both indexes, whatever *)
(* registration the indexes name by now.                                    *)
RevokeCaller(r, ok) ==
    IF Present(r)
    THEN /\ registry' = [registry EXCEPT ![r] = Absent]
         /\ byName' = [byName EXCEPT ![regName[r]] = NoReg]
         /\ byPath' = [byPath EXCEPT ![regPath[r]] = NoReg]
         /\ Save(registry', ok)
    ELSE /\ ok
         /\ UNCHANGED <<registry, byName, byPath, disk>>

(* _load_caller_registry: of two entries with one name (or path), the index *)
(* keeps the one loaded last.                                               *)
LastLoaded(S) ==
    IF S = {} THEN NoReg
    ELSE LET at(r) == CHOOSE i \in DOMAIN order : order[i] = r
         IN CHOOSE r \in S : \A s \in S : at(s) <= at(r)

----------------------------------------------------------------------------
Init ==
    /\ pc = [r \in Reg |-> "idle"]
    /\ regName \in [Reg -> Name]
    /\ regPath \in [Reg -> Path]
    /\ decision = [r \in Reg |-> "none"]
    /\ regOpen = {}
    /\ registry = [r \in Reg |-> Absent]
    /\ order = <<>>
    /\ byName = [n \in Name |-> NoReg]
    /\ byPath = [p \in Path |-> NoReg]
    /\ disk = [r \in Reg |-> Absent]
    /\ target = [x \in Revoker |-> NoReg]
    /\ seen = {} /\ asking = {} /\ hcMsgs = {}
    /\ hcPending = [r \in Reg |-> NoReg]
    /\ hcDecided = {}
    /\ tasks = {}
    /\ accepted = {}
    /\ revoked = {}

----------------------------------------------------------------------------
(* Registration: handle_register_caller                                     *)

(* _name_exists, in a critical section of its own.                          *)
CheckName(r) ==
    /\ pc[r] = "idle"
    /\ IF byName[regName[r]] # NoReg \/ \E s \in regOpen : regName[s] = regName[r]
       THEN Goto(r, "conflict")
       ELSE Goto(r, "insert")
    /\ UNCHANGED <<regName, regPath, decision, regOpen, storeVars, target,
                   changeVars, historyVars>>

(* _register_caller: disabled until approved, and not saved.                *)
Insert(r) ==
    /\ pc[r] = "insert"
    /\ \E h \in Hash, m \in {"manual", "auto"} :
          /\ registry' = [registry EXCEPT ![r] = [hash |-> h, mode |-> m,
                                                  enabled |-> FALSE, notified |-> FALSE]]
          /\ accepted' = accepted \cup {<<r, h>>}
    /\ order' = Append(order, r)
    /\ byName' = [byName EXCEPT ![regName[r]] = r]
    /\ byPath' = [byPath EXCEPT ![regPath[r]] = r]
    /\ Goto(r, "ask")
    /\ UNCHANGED <<regName, regPath, decision, regOpen, disk, target, changeVars, revoked>>

(* _ask returns the message's id or None; reactions are ignored until the   *)
(* message is registered.                                                   *)
AskRegistration(r) ==
    /\ pc[r] = "ask"
    /\ Goto(r, "open") \/ Goto(r, "drop")
    /\ UNCHANGED <<regName, regPath, decision, regOpen, storeVars, target, changeVars,
                   historyVars>>

OpenPending(r) ==
    /\ pc[r] = "open"
    /\ regOpen' = regOpen \cup {r}
    /\ Goto(r, "wait")
    /\ UNCHANGED <<regName, regPath, decision, storeVars, target, changeVars,
                   historyVars>>

(* on_reaction, branch 2.                                                   *)
ReactRegistration(r, key) ==
    /\ r \in regOpen
    /\ decision[r] = "none"
    /\ decision' = [decision EXCEPT ![r] = key]
    /\ UNCHANGED <<pc, regName, regPath, regOpen, storeVars, target, changeVars,
                   accepted, revoked>>

WakeRegistration(r) ==
    /\ pc[r] = "wait"
    /\ decision[r] # "none"
    /\ Goto(r, "woken")
    /\ UNCHANGED <<regName, regPath, decision, regOpen, storeVars, target,
                   changeVars, historyVars>>

RegistrationTimeout(r) ==
    /\ pc[r] = "wait"
    /\ decision[r] = "none"
    /\ Goto(r, "expired")
    /\ UNCHANGED <<regName, regPath, decision, regOpen, storeVars, target,
                   changeVars, historyVars>>

(* Variant: a timeout is not told from an approval.                         *)
CloseAndActivate(r) ==
    /\ pc[r] \in {"woken", "expired"}
    /\ regOpen' = regOpen \ {r}
    /\ Goto(r, IF decision[r] = "reject" THEN "drop" ELSE "activate")
    /\ UNCHANGED <<regName, regPath, decision, storeVars, target, changeVars, historyVars>>

(* The pending entry and its message are removed; a decision that came      *)
(* after the timer fired is lost.                                           *)
ClosePending(r) ==
    /\ pc[r] \in {"woken", "expired"}
    /\ regOpen' = regOpen \ {r}
    /\ Goto(r, IF pc[r] = "expired" \/ decision[r] = "reject" THEN "drop" ELSE "activate")
    /\ UNCHANGED <<regName, regPath, decision, storeVars, target, changeVars,
                   historyVars>>

DropRegistration(r) ==
    /\ pc[r] = "drop"
    /\ \E ok \in BOOLEAN : RevokeCaller(r, ok)
    /\ Goto(r, "done")
    /\ UNCHANGED <<regName, regPath, decision, regOpen, order, target, changeVars,
                   historyVars>>

(* _activate_caller; a failed save leaves the caller enabled in memory and  *)
(* ends the handler.                                                        *)
Activate(r) ==
    /\ pc[r] = "activate"
    /\ \/ /\ Present(r)
          /\ registry' = [registry EXCEPT ![r].enabled = TRUE]
          /\ \E ok \in BOOLEAN :
                /\ Save(registry', ok)
                /\ Goto(r, IF ok /\ decision[r] = "auto" THEN "upgrade" ELSE "done")
       \/ /\ ~Present(r)
          /\ Goto(r, IF decision[r] = "auto" THEN "upgrade" ELSE "done")
          /\ UNCHANGED <<registry, disk>>
    /\ UNCHANGED <<regName, regPath, decision, regOpen, order, byName, byPath,
                   target, changeVars, historyVars>>

Upgrade(r) ==
    /\ pc[r] = "upgrade"
    /\ Goto(r, "done")
    /\ \/ /\ Present(r)
          /\ registry' = [registry EXCEPT ![r].mode = "auto"]
          /\ \E ok \in BOOLEAN : Save(registry', ok)
       \/ /\ ~Present(r)
          /\ UNCHANGED <<registry, disk>>
    /\ UNCHANGED <<regName, regPath, decision, regOpen, order, byName, byPath,
                   target, changeVars, historyVars>>

----------------------------------------------------------------------------
(* Revocation: the part of handle_revoke after its approval, and            *)
(* handle_revoke_emergency                                                  *)

RevokeLookup(x, n) ==
    /\ target[x] = NoReg
    /\ LookupByName(n)
    /\ target' = [target EXCEPT ![x] = byName[n]]
    /\ UNCHANGED <<handlerVars, storeVars, changeVars, historyVars>>

(* The answer is `revoked` unless the save raises.                          *)
RevokeRun(x) ==
    /\ target[x] # NoReg
    /\ \E ok \in BOOLEAN :
          /\ RevokeCaller(target[x], ok)
          /\ revoked' = IF ok THEN revoked \cup {target[x]} ELSE revoked
    /\ target' = [target EXCEPT ![x] = NoReg]
    /\ UNCHANGED <<handlerVars, order, changeVars, accepted>>

----------------------------------------------------------------------------
(* A credential request with caller_hash h and caller_path p                *)

(* _check_auto_approve: no caller matches, but an enabled one has the path. *)
SeeMismatch(h, p) ==
    /\ FindByHash(h, p) = {}
    /\ byPath[p] # NoReg
    /\ Present(byPath[p]) /\ registry[byPath[p]].enabled
    /\ seen' = seen \cup {<<byPath[p], h>>}
    /\ UNCHANGED <<handlerVars, storeVars, target, asking, hcMsgs, hcPending,
                   hcDecided, tasks, historyVars>>

(* Variant: the new hash is trusted when it is noticed.                     *)
DecideAndTrust(r, h) ==
    /\ <<r, h>> \in seen
    /\ seen' = seen \ {<<r, h>>}
    /\ IF Present(r) /\ ~registry[r].notified
       THEN /\ registry' = [registry EXCEPT ![r].notified = TRUE, ![r].hash = h]
            /\ asking' = asking \cup {<<r, h>>}
       ELSE UNCHANGED <<registry, asking>>
    /\ UNCHANGED <<handlerVars, order, byName, byPath, disk, target, hcMsgs, hcPending,
                   hcDecided, tasks, historyVars>>

(* The second critical section: notify once per change.                     *)
DecideNotify(r, h) ==
    /\ <<r, h>> \in seen
    /\ seen' = seen \ {<<r, h>>}
    /\ IF Present(r) /\ ~registry[r].notified
       THEN /\ registry' = [registry EXCEPT ![r].notified = TRUE]
            /\ asking' = asking \cup {<<r, h>>}
       ELSE UNCHANGED <<registry, asking>>
    /\ UNCHANGED <<handlerVars, order, byName, byPath, disk, target, hcMsgs,
                   hcPending, hcDecided, tasks, historyVars>>

(* _notify_hash_change: the message is sent and registered (overwriting an  *)
(* earlier change of the caller), or _ask returns None and the caller stays *)
(* marked as notified.                                                      *)
NotifyHashChange(r, h) ==
    /\ <<r, h>> \in asking
    /\ asking' = asking \ {<<r, h>>}
    /\ \/ /\ hcPending' = [hcPending EXCEPT ![r] = h]
          /\ hcDecided' = hcDecided \ {r}
          /\ hcMsgs' = hcMsgs \cup {<<r, h>>}
       \/ UNCHANGED <<hcPending, hcDecided, hcMsgs>>
    /\ UNCHANGED <<handlerVars, storeVars, target, seen, tasks, historyVars>>

(* on_reaction, branch 3: the message leads to the registration, and the    *)
(* registration to the change that is pending now.                          *)
ReactChange(r, h, key) ==
    /\ <<r, h>> \in hcMsgs
    /\ Cardinality(tasks) < MaxTasks
    /\ hcPending[r] # NoReg /\ r \notin hcDecided
    /\ hcDecided' = hcDecided \cup {r}
    /\ tasks' = tasks \cup {<<r, hcPending[r], key>>}
    /\ accepted' = IF key = "reject" THEN accepted ELSE accepted \cup {<<r, hcPending[r]>>}
    /\ UNCHANGED <<handlerVars, storeVars, target, seen, asking, hcMsgs,
                   hcPending, revoked>>

(* handle_approve_hash_change: an authenticated call names the new hash.    *)
ApproveHashChange(r, h, key) ==
    /\ Present(r)
    /\ Cardinality(tasks) < MaxTasks
    /\ tasks' = tasks \cup {<<r, h, key>>}
    /\ accepted' = IF key = "reject" THEN accepted ELSE accepted \cup {<<r, h>>}
    /\ UNCHANGED <<handlerVars, storeVars, target, seen, asking, hcMsgs,
                   hcPending, hcDecided, revoked>>

(* What _resolve_hash_change makes of an entry.                             *)
Resolved(c, h, key) ==
    IF key = "reject" THEN [c EXCEPT !.enabled = FALSE]
    ELSE [c EXCEPT !.hash = h, !.notified = FALSE,
                   !.mode = IF key = "normal" THEN "manual" ELSE @]

ResolveHashChange(r, h, key) ==
    /\ <<r, h, key>> \in tasks
    /\ tasks' = tasks \ {<<r, h, key>>}
    /\ \/ /\ Present(r)
          /\ registry' = [registry EXCEPT ![r] = Resolved(@, h, key)]
          /\ \E ok \in BOOLEAN :
                /\ Save(registry', ok)
                /\ IF ok THEN /\ hcPending' = [hcPending EXCEPT ![r] = NoReg]
                              /\ hcDecided' = hcDecided \ {r}
                         ELSE UNCHANGED <<hcPending, hcDecided>>
       \/ /\ ~Present(r)
          /\ UNCHANGED <<registry, disk, hcPending, hcDecided>>
    /\ UNCHANGED <<handlerVars, order, byName, byPath, target, seen, asking,
                   hcMsgs, historyVars>>

----------------------------------------------------------------------------
(* The process dies, at any point, and starts again from the file: handlers *)
(* and pending decisions are gone, and earlier messages mean nothing.       *)
Restart ==
    /\ registry' = disk
    /\ byName' = [n \in Name |-> LastLoaded({r \in Reg : disk[r] # Absent /\ regName[r] = n})]
    /\ byPath' = [p \in Path |-> LastLoaded({r \in Reg : disk[r] # Absent /\ regPath[r] = p})]
    /\ pc' = [r \in Reg |-> IF pc[r] = "idle" THEN "idle" ELSE "done"]
    /\ regOpen' = {}
    /\ target' = [x \in Revoker |-> NoReg]
    /\ seen' = {} /\ asking' = {} /\ hcMsgs' = {} /\ hcDecided' = {} /\ tasks' = {}
    /\ hcPending' = [r \in Reg |-> NoReg]
    /\ UNCHANGED <<regName, regPath, decision, order, disk, historyVars>>

----------------------------------------------------------------------------
Handler(r) ==
    \/ CheckName(r) \/ Insert(r) \/ AskRegistration(r) \/ OpenPending(r)
    \/ WakeRegistration(r) \/ RegistrationTimeout(r) \/ ClosePending(r)
    \/ DropRegistration(r) \/ Activate(r) \/ Upgrade(r)

HashChange(r, h) ==
    \/ DecideNotify(r, h) \/ NotifyHashChange(r, h)
    \/ \E key \in Keys : ReactChange(r, h, key) \/ ApproveHashChange(r, h, key)
                            \/ ResolveHashChange(r, h, key)

Next ==
    \/ \E r \in Reg : Handler(r)
    \/ \E r \in Reg, key \in Keys : ReactRegistration(r, key)
    \/ \E x \in Revoker : RevokeRun(x) \/ \E n \in Name : RevokeLookup(x, n)
    \/ \E h \in Hash, p \in Path : SeeMismatch(h, p)
    \/ \E r \in Reg, h \in Hash : HashChange(r, h)
    \/ Restart

Spec == Init /\ [][Next]_vars

----------------------------------------------------------------------------
(* Every variable of the registry has its type.                             *)
TypeOK ==
    /\ pc \in [Reg -> {"idle", "conflict", "insert", "ask", "open", "wait", "woken",
                       "expired", "drop", "activate", "upgrade", "done"}]
    /\ regName \in [Reg -> Name] /\ regPath \in [Reg -> Path]
    /\ decision \in [Reg -> Keys \cup {"none"}]
    /\ regOpen \subseteq Reg
    /\ registry \in [Reg -> Caller] /\ disk \in [Reg -> Caller]
    /\ byName \in [Name -> Reg \cup {NoReg}] /\ byPath \in [Path -> Reg \cup {NoReg}]
    /\ target \in [Revoker -> Reg \cup {NoReg}]
    /\ seen \subseteq Reg \X Hash /\ asking \subseteq Reg \X Hash
    /\ hcMsgs \subseteq Reg \X Hash
    /\ hcPending \in [Reg -> Hash \cup {NoReg}]
    /\ hcDecided \subseteq Reg
    /\ tasks \subseteq Reg \X Hash \X Keys

(* A caller is enabled, in memory or in the file a restart will load, only  *)
(* if somebody accepted its registration; a refusal, a timeout, a failed    *)
(* message or a crash on the way never enables it.                          *)
EnabledWasApproved ==
    \A r \in Reg : registry[r].enabled \/ disk[r].enabled
        => decision[r] \in {"auto", "normal"}

(* The hash a caller is trusted by is the one it was registered with or one *)
(* that somebody accepted for it, although decisions run as background      *)
(* tasks and may overtake each other.                                       *)
TrustedHashWasAccepted ==
    \A r \in Reg : /\ Present(r) => <<r, registry[r].hash>> \in accepted
                   /\ disk[r] # Absent => <<r, disk[r].hash>> \in accepted

(* Once a revocation is answered the caller is gone for good: neither a     *)
(* late approval of its registration or of a new hash nor a restart brings  *)
(* it back.  (On a disk that works: after a save that failed, the entry is  *)
(* gone from memory and a second revocation no longer saves.)               *)
RevokedStaysRevoked == \A r \in revoked : ~Present(r) /\ disk[r] = Absent

(* The two indexes never lead to a registration that is gone or that has    *)
(* another name or path.                                                    *)
NoDanglingIndex ==
    /\ \A n \in Name : byName[n] # NoReg => Present(byName[n]) /\ regName[byName[n]] = n
    /\ \A p \in Path : byPath[p] # NoReg => Present(byPath[p]) /\ regPath[byPath[p]] = p

(* The claim of the registration message (auto release / ordinary           *)
(* approval): _check_auto_approve lets a request pass without asking only   *)
(* if somebody chose auto release for the caller.                           *)
OrdinaryIsNotAutomatic ==
    \A h \in Hash, p \in Path : \A r \in FindByHash(h, p) : decision[r] = "auto"
=============================================================================
