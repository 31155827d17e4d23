------------------------ MODULE CallerRegistryProofs ------------------------
(***************************************************************************)
(* Proofs about the caller registry, for every set of registrations,       *)
(* revocations, names, paths and hashes, and with restarts anywhere.       *)
(***************************************************************************)
EXTENDS CallerRegistry, FiniteSetTheorems, TLAPS

----------------------------------------------------------------------------
(* The inductive invariant                                                  *)

(* Registrations whose handler has not inserted an entry yet.               *)
Early == {"idle", "conflict", "insert"}

(* What was ever inserted is listed in the insertion order.                 *)
OrderInv ==
    /\ order \in Seq(Reg)
    /\ \A r \in Reg : Present(r) \/ disk[r] # Absent => \E i \in DOMAIN order : order[i] = r

(* A registration that left a trace was inserted, and its handler does not  *)
(* insert it again.                                                         *)
InsertedInv ==
    \A r \in Reg : pc[r] \in Early =>
        /\ ~Present(r) /\ disk[r] = Absent
        /\ r \notin revoked
        /\ \A x \in Revoker : target[x] # r

(* A handler on the way to enabling a caller has an acceptance in hand.     *)
DecisionInv ==
    /\ \A r \in Reg : pc[r] = "woken" => decision[r] # "none"
    /\ \A r \in Reg : pc[r] \in {"activate", "upgrade"} => decision[r] \in {"auto", "normal"}

(* A decision under way that will change the hash was accepted.             *)
TasksInv ==
    \A r \in Reg, h \in Hash, key \in Keys :
        <<r, h, key>> \in tasks /\ key # "reject" => <<r, h>> \in accepted

(* The part of the invariant that is about the registry, its file and its   *)
(* indexes.                                                                 *)
StoreInv == OrderInv /\ EnabledWasApproved /\ TrustedHashWasAccepted /\ NoDanglingIndex

(* The part that is about the handlers and decisions under way.             *)
ControlInv == InsertedInv /\ DecisionInv /\ TasksInv

RegistryInv == TypeOK /\ StoreInv /\ ControlInv

----------------------------------------------------------------------------
(* The operators                                                            *)

(* The least-number principle, from the well-foundedness of finite sets.    *)
LEMMA LeastNumber ==
    ASSUME NEW T \in SUBSET Nat, T # {}
    PROVE  \E x \in T : \A y \in T : x <= y
<1> DEFINE U == {0..t : t \in T}
<1>1. U \subseteq FiniteSubsetsOf(Nat)
  <2>1. ASSUME NEW t \in T PROVE 0..t \in FiniteSubsetsOf(Nat)
    <3>1. IsFiniteSet(0..t) /\ 0..t \subseteq Nat
      BY FS_Interval
    <3> QED BY <3>1 DEF FiniteSubsetsOf
  <2> QED BY <2>1
<1>2. U # {}
  OBVIOUS
<1>3. PICK u \in U : \A v \in U : ~(<<v, u>> \in StrictSubsetOrdering(Nat))
  BY <1>1, <1>2, FS_StrictSubsetOrderingWellFounded, WFMin
<1>4. PICK x \in T : u = 0..x
  OBVIOUS
<1>5. ASSUME NEW y \in T, ~(x <= y) PROVE FALSE
  <2>1. 0..y \subseteq 0..x /\ 0..y # 0..x
    <3>1. x \in 0..x /\ x \notin 0..y
      BY <1>5
    <3> QED BY <1>5, <3>1
  <2>2. <<0..y, u>> \in StrictSubsetOrdering(Nat)
    BY <1>4, <2>1 DEF StrictSubsetOrdering
  <2> QED BY <1>3, <2>2
<1> QED BY <1>5

(* Loading finds an entry for every index it fills: of the entries with one *)
(* name, one was inserted last.                                             *)
LEMMA LastLoadedIsLoaded ==
    ASSUME OrderInv, NEW S \in SUBSET {r \in Reg : disk[r] # Absent}, S # {}
    PROVE  LastLoaded(S) \in S
<1> DEFINE at == [r \in S |-> CHOOSE i \in DOMAIN order : order[i] = r]
           T == {Len(order) - at[r] : r \in S}
<1>1. Len(order) \in Nat /\ DOMAIN order = 1..Len(order)
  BY DEF OrderInv
<1>2. \A r \in S : at[r] \in 1..Len(order)
  BY <1>1 DEF OrderInv
<1> HIDE DEF at
<1>3. T \in SUBSET Nat /\ T # {}
  BY <1>1, <1>2
<1>4. PICK x \in T : \A y \in T : x <= y
  BY <1>3, LeastNumber
<1>5. PICK r \in S : x = Len(order) - at[r]
  BY <1>4
<1>6. \A q \in S : at[q] <= at[r]
  <2> SUFFICES ASSUME NEW q \in S PROVE at[q] <= at[r]
    OBVIOUS
  <2>1. Len(order) - at[r] <= Len(order) - at[q]
    BY <1>4, <1>5
  <2> QED BY <1>1, <1>2, <2>1
<1>7. \E t \in S : \A q \in S :
         (CHOOSE i \in DOMAIN order : order[i] = q) <= (CHOOSE i \in DOMAIN order : order[i] = t)
  BY <1>6 DEF at
<1> QED BY <1>7 DEF LastLoaded

(* The changes of an entry's flags leave a proper entry with the same hash. *)
LEMMA FlagUpdates ==
    ASSUME NEW c \in Caller, c # Absent
    PROVE  /\ [c EXCEPT !.enabled = TRUE] \in Caller \ {Absent}
           /\ [c EXCEPT !.enabled = TRUE].hash = c.hash
           /\ [c EXCEPT !.mode = "auto"] \in Caller \ {Absent}
           /\ [c EXCEPT !.mode = "auto"].hash = c.hash
           /\ [c EXCEPT !.mode = "auto"].enabled = c.enabled
           /\ [c EXCEPT !.notified = TRUE] \in Caller \ {Absent}
           /\ [c EXCEPT !.notified = TRUE].hash = c.hash
           /\ [c EXCEPT !.notified = TRUE].enabled = c.enabled
  BY RegistryAssumption DEF Caller, Absent

(* A decision on a changed hash leaves a proper entry, enables nothing, and *)
(* changes the hash only if it accepts the change.                          *)
LEMMA HashUpdate ==
    ASSUME NEW c \in Caller, c # Absent, NEW h \in Hash, NEW key \in Keys
    PROVE  /\ Resolved(c, h, key) \in Caller \ {Absent}
           /\ Resolved(c, h, key).hash = IF key = "reject" THEN c.hash ELSE h
           /\ Resolved(c, h, key).enabled => c.enabled
  BY RegistryAssumption DEF Caller, Absent, Resolved

(* A new registration's entry is a proper one, and it is disabled.          *)
LEMMA NewEntry ==
    ASSUME NEW h \in Hash, NEW m \in {"manual", "auto"}, NEW c,
           c = [hash |-> h, mode |-> m, enabled |-> FALSE, notified |-> FALSE]
    PROVE  c \in Caller /\ c # Absent /\ c.hash = h /\ c.enabled = FALSE
  BY RegistryAssumption DEF Caller, Absent

(* The entry of a caller that is not registered is a disabled one.          *)
LEMMA AbsentEntry == Absent \in Caller /\ Absent.enabled = FALSE
  BY DEF Caller, Absent

(* Every variable of the registry keeps its type, a restart included.       *)
LEMMA TypeStep ==
    ASSUME TypeOK, OrderInv, [Next]_vars
    PROVE  TypeOK'
<1> USE RegistryAssumption DEF TypeOK, handlerVars, storeVars, changeVars, historyVars, Keys
<1>1. ASSUME NEW r \in Reg, CheckName(r) PROVE TypeOK'
  BY <1>1 DEF CheckName, Goto
<1>2. ASSUME NEW r \in Reg, Insert(r) PROVE TypeOK'
  <2>1. PICK h \in Hash, m \in {"manual", "auto"} :
           registry' = [registry EXCEPT ![r] = [hash |-> h, mode |-> m,
                                                enabled |-> FALSE, notified |-> FALSE]]
    BY <1>2 DEF Insert
  <2>2. [hash |-> h, mode |-> m, enabled |-> FALSE, notified |-> FALSE] \in Caller
    BY NewEntry
  <2>3. registry' \in [Reg -> Caller]
    BY <2>1, <2>2
  <2> QED BY <1>2, <2>3 DEF Insert, Goto
<1>3. ASSUME NEW r \in Reg, AskRegistration(r) PROVE TypeOK'
  BY <1>3 DEF AskRegistration, Goto
<1>4. ASSUME NEW r \in Reg, OpenPending(r) PROVE TypeOK'
  BY <1>4 DEF OpenPending, Goto
<1>5. ASSUME NEW r \in Reg, WakeRegistration(r) PROVE TypeOK'
  BY <1>5 DEF WakeRegistration, Goto
<1>6. ASSUME NEW r \in Reg, RegistrationTimeout(r) PROVE TypeOK'
  BY <1>6 DEF RegistrationTimeout, Goto
<1>7. ASSUME NEW r \in Reg, ClosePending(r) PROVE TypeOK'
  BY <1>7 DEF ClosePending, Goto
<1>8. ASSUME NEW r \in Reg, DropRegistration(r) PROVE TypeOK'
  BY <1>8, AbsentEntry DEF DropRegistration, Goto, RevokeCaller, Save
<1>9. ASSUME NEW r \in Reg, Activate(r) PROVE TypeOK'
  <2>1. CASE Present(r)
    <3>1. [registry[r] EXCEPT !.enabled = TRUE] \in Caller
      BY <2>1, FlagUpdates DEF Present
    <3>2. registry' \in [Reg -> Caller]
      BY <1>9, <2>1, <3>1 DEF Activate
    <3> QED BY <1>9, <2>1, <3>2 DEF Activate, Goto, Save
  <2>2. CASE ~Present(r)
    BY <1>9, <2>2 DEF Activate, Goto
  <2> QED BY <2>1, <2>2
<1>10. ASSUME NEW r \in Reg, Upgrade(r) PROVE TypeOK'
  <2>1. CASE Present(r)
    <3>1. [registry[r] EXCEPT !.mode = "auto"] \in Caller
      BY <2>1, FlagUpdates DEF Present
    <3>2. registry' \in [Reg -> Caller]
      BY <1>10, <2>1, <3>1 DEF Upgrade
    <3> QED BY <1>10, <2>1, <3>2 DEF Upgrade, Goto, Save
  <2>2. CASE ~Present(r)
    BY <1>10, <2>2 DEF Upgrade, Goto
  <2> QED BY <2>1, <2>2
<1>11. ASSUME NEW r \in Reg, NEW key \in Keys, ReactRegistration(r, key) PROVE TypeOK'
  BY <1>11 DEF ReactRegistration
<1>12. ASSUME NEW x \in Revoker, RevokeRun(x) PROVE TypeOK'
  <2>1. target[x] \in Reg
    BY <1>12 DEF RevokeRun
  <2> QED BY <1>12, <2>1, AbsentEntry DEF RevokeRun, RevokeCaller, Save
<1>13. ASSUME NEW x \in Revoker, NEW n \in Name, RevokeLookup(x, n) PROVE TypeOK'
  BY <1>13 DEF RevokeLookup, LookupByName, Present
<1>14. ASSUME NEW h \in Hash, NEW p \in Path, SeeMismatch(h, p) PROVE TypeOK'
  BY <1>14 DEF SeeMismatch, FindByHash, Present
<1>15. ASSUME NEW r \in Reg, NEW h \in Hash, DecideNotify(r, h) PROVE TypeOK'
  <2>1. CASE Present(r)
    <3>1. [registry[r] EXCEPT !.notified = TRUE] \in Caller
      BY <2>1, FlagUpdates DEF Present
    <3>2. registry' \in [Reg -> Caller]
      BY <1>15, <2>1, <3>1 DEF DecideNotify
    <3> QED BY <1>15, <2>1, <3>2 DEF DecideNotify
  <2>2. CASE ~Present(r)
    BY <1>15, <2>2 DEF DecideNotify
  <2> QED BY <2>1, <2>2
<1>16. ASSUME NEW r \in Reg, NEW h \in Hash, NotifyHashChange(r, h) PROVE TypeOK'
  BY <1>16 DEF NotifyHashChange
<1>17. ASSUME NEW r \in Reg, NEW h \in Hash, NEW key \in Keys, ReactChange(r, h, key)
       PROVE  TypeOK'
  BY <1>17 DEF ReactChange
<1>18. ASSUME NEW r \in Reg, NEW h \in Hash, NEW key \in Keys, ApproveHashChange(r, h, key)
       PROVE  TypeOK'
  BY <1>18 DEF ApproveHashChange, Present
<1>19. ASSUME NEW r \in Reg, NEW h \in Hash, NEW key \in Keys, ResolveHashChange(r, h, key)
       PROVE  TypeOK'
  <2>1. CASE Present(r)
    <3>1. Resolved(registry[r], h, key) \in Caller
      BY <2>1, HashUpdate DEF Present
    <3>2. registry' \in [Reg -> Caller]
      BY <1>19, <2>1, <3>1 DEF ResolveHashChange
    <3> QED BY <1>19, <2>1, <3>2, ZenonT(40) DEF ResolveHashChange, Save
  <2>2. CASE ~Present(r)
    BY <1>19, <2>2 DEF ResolveHashChange
  <2> QED BY <2>1, <2>2
<1>20. ASSUME Restart PROVE TypeOK'
  <2>1. \A n \in Name :
           LastLoaded({r \in Reg : disk[r] # Absent /\ regName[r] = n}) \in Reg \cup {NoReg}
    BY LastLoadedIsLoaded DEF LastLoaded
  <2>2. \A p \in Path :
           LastLoaded({r \in Reg : disk[r] # Absent /\ regPath[r] = p}) \in Reg \cup {NoReg}
    BY LastLoadedIsLoaded DEF LastLoaded
  <2> QED BY <1>20, <2>1, <2>2 DEF Restart
<1>21. CASE UNCHANGED vars
  BY <1>21 DEF vars
<1> HIDE DEF TypeOK, handlerVars, storeVars, changeVars, historyVars, Keys
<1> QED BY <1>1, <1>2, <1>3, <1>4, <1>5, <1>6, <1>7, <1>8, <1>9, <1>10, <1>11, <1>12, <1>13,
           <1>14, <1>15, <1>16, <1>17, <1>18, <1>19, <1>20, <1>21 DEF Next, Handler, HashChange

----------------------------------------------------------------------------
(* What a step does to the store                                            *)

(* An entry that is changed in place, saved or not, keeps the store sound   *)
(* if it is enabled only after an acceptance and its hash was accepted.     *)
LEMMA EntryChanged ==
    ASSUME TypeOK, StoreInv, NEW r \in Reg, Present(r),
           NEW c \in Caller, c # Absent,
           registry' = [registry EXCEPT ![r] = c],
           disk' = disk \/ disk' = registry',
           c.enabled => decision[r] \in {"auto", "normal"},
           <<r, c.hash>> \in accepted,
           UNCHANGED <<order, byName, byPath, regName, regPath, decision, accepted>>
    PROVE  StoreInv'
<1> USE DEF TypeOK, StoreInv, Present
<1>1. \A q \in Reg : registry'[q] = IF q = r THEN c ELSE registry[q]
  OBVIOUS
<1>2. OrderInv'
  BY <1>1 DEF OrderInv
<1>3. EnabledWasApproved'
  BY <1>1 DEF EnabledWasApproved
<1>4. TrustedHashWasAccepted'
  BY <1>1 DEF TrustedHashWasAccepted
<1>5. NoDanglingIndex'
  BY <1>1 DEF NoDanglingIndex
<1> QED BY <1>2, <1>3, <1>4, <1>5

(* _revoke_caller clears the indexes that lead to the entry it removes.     *)
LEMMA EntryRemoved ==
    ASSUME TypeOK, StoreInv, NEW r \in Reg, NEW ok \in BOOLEAN, RevokeCaller(r, ok),
           UNCHANGED <<order, regName, regPath, decision, accepted>>
    PROVE  StoreInv' /\ ~Present(r)' /\ \A q \in Reg : Present(q)' => Present(q)
<1> USE DEF TypeOK, StoreInv, Present
<1>1. CASE ~Present(r)
  BY <1>1 DEF RevokeCaller, OrderInv, EnabledWasApproved, TrustedHashWasAccepted, NoDanglingIndex
<1>2. CASE Present(r)
  <2>1. \A q \in Reg : registry'[q] = IF q = r THEN Absent ELSE registry[q]
    BY <1>2 DEF RevokeCaller
  <2>2. disk' = disk \/ disk' = registry'
    BY <1>2 DEF RevokeCaller, Save
  <2>3. OrderInv'
    BY <2>1, <2>2 DEF OrderInv
  <2>4. EnabledWasApproved'
    BY <2>1, <2>2, AbsentEntry DEF EnabledWasApproved
  <2>5. TrustedHashWasAccepted'
    BY <2>1, <2>2 DEF TrustedHashWasAccepted
  <2>6. NoDanglingIndex'
    BY <1>2, <2>1, RegistryAssumption DEF NoDanglingIndex, RevokeCaller
  <2> QED BY <2>1, <2>3, <2>4, <2>5, <2>6
<1> QED BY <1>1, <1>2

(* A new registration is disabled, and its hash is the one it came with.    *)
LEMMA EntryInserted ==
    ASSUME TypeOK, StoreInv, InsertedInv, NEW r \in Reg, Insert(r)
    PROVE  StoreInv'
<1> USE DEF TypeOK, StoreInv, Present
<1>1. PICK h \in Hash, m \in {"manual", "auto"} :
         /\ registry' = [registry EXCEPT ![r] = [hash |-> h, mode |-> m,
                                                 enabled |-> FALSE, notified |-> FALSE]]
         /\ accepted' = accepted \cup {<<r, h>>}
  BY DEF Insert
<1>2. PICK c \in Caller : /\ c # Absent /\ c.hash = h /\ c.enabled = FALSE
                          /\ registry' = [registry EXCEPT ![r] = c]
  BY <1>1, NewEntry, ZenonT(40)
<1>3. \A q \in Reg : registry'[q] = IF q = r THEN c ELSE registry[q]
  BY <1>2
<1>4. UNCHANGED <<disk, decision, regName, regPath>> /\ disk[r] = Absent
  BY DEF Insert, InsertedInv, Early
<1>5. OrderInv'
  <2>1. order' = Append(order, r) /\ order \in Seq(Reg)
    BY DEF Insert, OrderInv
  <2>2. order' \in Seq(Reg) /\ Len(order') = Len(order) + 1 /\ order'[Len(order) + 1] = r
    BY <2>1
  <2>3. \A i \in DOMAIN order : i \in DOMAIN order' /\ order'[i] = order[i]
    BY <2>1
  <2>4. Len(order) + 1 \in DOMAIN order'
    BY <2>1, <2>2
  <2> QED BY <1>3, <1>4, <2>2, <2>3, <2>4 DEF OrderInv
<1>6. EnabledWasApproved'
  BY <1>2, <1>3, <1>4 DEF EnabledWasApproved
<1>7. TrustedHashWasAccepted'
  BY <1>1, <1>2, <1>3, <1>4 DEF TrustedHashWasAccepted
<1>8. NoDanglingIndex'
  <2>1. \A n \in Name : byName'[n] = IF n = regName[r] THEN r ELSE byName[n]
    BY DEF Insert
  <2>2. \A p \in Path : byPath'[p] = IF p = regPath[r] THEN r ELSE byPath[p]
    BY DEF Insert
  <2> QED BY <1>2, <1>3, <1>4, <2>1, <2>2, RegistryAssumption DEF NoDanglingIndex
<1> QED BY <1>5, <1>6, <1>7, <1>8

(* A restart rebuilds the indexes from the entries it loads.                *)
LEMMA StoreReloaded ==
    ASSUME TypeOK, StoreInv, Restart
    PROVE  StoreInv'
<1> USE DEF TypeOK, StoreInv, Present
<1>1. registry' = disk /\ UNCHANGED <<disk, order, decision, accepted, regName, regPath>>
  BY DEF Restart, historyVars
<1>2. OrderInv' /\ EnabledWasApproved' /\ TrustedHashWasAccepted'
  BY <1>1 DEF OrderInv, EnabledWasApproved, TrustedHashWasAccepted
<1>3. ASSUME NEW n \in Name, byName'[n] # NoReg
      PROVE  disk[byName'[n]] # Absent /\ regName[byName'[n]] = n
  <2> DEFINE S == {r \in Reg : disk[r] # Absent /\ regName[r] = n}
  <2>1. byName'[n] = LastLoaded(S)
    BY DEF Restart
  <2>2. S # {}
    BY <1>3, <2>1 DEF LastLoaded
  <2>3. S \in SUBSET {r \in Reg : disk[r] # Absent} /\ OrderInv
    OBVIOUS
  <2> HIDE DEF S
  <2>4. LastLoaded(S) \in S
    BY <2>2, <2>3, LastLoadedIsLoaded
  <2> QED BY <1>1, <2>1, <2>4 DEF S
<1>4. ASSUME NEW p \in Path, byPath'[p] # NoReg
      PROVE  disk[byPath'[p]] # Absent /\ regPath[byPath'[p]] = p
  <2> DEFINE S == {r \in Reg : disk[r] # Absent /\ regPath[r] = p}
  <2>1. byPath'[p] = LastLoaded(S)
    BY DEF Restart
  <2>2. S # {}
    BY <1>4, <2>1 DEF LastLoaded
  <2>3. S \in SUBSET {r \in Reg : disk[r] # Absent} /\ OrderInv
    OBVIOUS
  <2> HIDE DEF S
  <2>4. LastLoaded(S) \in S
    BY <2>2, <2>3, LastLoadedIsLoaded
  <2> QED BY <1>1, <2>1, <2>4 DEF S
<1>5. NoDanglingIndex'
  BY <1>1, <1>3, <1>4 DEF NoDanglingIndex
<1> QED BY <1>2, <1>5

(* A step that leaves the store alone, and takes back no acceptance.        *)
LEMMA StoreKept ==
    ASSUME StoreInv, UNCHANGED <<registry, order, byName, byPath, disk, regName, regPath>>,
           accepted \subseteq accepted',
           \A r \in Reg : decision[r] # "none" => decision'[r] = decision[r]
    PROVE  StoreInv'
<1> USE DEF StoreInv, Present
<1>1. OrderInv'
  BY DEF OrderInv
<1>2. EnabledWasApproved'
  BY DEF EnabledWasApproved
<1>3. TrustedHashWasAccepted' /\ NoDanglingIndex'
  BY DEF TrustedHashWasAccepted, NoDanglingIndex
<1> QED BY <1>1, <1>2, <1>3

(* Every step keeps the store sound.                                        *)
LEMMA StoreStep ==
    ASSUME RegistryInv, [Next]_vars
    PROVE  StoreInv'
<1> USE DEF RegistryInv, ControlInv, handlerVars, storeVars, changeVars, historyVars
<1>1. ASSUME NEW r \in Reg, Insert(r) PROVE StoreInv'
  BY <1>1, EntryInserted
<1>2. ASSUME NEW r \in Reg,
             CheckName(r) \/ AskRegistration(r) \/ OpenPending(r) \/ WakeRegistration(r)
                \/ RegistrationTimeout(r) \/ ClosePending(r)
      PROVE  StoreInv'
  BY <1>2, StoreKept DEF CheckName, AskRegistration, OpenPending, WakeRegistration,
                         RegistrationTimeout, ClosePending
<1>3. ASSUME NEW r \in Reg, DropRegistration(r) PROVE StoreInv'
  BY <1>3, EntryRemoved DEF DropRegistration
<1>4. ASSUME NEW r \in Reg, Activate(r) PROVE StoreInv'
  <2>1. CASE Present(r)
    <3>1. [registry[r] EXCEPT !.enabled = TRUE] \in Caller \ {Absent}
          /\ [registry[r] EXCEPT !.enabled = TRUE].hash = registry[r].hash
      BY <2>1, FlagUpdates DEF Present, TypeOK
    <3>2. PICK c \in Caller : /\ c # Absent /\ c.hash = registry[r].hash
                              /\ registry' = [registry EXCEPT ![r] = c]
      BY <1>4, <2>1, <3>1 DEF Activate
    <3>3. decision[r] \in {"auto", "normal"} /\ <<r, c.hash>> \in accepted
      BY <1>4, <2>1, <3>2 DEF Activate, DecisionInv, StoreInv, TrustedHashWasAccepted
    <3>4. disk' = disk \/ disk' = registry'
      BY <1>4 DEF Activate, Save
    <3>5. UNCHANGED <<order, byName, byPath, regName, regPath, decision, accepted>>
      BY <1>4 DEF Activate
    <3> QED BY <2>1, <3>2, <3>3, <3>4, <3>5, EntryChanged
  <2>2. CASE ~Present(r)
    BY <1>4, <2>2, StoreKept DEF Activate
  <2> QED BY <2>1, <2>2
<1>5. ASSUME NEW r \in Reg, Upgrade(r) PROVE StoreInv'
  <2>1. CASE Present(r)
    <3>1. [registry[r] EXCEPT !.mode = "auto"] \in Caller \ {Absent}
          /\ [registry[r] EXCEPT !.mode = "auto"].hash = registry[r].hash
      BY <2>1, FlagUpdates DEF Present, TypeOK
    <3>2. PICK c \in Caller : /\ c # Absent /\ c.hash = registry[r].hash
                              /\ registry' = [registry EXCEPT ![r] = c]
      BY <1>5, <2>1, <3>1 DEF Upgrade
    <3>3. decision[r] \in {"auto", "normal"} /\ <<r, c.hash>> \in accepted
      BY <1>5, <2>1, <3>2 DEF Upgrade, DecisionInv, StoreInv, TrustedHashWasAccepted
    <3>4. disk' = disk \/ disk' = registry'
      BY <1>5 DEF Upgrade, Save
    <3>5. UNCHANGED <<order, byName, byPath, regName, regPath, decision, accepted>>
      BY <1>5 DEF Upgrade
    <3> QED BY <2>1, <3>2, <3>3, <3>4, <3>5, EntryChanged
  <2>2. CASE ~Present(r)
    BY <1>5, <2>2, StoreKept DEF Upgrade
  <2> QED BY <2>1, <2>2
<1>6. ASSUME NEW r \in Reg, NEW key \in Keys, ReactRegistration(r, key) PROVE StoreInv'
  BY <1>6, StoreKept DEF ReactRegistration, TypeOK
<1>7. ASSUME NEW x \in Revoker, RevokeRun(x) PROVE StoreInv'
  <2>1. target[x] \in Reg
    BY <1>7 DEF RevokeRun, TypeOK
  <2> QED BY <1>7, <2>1, EntryRemoved DEF RevokeRun
<1>8. ASSUME NEW x \in Revoker, NEW n \in Name, RevokeLookup(x, n) PROVE StoreInv'
  BY <1>8, StoreKept DEF RevokeLookup
<1>9. ASSUME NEW h \in Hash, NEW p \in Path, SeeMismatch(h, p) PROVE StoreInv'
  BY <1>9, StoreKept DEF SeeMismatch
<1>10. ASSUME NEW r \in Reg, NEW h \in Hash, DecideNotify(r, h) PROVE StoreInv'
  <2>1. CASE Present(r) /\ ~registry[r].notified
    <3>1. [registry[r] EXCEPT !.notified = TRUE] \in Caller \ {Absent}
          /\ [registry[r] EXCEPT !.notified = TRUE].hash = registry[r].hash
          /\ [registry[r] EXCEPT !.notified = TRUE].enabled = registry[r].enabled
      BY <2>1, FlagUpdates DEF Present, TypeOK
    <3>2. PICK c \in Caller : /\ c # Absent /\ c.hash = registry[r].hash
                              /\ c.enabled = registry[r].enabled
                              /\ registry' = [registry EXCEPT ![r] = c]
      BY <1>10, <2>1, <3>1 DEF DecideNotify
    <3>3. c.enabled => decision[r] \in {"auto", "normal"}
      BY <3>2 DEF StoreInv, EnabledWasApproved
    <3>4. <<r, c.hash>> \in accepted
      BY <2>1, <3>2 DEF StoreInv, TrustedHashWasAccepted
    <3>5. UNCHANGED <<disk, order, byName, byPath, regName, regPath, decision, accepted>>
      BY <1>10 DEF DecideNotify
    <3> QED BY <2>1, <3>2, <3>3, <3>4, <3>5, EntryChanged
  <2>2. CASE ~(Present(r) /\ ~registry[r].notified)
    BY <1>10, <2>2, StoreKept DEF DecideNotify
  <2> QED BY <2>1, <2>2
<1>11. ASSUME NEW r \in Reg, NEW h \in Hash, NEW key \in Keys,
              NotifyHashChange(r, h) \/ ReactChange(r, h, key) \/ ApproveHashChange(r, h, key)
       PROVE  StoreInv'
  BY <1>11, StoreKept DEF NotifyHashChange, ReactChange, ApproveHashChange
<1>12. ASSUME NEW r \in Reg, NEW h \in Hash, NEW key \in Keys, ResolveHashChange(r, h, key)
       PROVE  StoreInv'
  <2>1. CASE Present(r)
    <3>1. /\ Resolved(registry[r], h, key) \in Caller \ {Absent}
          /\ Resolved(registry[r], h, key).hash = IF key = "reject" THEN registry[r].hash ELSE h
          /\ Resolved(registry[r], h, key).enabled => registry[r].enabled
      BY <2>1, HashUpdate DEF Present, TypeOK
    <3>2. PICK c \in Caller : /\ c # Absent /\ c = Resolved(registry[r], h, key)
                              /\ registry' = [registry EXCEPT ![r] = c]
      BY <1>12, <2>1, <3>1 DEF ResolveHashChange
    <3>3. c.enabled => decision[r] \in {"auto", "normal"}
      BY <3>1, <3>2 DEF StoreInv, EnabledWasApproved
    <3>4. <<r, c.hash>> \in accepted
      BY <1>12, <2>1, <3>1, <3>2 DEF StoreInv, TrustedHashWasAccepted, TasksInv, ResolveHashChange
    <3>5. disk' = disk \/ disk' = registry'
      BY <1>12 DEF ResolveHashChange, Save
    <3>6. UNCHANGED <<order, byName, byPath, regName, regPath, decision, accepted>>
      BY <1>12 DEF ResolveHashChange
    <3> QED BY <2>1, <3>2, <3>3, <3>4, <3>5, <3>6, EntryChanged
  <2>2. CASE ~Present(r)
    BY <1>12, <2>2, StoreKept DEF ResolveHashChange
  <2> QED BY <2>1, <2>2
<1>13. ASSUME Restart PROVE StoreInv'
  BY <1>13, StoreReloaded
<1>14. CASE UNCHANGED vars
  BY <1>14, StoreKept DEF vars
<1> HIDE DEF RegistryInv, ControlInv, handlerVars, storeVars, changeVars, historyVars
<1> QED BY <1>1, <1>2, <1>3, <1>4, <1>5, <1>6, <1>7, <1>8, <1>9, <1>10, <1>11, <1>12,
           <1>13, <1>14 DEF Next, Handler, HashChange, Keys

----------------------------------------------------------------------------
(* The invariant                                                            *)

(* Every step keeps the handlers and the decisions under way in order.      *)
LEMMA ControlStep ==
    ASSUME RegistryInv, [Next]_vars
    PROVE  ControlInv'
<1> USE RegistryAssumption DEF RegistryInv, ControlInv, TypeOK, Present, Early, Keys,
        handlerVars, storeVars, changeVars, historyVars
<1>1. ASSUME NEW r \in Reg, CheckName(r) PROVE ControlInv'
  BY <1>1 DEF CheckName, Goto, InsertedInv, DecisionInv, TasksInv
<1>2. ASSUME NEW r \in Reg, Insert(r) PROVE ControlInv'
  <2>1. InsertedInv'
    BY <1>2 DEF Insert, Goto, InsertedInv
  <2>2. DecisionInv' /\ TasksInv'
    BY <1>2 DEF Insert, Goto, DecisionInv, TasksInv
  <2> QED BY <2>1, <2>2
<1>3. ASSUME NEW r \in Reg, AskRegistration(r) PROVE ControlInv'
  BY <1>3 DEF AskRegistration, Goto, InsertedInv, DecisionInv, TasksInv
<1>4. ASSUME NEW r \in Reg, OpenPending(r) PROVE ControlInv'
  BY <1>4 DEF OpenPending, Goto, InsertedInv, DecisionInv, TasksInv
<1>5. ASSUME NEW r \in Reg, WakeRegistration(r) PROVE ControlInv'
  BY <1>5 DEF WakeRegistration, Goto, InsertedInv, DecisionInv, TasksInv
<1>6. ASSUME NEW r \in Reg, RegistrationTimeout(r) PROVE ControlInv'
  BY <1>6 DEF RegistrationTimeout, Goto, InsertedInv, DecisionInv, TasksInv
<1>7. ASSUME NEW r \in Reg, ClosePending(r) PROVE ControlInv'
  BY <1>7 DEF ClosePending, Goto, InsertedInv, DecisionInv, TasksInv
<1>8. ASSUME NEW r \in Reg, DropRegistration(r) PROVE ControlInv'
  <2>1. InsertedInv'
    BY <1>8 DEF DropRegistration, Goto, RevokeCaller, Save, InsertedInv
  <2>2. DecisionInv' /\ TasksInv'
    BY <1>8 DEF DropRegistration, Goto, RevokeCaller, Save, DecisionInv, TasksInv
  <2> QED BY <2>1, <2>2
<1>9. ASSUME NEW r \in Reg, Activate(r) PROVE ControlInv'
  <2>1. InsertedInv'
    BY <1>9 DEF Activate, Goto, Save, InsertedInv
  <2>2. DecisionInv' /\ TasksInv'
    BY <1>9 DEF Activate, Goto, Save, DecisionInv, TasksInv
  <2> QED BY <2>1, <2>2
<1>10. ASSUME NEW r \in Reg, Upgrade(r) PROVE ControlInv'
  <2>1. InsertedInv'
    BY <1>10 DEF Upgrade, Goto, Save, InsertedInv
  <2>2. DecisionInv' /\ TasksInv'
    BY <1>10 DEF Upgrade, Goto, Save, DecisionInv, TasksInv
  <2> QED BY <2>1, <2>2
<1>11. ASSUME NEW r \in Reg, NEW key \in Keys, ReactRegistration(r, key) PROVE ControlInv'
  BY <1>11 DEF ReactRegistration, InsertedInv, DecisionInv, TasksInv
<1>12. ASSUME NEW x \in Revoker, RevokeRun(x) PROVE ControlInv'
  <2>1. InsertedInv'
    BY <1>12 DEF RevokeRun, RevokeCaller, Save, InsertedInv
  <2>2. DecisionInv' /\ TasksInv'
    BY <1>12 DEF RevokeRun, RevokeCaller, Save, DecisionInv, TasksInv
  <2> QED BY <2>1, <2>2
<1>13. ASSUME NEW x \in Revoker, NEW n \in Name, RevokeLookup(x, n) PROVE ControlInv'
  <2>1. InsertedInv'
    BY <1>13 DEF RevokeLookup, LookupByName, InsertedInv
  <2>2. DecisionInv' /\ TasksInv'
    BY <1>13 DEF RevokeLookup, LookupByName, DecisionInv, TasksInv
  <2> QED BY <2>1, <2>2
<1>14. ASSUME NEW h \in Hash, NEW p \in Path, SeeMismatch(h, p) PROVE ControlInv'
  BY <1>14 DEF SeeMismatch, InsertedInv, DecisionInv, TasksInv
<1>15. ASSUME NEW r \in Reg, NEW h \in Hash, DecideNotify(r, h) PROVE ControlInv'
  <2>1. InsertedInv'
    BY <1>15 DEF DecideNotify, InsertedInv
  <2>2. DecisionInv' /\ TasksInv'
    BY <1>15 DEF DecideNotify, DecisionInv, TasksInv
  <2> QED BY <2>1, <2>2
<1>16. ASSUME NEW r \in Reg, NEW h \in Hash, NotifyHashChange(r, h) PROVE ControlInv'
  BY <1>16 DEF NotifyHashChange, InsertedInv, DecisionInv, TasksInv
<1>17. ASSUME NEW r \in Reg, NEW h \in Hash, NEW key \in Keys, ReactChange(r, h, key)
       PROVE  ControlInv'
  BY <1>17 DEF ReactChange, InsertedInv, DecisionInv, TasksInv
<1>18. ASSUME NEW r \in Reg, NEW h \in Hash, NEW key \in Keys, ApproveHashChange(r, h, key)
       PROVE  ControlInv'
  BY <1>18 DEF ApproveHashChange, InsertedInv, DecisionInv, TasksInv
<1>19. ASSUME NEW r \in Reg, NEW h \in Hash, NEW key \in Keys, ResolveHashChange(r, h, key)
       PROVE  ControlInv'
  <2>1. InsertedInv'
    BY <1>19 DEF ResolveHashChange, Save, InsertedInv
  <2>2. DecisionInv' /\ TasksInv'
    BY <1>19 DEF ResolveHashChange, Save, DecisionInv, TasksInv
  <2> QED BY <2>1, <2>2
<1>20. ASSUME Restart PROVE ControlInv'
  BY <1>20 DEF Restart, InsertedInv, DecisionInv, TasksInv
<1>21. CASE UNCHANGED vars
  BY <1>21 DEF vars, InsertedInv, DecisionInv, TasksInv
<1> HIDE DEF RegistryInv, ControlInv, TypeOK, Present, Early, Keys,
        handlerVars, storeVars, changeVars, historyVars
<1> QED BY <1>1, <1>2, <1>3, <1>4, <1>5, <1>6, <1>7, <1>8, <1>9, <1>10, <1>11, <1>12, <1>13,
           <1>14, <1>15, <1>16, <1>17, <1>18, <1>19, <1>20, <1>21 DEF Next, Handler, HashChange

(* The inductive invariant holds in every reachable state: handlers,        *)
(* revocations, decisions on changed hashes and restarts keep it, whether   *)
(* the registry file can be written or not.                                 *)
THEOREM RegistryInvariant == Spec => []RegistryInv
<1>1. Init => RegistryInv
  <2> SUFFICES ASSUME Init PROVE RegistryInv
    OBVIOUS
  <2>1. TypeOK
    BY AbsentEntry DEF Init, TypeOK
  <2>2. StoreInv
    BY AbsentEntry DEF Init, StoreInv, OrderInv, EnabledWasApproved, TrustedHashWasAccepted,
                       NoDanglingIndex, Present
  <2>3. ControlInv
    BY RegistryAssumption DEF Init, ControlInv, InsertedInv, DecisionInv, TasksInv, Present
  <2> QED BY <2>1, <2>2, <2>3 DEF RegistryInv
<1>2. RegistryInv /\ [Next]_vars => RegistryInv'
  BY TypeStep, StoreStep, ControlStep DEF RegistryInv, StoreInv
<1> QED BY <1>1, <1>2, PTL DEF Spec

(* Every variable of the registry has its type in every reachable state.    *)
THEOREM RegistryTypeCorrect == Spec => []TypeOK
<1>1. RegistryInv => TypeOK
  BY DEF RegistryInv
<1> QED BY <1>1, RegistryInvariant, PTL

(* A caller is enabled, in memory or in the file, only if somebody accepted *)
(* its registration; no refusal, timeout, failed message or crash in        *)
(* handle_register_caller enables one.                                      *)
THEOREM EnabledIsApproved == Spec => []EnabledWasApproved
<1>1. RegistryInv => EnabledWasApproved
  BY DEF RegistryInv, StoreInv
<1> QED BY <1>1, RegistryInvariant, PTL

(* _resolve_hash_change, however late it runs and whatever it overtakes,    *)
(* leaves a caller with a hash that somebody accepted for it.               *)
THEOREM TrustedHashIsAccepted == Spec => []TrustedHashWasAccepted
<1>1. RegistryInv => TrustedHashWasAccepted
  BY DEF RegistryInv, StoreInv
<1> QED BY <1>1, RegistryInvariant, PTL

(* _registrations_by_name and _caller_registry_by_path lead to entries that *)
(* exist and that have that name or path, after a restart too.              *)
THEOREM IndexesLeadToEntries == Spec => []NoDanglingIndex
<1>1. RegistryInv => NoDanglingIndex
  BY DEF RegistryInv, StoreInv
<1> QED BY <1>1, RegistryInvariant, PTL

----------------------------------------------------------------------------
(* Revocation on a disk that works                                          *)

(* The file holds no entry that memory does not, and what was revoked is    *)
(* in neither.                                                              *)
SavedInv ==
    /\ revoked \subseteq Reg
    /\ \A r \in Reg : disk[r] # Absent => Present(r)
    /\ RevokedStaysRevoked

(* The steps that change an entry in place neither add nor remove one.      *)
LEMMA PresenceKept ==
    ASSUME TypeOK, NEW r \in Reg,
           \/ Activate(r) \/ Upgrade(r)
           \/ \E h \in Hash : DecideNotify(r, h) \/ \E key \in Keys : ResolveHashChange(r, h, key)
    PROVE  /\ \A q \in Reg : Present(q)' <=> Present(q)
           /\ disk' = disk \/ disk' = registry'
<1> USE DEF TypeOK, Present
<1>1. disk' = disk \/ disk' = registry'
  BY DEF Activate, Upgrade, DecideNotify, ResolveHashChange, Save
<1>2. CASE Present(r)
  <2>1. /\ [registry[r] EXCEPT !.enabled = TRUE] # Absent
        /\ [registry[r] EXCEPT !.mode = "auto"] # Absent
        /\ [registry[r] EXCEPT !.notified = TRUE] # Absent
    BY <1>2, FlagUpdates
  <2>2. \A h \in Hash, key \in Keys : Resolved(registry[r], h, key) # Absent
    BY <1>2, HashUpdate
  <2>3. registry'[r] # Absent /\ \A q \in Reg \ {r} : registry'[q] = registry[q]
    <3>1. CASE Activate(r) \/ Upgrade(r)
      BY <1>2, <2>1, <3>1 DEF Activate, Upgrade
    <3>2. ASSUME NEW h \in Hash, DecideNotify(r, h)
          PROVE  registry'[r] # Absent /\ \A q \in Reg \ {r} : registry'[q] = registry[q]
      BY <1>2, <2>1, <3>2 DEF DecideNotify
    <3>3. ASSUME NEW h \in Hash, NEW key \in Keys, ResolveHashChange(r, h, key)
          PROVE  registry'[r] # Absent /\ \A q \in Reg \ {r} : registry'[q] = registry[q]
      BY <1>2, <2>2, <3>3 DEF ResolveHashChange
    <3> QED BY <3>1, <3>2, <3>3
  <2> QED BY <1>1, <1>2, <2>3
<1>3. CASE ~Present(r)
  BY <1>1, <1>3 DEF Activate, Upgrade, DecideNotify, ResolveHashChange
<1> QED BY <1>2, <1>3

(* When every save succeeds, an answered revocation is final: no late       *)
(* approval, late decision or restart brings the caller back.               *)
THEOREM RevocationIsFinal ==
    ASSUME ~DiskMayFail
    PROVE  Spec => []RevokedStaysRevoked
<1>1. Init => SavedInv
  BY DEF Init, SavedInv, RevokedStaysRevoked, Present
<1>2. SavedInv /\ RegistryInv /\ [Next]_vars => SavedInv'
  <2> SUFFICES ASSUME SavedInv, RegistryInv, [Next]_vars PROVE SavedInv'
    OBVIOUS
  <2> USE DEF SavedInv, Present, RevokedStaysRevoked,
          handlerVars, storeVars, changeVars, historyVars
  <2>1. TypeOK /\ StoreInv /\ InsertedInv
    BY DEF RegistryInv, ControlInv
  <2>2. ASSUME NEW r \in Reg, Insert(r) PROVE SavedInv'
    <3>1. r \notin revoked /\ disk[r] = Absent
      BY <2>1, <2>2 DEF Insert, InsertedInv, Early
    <3>2. registry \in [Reg -> Caller] /\ UNCHANGED <<disk, revoked>>
      BY <2>1, <2>2 DEF TypeOK, Insert
    <3>3. \A q \in Reg \ {r} : registry'[q] = registry[q]
      BY <2>2, <3>2 DEF Insert
    <3> QED BY <3>1, <3>2, <3>3
  <2>3. ASSUME NEW r \in Reg, DropRegistration(r) PROVE SavedInv'
    <3>1. PICK ok \in BOOLEAN : RevokeCaller(r, ok)
      BY <2>3 DEF DropRegistration
    <3>2. \A q \in Reg : Present(q)' => Present(q)
      BY <2>1, <2>3, <3>1, EntryRemoved DEF DropRegistration
    <3>3. UNCHANGED <<registry, disk>> \/ disk' = registry'
      BY <3>1 DEF RevokeCaller, Save
    <3> QED BY <2>3, <3>2, <3>3 DEF DropRegistration
  <2>4. ASSUME NEW x \in Revoker, RevokeRun(x) PROVE SavedInv'
    <3>1. PICK t \in Reg : t = target[x]
      BY <2>1, <2>4 DEF RevokeRun, TypeOK
    <3>2. PICK ok \in BOOLEAN : RevokeCaller(t, ok)
      BY <2>4, <3>1 DEF RevokeRun
    <3>3. ~Present(t)' /\ \A q \in Reg : Present(q)' => Present(q)
      BY <2>1, <2>4, <3>2, EntryRemoved DEF RevokeRun
    <3>4. UNCHANGED <<registry, disk>> \/ disk' = registry'
      BY <3>2 DEF RevokeCaller, Save
    <3>5. revoked' = revoked \/ revoked' = revoked \cup {t}
      BY <2>4, <3>1 DEF RevokeRun
    <3> QED BY <3>3, <3>4, <3>5
  <2>5. ASSUME NEW r \in Reg,
               \/ Activate(r) \/ Upgrade(r)
               \/ \E h \in Hash :
                     DecideNotify(r, h) \/ \E key \in Keys : ResolveHashChange(r, h, key)
        PROVE  SavedInv'
    <3>1. revoked' = revoked
      BY <2>5 DEF Activate, Upgrade, DecideNotify, ResolveHashChange
    <3> QED BY <2>1, <2>5, <3>1, PresenceKept
  <2>6. ASSUME Restart PROVE SavedInv'
    BY <2>6 DEF Restart
  <2>7. ASSUME UNCHANGED <<registry, disk, revoked>> PROVE SavedInv'
    BY <2>7
  <2>8. ASSUME NEW r \in Reg,
               CheckName(r) \/ AskRegistration(r) \/ OpenPending(r) \/ WakeRegistration(r)
                  \/ RegistrationTimeout(r) \/ ClosePending(r)
                  \/ \E key \in Keys : ReactRegistration(r, key)
        PROVE  UNCHANGED <<registry, disk, revoked>>
    BY <2>8 DEF CheckName, AskRegistration, OpenPending, WakeRegistration,
                RegistrationTimeout, ClosePending, ReactRegistration
  <2>9. ASSUME \/ \E x \in Revoker, n \in Name : RevokeLookup(x, n)
               \/ \E h \in Hash, p \in Path : SeeMismatch(h, p)
        PROVE  UNCHANGED <<registry, disk, revoked>>
    BY <2>9 DEF RevokeLookup, SeeMismatch
  <2>10. ASSUME NEW r \in Reg, NEW h \in Hash,
                \/ NotifyHashChange(r, h)
                \/ \E key \in Keys : ReactChange(r, h, key) \/ ApproveHashChange(r, h, key)
         PROVE  UNCHANGED <<registry, disk, revoked>>
    BY <2>10 DEF NotifyHashChange, ReactChange, ApproveHashChange
  <2>11. CASE UNCHANGED vars
    BY <2>7, <2>11 DEF vars
  <2> HIDE DEF SavedInv, Present, RevokedStaysRevoked, handlerVars, storeVars, changeVars,
               historyVars
  <2> QED BY <2>2, <2>3, <2>4, <2>5, <2>6, <2>7, <2>8, <2>9, <2>10, <2>11
          DEF Next, Handler, HashChange
<1>3. SavedInv => RevokedStaysRevoked
  BY DEF SavedInv
<1> QED BY <1>1, <1>2, <1>3, RegistryInvariant, PTL DEF Spec
=============================================================================
