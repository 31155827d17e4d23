----------------------------- MODULE TokenVault -----------------------------
(***************************************************************************)
(* The credential tokens of TokenMixin (_token.py): the two maps between   *)
(* secrets and tokens with their LRU bound, the version-stamped pattern    *)
(* caches of _redact and _restore, the `forget secrets` command, and the   *)
(* snapshot an LLM request takes of the maps (_llm.py).                    *)
(*                                                                         *)
(* A token is its sequence number.  A text is the set of secrets or tokens *)
(* that occur in it; the longest-match substitution of one string inside   *)
(* another is left out.  A dict is a total function with a null value for  *)
(* absent keys, and the OrderedDict's order is kept beside it.             *)
(***************************************************************************)
EXTENDS Naturals, Integers, Sequences, FiniteSets

CONSTANTS
    Secret,         \* password values that may be registered
    Request,        \* LLM requests in flight
    Addr,           \* addresses of dict objects, what id() returns
    MaxEntries,     \* MAX_TOKEN_ENTRIES
    MaxSeq,         \* bound on _token_seq
    NoSecret        \* stands for None

ASSUME VaultAssumption ==
    /\ NoSecret \notin Secret
    /\ MaxEntries \in Nat \ {0}
    /\ MaxSeq \in Nat
    /\ 0 \notin Addr

Token == 1..MaxSeq
PwdMap   == [Secret -> Token \cup {0}]
TokenMap == [Token -> Secret \cup {NoSecret}]

VARIABLES
    pwdToToken,     \* self.pwd_to_token; 0 for an absent key
    order,          \* the order of that OrderedDict, oldest first
    tokenToPwd,     \* self.token_to_pwd
    tokenSeq,       \* self._token_seq
    redactVer, redactMap,       \* _redact_cache_ver and the cached replacements
    restoreVer, restoreMap,     \* _restore_cache_ver and the cached replacements
    phase,          \* where each request is
    snapP2T, snapT2P,           \* a request's snapshot of the two maps
    body,           \* the secrets of the request's body
    activeT2P,      \* active_t2p: the tokens this request may restore
    addr,           \* id(active_t2p) while the request lives, or 0
    activeKey, activeMap,       \* _restore_active_cache: its key and replacements
    used,           \* the replacements the request's last _restore applied
    issued          \* history: <<token, secret>> of every registration

vaultVars   == <<pwdToToken, order, tokenToPwd, tokenSeq, issued>>
cacheVars   == <<redactVer, redactMap, restoreVer, restoreMap>>
requestVars == <<phase, snapP2T, snapT2P, body, activeT2P, addr, used>>
activeVars  == <<activeKey, activeMap>>
vars        == <<vaultVars, cacheVars, requestVars, activeVars>>

NoPwd   == [v \in Secret |-> 0]
NoToken == [t \in Token |-> NoSecret]

----------------------------------------------------------------------------
(* OrderedDict operations on the key order                                 *)

IndexOf(v) == CHOOSE i \in DOMAIN order : order[i] = v

(* order without its i-th key, followed by v                                *)
MovedToEnd(i, v) ==
    [j \in DOMAIN order |-> IF j < i THEN order[j]
                            ELSE IF j < Len(order) THEN order[j + 1] ELSE v]

----------------------------------------------------------------------------
Init ==
    /\ pwdToToken = NoPwd
    /\ order = <<>>
    /\ tokenToPwd = NoToken
    /\ tokenSeq = 0
    /\ issued = {}
    /\ redactVer = -1 /\ redactMap = NoPwd
    /\ restoreVer = -1 /\ restoreMap = NoToken
    /\ phase = [q \in Request |-> "idle"]
    /\ snapP2T = [q \in Request |-> NoPwd]
    /\ snapT2P = [q \in Request |-> NoToken]
    /\ body = [q \in Request |-> {}]
    /\ activeT2P = [q \in Request |-> NoToken]
    /\ addr = [q \in Request |-> 0]
    /\ used = [q \in Request |-> NoToken]
    /\ activeKey = <<0, NoToken>> /\ activeMap = NoToken

(* _register_secret on a value that is registered: it becomes the newest.   *)
RegisterKnown(v) ==
    /\ pwdToToken[v] # 0
    /\ order' = MovedToEnd(IndexOf(v), v)
    /\ UNCHANGED <<pwdToToken, tokenToPwd, tokenSeq, issued, cacheVars, requestVars,
                   activeVars>>

(* Variant: the evicted entry leaves only pwd_to_token.                     *)
RegisterNewKeepsToken(v) ==
    /\ pwdToToken[v] = 0
    /\ tokenSeq < MaxSeq
    /\ LET token == tokenSeq + 1
           full  == Len(order) >= MaxEntries
           evicted == IF full THEN {order[1]} ELSE {}
       IN /\ tokenSeq' = token
          /\ pwdToToken' = [w \in Secret |-> IF w = v THEN token
                                ELSE IF w \in evicted THEN 0 ELSE pwdToToken[w]]
          /\ tokenToPwd' = [tokenToPwd EXCEPT ![token] = v]
          /\ order' = Append(IF full THEN Tail(order) ELSE order, v)
          /\ issued' = issued \cup {<<token, v>>}
    /\ UNCHANGED <<cacheVars, requestVars, activeVars>>

(* Variant: the bound is tested with > instead of >=.                       *)
RegisterNewOverfull(v) ==
    /\ pwdToToken[v] = 0
    /\ tokenSeq < MaxSeq
    /\ LET token == tokenSeq + 1
           full  == Len(order) > MaxEntries
           evicted == IF full THEN {order[1]} ELSE {}
           dropped == {pwdToToken[w] : w \in evicted}
       IN /\ tokenSeq' = token
          /\ pwdToToken' = [w \in Secret |-> IF w = v THEN token
                                ELSE IF w \in evicted THEN 0 ELSE pwdToToken[w]]
          /\ tokenToPwd' = [t \in Token |-> IF t = token THEN v
                                ELSE IF t \in dropped THEN NoSecret ELSE tokenToPwd[t]]
          /\ order' = Append(IF full THEN Tail(order) ELSE order, v)
          /\ issued' = issued \cup {<<token, v>>}
    /\ UNCHANGED <<cacheVars, requestVars, activeVars>>

(* _register_secret on a new value: a fresh token, and the oldest entry     *)
(* leaves both maps when the vault is full.                                 *)
RegisterNew(v) ==
    /\ pwdToToken[v] = 0
    /\ tokenSeq < MaxSeq
    /\ LET token == tokenSeq + 1
           full  == Len(order) >= MaxEntries
           evicted == IF full THEN {order[1]} ELSE {}
           dropped == {pwdToToken[w] : w \in evicted}
       IN /\ tokenSeq' = token
          /\ pwdToToken' = [w \in Secret |-> IF w = v THEN token
                                ELSE IF w \in evicted THEN 0 ELSE pwdToToken[w]]
          /\ tokenToPwd' = [t \in Token |-> IF t = token THEN v
                                ELSE IF t \in dropped THEN NoSecret ELSE tokenToPwd[t]]
          /\ order' = Append(IF full THEN Tail(order) ELSE order, v)
          /\ issued' = issued \cup {<<token, v>>}
    /\ UNCHANGED <<cacheVars, requestVars, activeVars>>

(* Variant: the sequence starts again.                                      *)
ForgetSecretsRestarts ==
    /\ pwdToToken' = NoPwd
    /\ order' = <<>>
    /\ tokenToPwd' = NoToken
    /\ tokenSeq' = 0
    /\ UNCHANGED <<issued, cacheVars, requestVars, activeVars>>

(* The `forget secrets` command; the sequence number is kept.               *)
ForgetSecrets ==
    /\ pwdToToken' = NoPwd
    /\ order' = <<>>
    /\ tokenToPwd' = NoToken
    /\ UNCHANGED <<tokenSeq, issued, cacheVars, requestVars, activeVars>>

----------------------------------------------------------------------------
(* _redact and _restore without an explicit mapping                         *)

RedactAll ==
    /\ pwdToToken # NoPwd
    /\ redactVer # tokenSeq
    /\ redactMap' = pwdToToken
    /\ redactVer' = tokenSeq
    /\ UNCHANGED <<vaultVars, restoreVer, restoreMap, requestVars, activeVars>>

RestoreAll ==
    /\ tokenToPwd # NoToken
    /\ restoreVer # tokenSeq
    /\ restoreMap' = tokenToPwd
    /\ restoreVer' = tokenSeq
    /\ UNCHANGED <<vaultVars, redactVer, redactMap, requestVars, activeVars>>

----------------------------------------------------------------------------
(* A request of the LLM proxy                                               *)

(* Both maps are copied in one critical section.                            *)
Snapshot(q) ==
    /\ phase[q] = "idle"
    /\ phase' = [phase EXCEPT ![q] = "snap"]
    /\ snapP2T' = [snapP2T EXCEPT ![q] = pwdToToken]
    /\ snapT2P' = [snapT2P EXCEPT ![q] = tokenToPwd]
    /\ UNCHANGED <<body, activeT2P, addr, used, vaultVars, cacheVars, activeVars>>

(* Variant: the tokens are looked up in the shared map, not in the copy.    *)
RedactBodyShared(q, secrets, literals) ==
    /\ phase[q] = "snap"
    /\ phase' = [phase EXCEPT ![q] = "stream"]
    /\ body' = [body EXCEPT ![q] = secrets]
    /\ LET out == {snapP2T[q][v] : v \in secrets} \cup literals
       IN activeT2P' = [activeT2P EXCEPT ![q] =
                           [t \in Token |-> IF t \in out THEN tokenToPwd[t] ELSE NoSecret]]
    /\ \E a \in Addr : /\ \A p \in Request : addr[p] # a
                       /\ addr' = [addr EXCEPT ![q] = a]
    /\ UNCHANGED <<snapP2T, snapT2P, used, vaultVars, cacheVars, activeVars>>

(* After the awaits of PII redaction: secrets of the body become tokens of  *)
(* the snapshot, and active_t2p keeps the tokens that occur in the result,  *)
(* those the client wrote itself included.                                  *)
RedactBody(q, secrets, literals) ==
    /\ phase[q] = "snap"
    /\ phase' = [phase EXCEPT ![q] = "stream"]
    /\ body' = [body EXCEPT ![q] = secrets]
    /\ LET out == {snapP2T[q][v] : v \in secrets} \cup literals
       IN activeT2P' = [activeT2P EXCEPT ![q] =
                           [t \in Token |-> IF t \in out THEN snapT2P[q][t] ELSE NoSecret]]
    /\ \E a \in Addr : /\ \A p \in Request : addr[p] # a
                       /\ addr' = [addr EXCEPT ![q] = a]
    /\ UNCHANGED <<snapP2T, snapT2P, used, vaultVars, cacheVars, activeVars>>

(* Variant: the cache is keyed by the dict's address alone.                 *)
CacheKeyByAddress(q) == <<addr[q], NoToken>>

(* The key of _restore_active_cache: the dict's address and its items.      *)
CacheKey(q) == <<addr[q], activeT2P[q]>>

(* _restore(text, active_t2p), once per line of the answer: one cache entry *)
(* for all requests, rebuilt when its key differs.                          *)
RestoreLine(q) ==
    /\ phase[q] = "stream"
    /\ activeT2P[q] # NoToken
    /\ LET hit == activeKey = CacheKey(q)
       IN /\ activeKey' = CacheKey(q)
          /\ activeMap' = IF hit THEN activeMap ELSE activeT2P[q]
          /\ used' = [used EXCEPT ![q] = activeMap']
    /\ UNCHANGED <<vaultVars, cacheVars, phase, snapP2T, snapT2P, body, activeT2P, addr>>

(* The request ends and its dict is freed; its address may be used again.   *)
EndRequest(q) ==
    /\ phase[q] = "stream"
    /\ phase' = [phase EXCEPT ![q] = "idle"]
    /\ addr' = [addr EXCEPT ![q] = 0]
    /\ body' = [body EXCEPT ![q] = {}]
    /\ snapP2T' = [snapP2T EXCEPT ![q] = NoPwd]
    /\ snapT2P' = [snapT2P EXCEPT ![q] = NoToken]
    /\ activeT2P' = [activeT2P EXCEPT ![q] = NoToken]
    /\ used' = [used EXCEPT ![q] = NoToken]
    /\ UNCHANGED <<vaultVars, cacheVars, activeVars>>

----------------------------------------------------------------------------
Next ==
    \/ \E v \in Secret : RegisterKnown(v) \/ RegisterNew(v)
    \/ ForgetSecrets
    \/ RedactAll \/ RestoreAll
    \/ \E q \in Request :
          \/ Snapshot(q) \/ RestoreLine(q) \/ EndRequest(q)
          \/ \E secrets \in SUBSET Secret, literals \in SUBSET Token :
                RedactBody(q, secrets, literals)

Spec == Init /\ [][Next]_vars

----------------------------------------------------------------------------
(* Properties                                                               *)

VaultTypes ==
    /\ pwdToToken \in PwdMap
    /\ tokenToPwd \in TokenMap
    /\ order \in Seq(Secret)
    /\ tokenSeq \in 0..MaxSeq
    /\ issued \subseteq Token \X Secret

CacheTypes ==
    /\ redactVer \in -1..MaxSeq /\ redactMap \in PwdMap
    /\ restoreVer \in -1..MaxSeq /\ restoreMap \in TokenMap

RequestTypes ==
    /\ phase \in [Request -> {"idle", "snap", "stream"}]
    /\ snapP2T \in [Request -> PwdMap]
    /\ snapT2P \in [Request -> TokenMap]
    /\ body \in [Request -> SUBSET Secret]
    /\ activeT2P \in [Request -> TokenMap]
    /\ addr \in [Request -> Addr \cup {0}]
    /\ used \in [Request -> TokenMap]
    /\ activeKey \in (Addr \cup {0}) \X TokenMap
    /\ activeMap \in TokenMap

(* Every variable of the vault has its type.                                *)
TypeOK == VaultTypes /\ CacheTypes /\ RequestTypes

(* p and t are inverse to each other.                                       *)
InverseMaps(p, t) ==
    /\ \A v \in Secret : p[v] # 0 => t[p[v]] = v
    /\ \A k \in Token : t[k] # NoSecret => p[t[k]] = k

(* The two maps stay inverse through registrations, evictions and           *)
(* `forget secrets`, and so do the copies a request took of them.           *)
MapsInverse ==
    /\ InverseMaps(pwdToToken, tokenToPwd)
    /\ \A q \in Request : InverseMaps(snapP2T[q], snapT2P[q])

(* The order lists exactly the registered secrets, each once, and never     *)
(* more than MAX_TOKEN_ENTRIES of them.                                     *)
OrderListsEntries ==
    /\ Len(order) <= MaxEntries
    /\ \A v \in Secret : pwdToToken[v] # 0 <=> \E i \in DOMAIN order : order[i] = v
    /\ \A i, j \in DOMAIN order : order[i] = order[j] => i = j

(* A token names one secret for the life of the process: an answer that     *)
(* still holds an evicted or forgotten token never turns it into another    *)
(* secret, in the vault or in any request's copy.                           *)
TokenMeansOneSecret ==
    /\ \A x, y \in issued : x[1] = y[1] => x[2] = y[2]
    /\ \A t \in Token : tokenToPwd[t] # NoSecret => <<t, tokenToPwd[t]>> \in issued
    /\ \A q \in Request, t \in Token :
          activeT2P[q][t] # NoSecret => <<t, activeT2P[q][t]>> \in issued

(* A cached pattern that will be used (its version is current and the map   *)
(* is not empty) was built from the current map, although `forget secrets`  *)
(* changes the map and not the version.                                     *)
CachesCurrent ==
    /\ pwdToToken # NoPwd /\ redactVer = tokenSeq => redactMap = pwdToToken
    /\ tokenToPwd # NoToken /\ restoreVer = tokenSeq => restoreMap = tokenToPwd

(* What a request replaced it can put back, whatever was evicted or         *)
(* forgotten while its answer streams.                                      *)
RequestRestoresItsSecrets ==
    \A q \in Request : phase[q] = "stream" =>
        \A v \in body[q] : snapP2T[q][v] # 0 => activeT2P[q][snapP2T[q][v]] = v

(* The one-entry pattern cache shared by all streams never applies another  *)
(* request's tokens, even when a new dict has the address of a freed one.   *)
RestoreUsesOwnMap ==
    \A q \in Request : used[q] \in {NoToken, activeT2P[q]}

(* The inductive invariant.                                                 *)

(* Tokens are issued in sequence and recorded; a request's copy holds only  *)
(* issued tokens.                                                           *)
IssuedInv ==
    /\ \A x \in issued : x[1] <= tokenSeq
    /\ \A q \in Request, t \in Token :
          snapT2P[q][t] # NoSecret => <<t, snapT2P[q][t]>> \in issued

CacheInv ==
    /\ redactVer <= tokenSeq /\ restoreVer <= tokenSeq
    /\ activeKey[2] = activeMap
    /\ \A q \in Request : phase[q] # "stream" => used[q] = NoToken

VaultInv ==
    /\ MapsInverse /\ OrderListsEntries /\ TokenMeansOneSecret /\ CachesCurrent
    /\ RequestRestoresItsSecrets /\ RestoreUsesOwnMap
    /\ IssuedInv /\ CacheInv
=============================================================================
