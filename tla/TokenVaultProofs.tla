-------------------------- MODULE TokenVaultProofs --------------------------
(***************************************************************************)
(* Proofs about the credential token vault, for every set of secrets and   *)
(* requests, every vault size and every bound on the token sequence.       *)
(***************************************************************************)
EXTENDS TokenVaultLedger, TLAPS

(* Moving the i-th of n distinct items to the end leaves them distinct.     *)
LEMMA MoveKeepsDistinct ==
    ASSUME NEW n \in Nat, NEW f, NEW g, NEW i \in 1..n,
           \A j, k \in 1..n : f[j] = f[k] => j = k,
           \A j \in 1..n : g[j] = IF j < i THEN f[j]
                                  ELSE IF j < n THEN f[j + 1] ELSE f[i]
    PROVE  \A j, k \in 1..n : g[j] = g[k] => j = k
<1> DEFINE at(j) == IF j < i THEN j ELSE IF j < n THEN j + 1 ELSE i
<1>1. \A j \in 1..n : at(j) \in 1..n /\ g[j] = f[at(j)]
  OBVIOUS
<1>2. \A j, k \in 1..n : at(j) = at(k) => j = k
  OBVIOUS
<1> HIDE DEF at
<1> QED BY <1>1, <1>2

(* Dropping the first of n distinct items and appending a new one leaves    *)
(* them distinct.                                                           *)
LEMMA ShiftKeepsDistinct ==
    ASSUME NEW n \in Nat, NEW f, NEW g, NEW v,
           \A j, k \in 1..n : f[j] = f[k] => j = k,
           \A j \in 1..n : f[j] # v,
           \A j \in 1..n : g[j] = IF j = n THEN v ELSE f[j + 1]
    PROVE  \A j, k \in 1..n : g[j] = g[k] => j = k
<1>1. \A j \in 1..n : j # n => j + 1 \in 1..n /\ g[j] = f[j + 1]
  OBVIOUS
<1> SUFFICES ASSUME NEW j \in 1..n, NEW k \in 1..n, g[j] = g[k] PROVE j = k
  OBVIOUS
<1>2. CASE j = n /\ k = n
  BY <1>2
<1>3. CASE j # n /\ k # n
  <2>1. f[j + 1] = f[k + 1] /\ j + 1 \in 1..n /\ k + 1 \in 1..n
    BY <1>1, <1>3
  <2> QED BY <2>1
<1>4. CASE j = n /\ k # n
  BY <1>1, <1>4
<1>5. CASE j # n /\ k = n
  BY <1>1, <1>5
<1> QED BY <1>2, <1>3, <1>4, <1>5

(* A full vault that respects its bound has exactly MaxEntries entries.     *)
LEMMA FullLength ==
    ASSUME NEW n \in Nat, NEW m \in Nat \ {0}, n <= m, n >= m
    PROVE  n = m /\ n > 0
  OBVIOUS

(* MovedToEnd rearranges: same length, same kind of items.                  *)
LEMMA MovedToEndType ==
    ASSUME VaultTypes, NEW v \in Secret, NEW i \in DOMAIN order
    PROVE  /\ MovedToEnd(i, v) \in Seq(Secret)
           /\ DOMAIN MovedToEnd(i, v) = DOMAIN order
           /\ Len(MovedToEnd(i, v)) = Len(order)
<1>1. DOMAIN order = 1..Len(order) /\ Len(order) \in Nat
  BY DEF VaultTypes
<1>2. \A j \in 1..Len(order) : MovedToEnd(i, v)[j] \in Secret
  BY <1>1 DEF MovedToEnd, VaultTypes
<1>3. MovedToEnd(i, v) = [j \in 1..Len(order) |-> MovedToEnd(i, v)[j]]
  BY <1>1 DEF MovedToEnd
<1> QED BY <1>1, <1>2, <1>3

(* Registering a known secret again only rearranges the LRU order.          *)
LEMMA RegisterKnownOrder ==
    ASSUME TypeOK, VaultInv, NEW v \in Secret, RegisterKnown(v)
    PROVE  order' \in Seq(Secret) /\ OrderListsEntries'
<1> USE VaultAssumption DEF TypeOK, VaultTypes
<1> DEFINE n == Len(order)
<1>1. PICK i \in DOMAIN order : i = IndexOf(v) /\ order[i] = v
  BY DEF RegisterKnown, VaultInv, OrderListsEntries, IndexOf
<1>2. DOMAIN order = 1..n /\ n \in Nat
  OBVIOUS
<1>3. order' = MovedToEnd(i, v)
  BY <1>1 DEF RegisterKnown
<1>4. order' \in Seq(Secret) /\ Len(order') = n /\ DOMAIN order' = 1..n
  BY MovedToEndType, <1>2, <1>3
<1>5. \A j \in 1..n : order'[j] = IF j < i THEN order[j]
                                  ELSE IF j < n THEN order[j + 1] ELSE order[i]
  BY <1>1, <1>2, <1>3 DEF MovedToEnd
<1>6. \A j, k \in 1..n : order'[j] = order'[k] => j = k
  <2>1. \A j, k \in 1..n : order[j] = order[k] => j = k
    BY <1>2 DEF VaultInv, OrderListsEntries
  <2>2. i \in 1..n /\ n \in Nat
    BY <1>1, <1>2
  <2> HIDE DEF n
  <2> QED BY <2>1, <2>2, <1>5, MoveKeepsDistinct
<1>7. ASSUME NEW w \in Secret
      PROVE  (\E j \in 1..n : order[j] = w) <=> (\E j \in 1..n : order'[j] = w)
  <2>1. ASSUME NEW j \in 1..n, order[j] = w PROVE \E k \in 1..n : order'[k] = w
    <3>1. CASE j < i
      BY <3>1, <2>1, <1>5
    <3>2. CASE j = i
      BY <3>2, <2>1, <1>1, <1>2, <1>5
    <3>3. CASE j > i
      <4>1. j - 1 \in 1..n /\ order'[j - 1] = w
        BY <3>3, <2>1, <1>1, <1>2, <1>5
      <4> QED BY <4>1
    <3> QED BY <3>1, <3>2, <3>3, <1>2
  <2>2. ASSUME NEW j \in 1..n, order'[j] = w PROVE \E k \in 1..n : order[k] = w
    BY <2>2, <1>1, <1>2, <1>5
  <2> QED BY <2>1, <2>2
<1> QED BY <1>2, <1>4, <1>6, <1>7, ZenonT(40) DEF RegisterKnown, VaultInv, OrderListsEntries

(* Registering a new secret keeps the order a list of the registered        *)
(* secrets, with and without an eviction.                                   *)
LEMMA RegisterNewOrder ==
    ASSUME TypeOK, VaultInv, NEW v \in Secret, RegisterNew(v)
    PROVE  OrderListsEntries'
<1> USE VaultAssumption DEF TypeOK, VaultTypes
<1> DEFINE n == Len(order)
<1>1. DOMAIN order = 1..n /\ n \in Nat
  OBVIOUS
<1>2. v \notin {order[i] : i \in 1..n}
  BY <1>1 DEF RegisterNew, VaultInv, OrderListsEntries
<1>3. tokenSeq + 1 # 0
  OBVIOUS
<1>4. CASE n < MaxEntries
  <2>1. order' = Append(order, v)
    BY <1>4, <1>1 DEF RegisterNew
  <2>2. /\ Len(order') = n + 1 /\ DOMAIN order' = 1..(n + 1)
        /\ \A j \in 1..(n + 1) : order'[j] = IF j = n + 1 THEN v ELSE order[j]
    BY <2>1, <1>1
  <2>3. pwdToToken' = [w \in Secret |-> IF w = v THEN tokenSeq + 1 ELSE pwdToToken[w]]
    BY <1>4, <1>1 DEF RegisterNew
  <2> QED BY <2>2, <2>3, <1>1, <1>2, <1>3, <1>4 DEF VaultInv, OrderListsEntries, PwdMap
<1>5. CASE n >= MaxEntries
  <2>1. n = MaxEntries /\ n > 0
    <3>1. n <= MaxEntries
      BY DEF VaultInv, OrderListsEntries
    <3>2. MaxEntries \in Nat \ {0}
      OBVIOUS
    <3> HIDE DEF n
    <3> QED BY <3>1, <3>2, <1>5, <1>1, FullLength
  <2>2. order' = Append(Tail(order), v)
    BY <1>5, <1>1 DEF RegisterNew
  <2>3. /\ Len(order') = n /\ DOMAIN order' = 1..n
        /\ \A j \in 1..n : order'[j] = IF j = n THEN v ELSE order[j + 1]
    BY <2>1, <2>2, <1>1
  <2>4. pwdToToken' = [w \in Secret |-> IF w = v THEN tokenSeq + 1
                                        ELSE IF w = order[1] THEN 0 ELSE pwdToToken[w]]
    BY <1>5, <1>1 DEF RegisterNew
  <2>5. \A j, k \in 1..n : order[j] = order[k] => j = k
    BY <1>1 DEF VaultInv, OrderListsEntries
  <2>6. \A i, j \in 1..n : order'[i] = order'[j] => i = j
    <3>1. \A j \in 1..n : order[j] # v
      BY <1>2
    <3> HIDE DEF n
    <3> QED BY <3>1, <2>3, <2>5, <1>1, ShiftKeepsDistinct
  <2>7. ASSUME NEW w \in Secret
        PROVE  pwdToToken'[w] # 0 <=> \E i \in 1..n : order'[i] = w
    <3>1. CASE w = v
      BY <3>1, <2>1, <2>3, <2>4, <1>3
    <3>2. CASE w # v /\ w = order[1]
      <4>1. pwdToToken'[w] = 0
        BY <3>2, <2>4
      <4>2. \A j \in 1..n : j # 1 => order[j] # order[1]
        BY <2>1, <2>5, <1>1
      <4>3. \A j \in 1..n :
               \/ j = n /\ order'[j] = v
               \/ order'[j] = order[j + 1] /\ j + 1 \in 1..n /\ j + 1 # 1
        BY <2>1, <2>3, <1>1
      <4> QED BY <4>1, <4>2, <4>3, <3>2
    <3>3. CASE w # v /\ w # order[1]
      <4>1. pwdToToken'[w] = pwdToToken[w]
        BY <3>3, <2>4
      <4>2. ASSUME NEW i \in 1..n, order[i] = w PROVE \E j \in 1..n : order'[j] = w
        <5>1. i - 1 \in 1..n /\ order'[i - 1] = w
          BY <4>2, <3>3, <2>1, <2>3, <1>1
        <5> QED BY <5>1
      <4>3. ASSUME NEW i \in 1..n, order'[i] = w PROVE \E j \in 1..n : order[j] = w
        BY <4>3, <3>3, <2>1, <2>3, <1>1
      <4> QED BY <4>1, <4>2, <4>3, <1>1 DEF VaultInv, OrderListsEntries
    <3> QED BY <3>1, <3>2, <3>3
  <2> QED BY <2>1, <2>3, <2>6, <2>7 DEF OrderListsEntries
<1> QED BY <1>1, <1>4, <1>5

(* Registering a new secret keeps the two maps inverse: the fresh token is  *)
(* in neither, and an eviction removes a matching pair.                     *)
LEMMA RegisterNewMaps ==
    ASSUME TypeOK, VaultInv, NEW v \in Secret, RegisterNew(v)
    PROVE  MapsInverse'
<1> USE VaultAssumption DEF TypeOK, VaultTypes, PwdMap, TokenMap, Token
<1> DEFINE full == Len(order) >= MaxEntries
           E == IF full THEN {order[1]} ELSE {}
           D == {pwdToToken[w] : w \in E}
<1>1. /\ pwdToToken' = [w \in Secret |-> IF w = v THEN tokenSeq + 1
                            ELSE IF w \in E THEN 0 ELSE pwdToToken[w]]
      /\ tokenToPwd' = [t \in Token |-> IF t = tokenSeq + 1 THEN v
                            ELSE IF t \in D THEN NoSecret ELSE tokenToPwd[t]]
  BY DEF RegisterNew
<1>2. /\ tokenSeq + 1 \in Token /\ tokenSeq + 1 # 0
      /\ \A t \in Token : tokenToPwd[t] # NoSecret => t # tokenSeq + 1
  <2>1. tokenSeq + 1 \in Token /\ tokenSeq + 1 # 0
    BY DEF RegisterNew
  <2>2. ASSUME NEW t \in Token, tokenToPwd[t] # NoSecret PROVE t <= tokenSeq
    <3>1. <<t, tokenToPwd[t]>> \in issued
      BY <2>2 DEF VaultInv, TokenMeansOneSecret
    <3>2. \A x \in issued : x[1] <= tokenSeq
      BY DEF VaultInv, IssuedInv
    <3> QED BY <3>1, <3>2
  <2> QED BY <2>1, <2>2
<1>3. pwdToToken[v] = 0
  BY DEF RegisterNew
<1>4. E \subseteq Secret
  BY DEF VaultInv, OrderListsEntries
<1>5. InverseMaps(pwdToToken, tokenToPwd)
  BY DEF VaultInv, MapsInverse
<1>6. \A w \in Secret : pwdToToken'[w] # 0 => tokenToPwd'[pwdToToken'[w]] = w
  <2> SUFFICES ASSUME NEW w \in Secret, pwdToToken'[w] # 0
               PROVE  tokenToPwd'[pwdToToken'[w]] = w
    OBVIOUS
  <2>1. CASE w = v
    BY <2>1, <1>1, <1>2
  <2>2. CASE w # v
    <3>1. w \notin E /\ pwdToToken'[w] = pwdToToken[w]
      BY <2>2, <1>1
    <3>2. tokenToPwd[pwdToToken[w]] = w /\ pwdToToken[w] \in Token
      BY <3>1, <1>5 DEF InverseMaps
    <3>3. pwdToToken[w] # tokenSeq + 1
      BY <3>2, <1>2
    <3>4. pwdToToken[w] \notin D
      BY <3>1, <3>2, <1>4, <1>5 DEF InverseMaps
    <3> QED BY <3>1, <3>2, <3>3, <3>4, <1>1
  <2> QED BY <2>1, <2>2
<1>7. \A t \in Token : tokenToPwd'[t] # NoSecret => pwdToToken'[tokenToPwd'[t]] = t
  <2> SUFFICES ASSUME NEW t \in Token, tokenToPwd'[t] # NoSecret
               PROVE  pwdToToken'[tokenToPwd'[t]] = t
    OBVIOUS
  <2>1. CASE t = tokenSeq + 1
    BY <2>1, <1>1
  <2>2. CASE t # tokenSeq + 1
    <3>1. t \notin D /\ tokenToPwd'[t] = tokenToPwd[t]
      BY <2>2, <1>1
    <3>2. pwdToToken[tokenToPwd[t]] = t /\ tokenToPwd[t] \in Secret
      BY <3>1, <1>5 DEF InverseMaps
    <3> QED BY <3>1, <3>2, <1>1, <1>3
  <2> QED BY <2>1, <2>2
<1> QED BY <1>6, <1>7 DEF MapsInverse, InverseMaps, VaultInv, RegisterNew, requestVars

(* The inductive invariant of the vault holds in every reachable state.     *)
THEOREM VaultInvariant == Spec => [](TypeOK /\ VaultInv)
<1>1. Init => TypeOK /\ VaultInv
  <2> SUFFICES ASSUME Init PROVE TypeOK /\ VaultInv
    OBVIOUS
  <2> USE VaultAssumption DEF Init, NoPwd, NoToken, PwdMap, TokenMap, Token
  <2>1. VaultTypes /\ CacheTypes
    BY DEF VaultTypes, CacheTypes
  <2>2. RequestTypes
    BY DEF RequestTypes
  <2>3. MapsInverse /\ OrderListsEntries
    BY DEF MapsInverse, InverseMaps, OrderListsEntries
  <2>4. TokenMeansOneSecret /\ IssuedInv
    BY DEF TokenMeansOneSecret, IssuedInv
  <2>5. CachesCurrent /\ CacheInv
    BY DEF CachesCurrent, CacheInv
  <2>6. RequestRestoresItsSecrets /\ RestoreUsesOwnMap
    BY DEF RequestRestoresItsSecrets, RestoreUsesOwnMap
  <2> QED BY <2>1, <2>2, <2>3, <2>4, <2>5, <2>6 DEF TypeOK, VaultInv
<1>2. TypeOK /\ VaultInv /\ [Next]_vars => TypeOK' /\ VaultInv'
  <2> SUFFICES ASSUME TypeOK, VaultInv, [Next]_vars PROVE TypeOK' /\ VaultInv'
    OBVIOUS
  <2> USE VaultAssumption DEF TypeOK, VaultTypes, CacheTypes, RequestTypes, PwdMap,
      TokenMap, Token, VaultInv, vaultVars, cacheVars, requestVars, activeVars
  <2>1. ASSUME NEW v \in Secret, RegisterKnown(v)
        PROVE  TypeOK' /\ VaultInv'
    <3>1. VaultTypes'
      BY <2>1, RegisterKnownOrder DEF RegisterKnown
    <3>2. OrderListsEntries'
      BY <2>1, RegisterKnownOrder
    <3>3. CacheTypes' /\ RequestTypes' /\ MapsInverse' /\
       TokenMeansOneSecret' /\ CachesCurrent' /\ RequestRestoresItsSecrets' /\
       RestoreUsesOwnMap' /\ IssuedInv' /\ CacheInv'
      BY <2>1, ZenonT(40) DEF RegisterKnown, CacheTypes, RequestTypes, MapsInverse,
         TokenMeansOneSecret, CachesCurrent, RequestRestoresItsSecrets,
         RestoreUsesOwnMap, IssuedInv, CacheInv, InverseMaps
    <3> QED BY <3>1, <3>2, <3>3
  <2>2. ASSUME NEW v \in Secret, RegisterNew(v)
        PROVE  TypeOK' /\ VaultInv'
    <3>1. VaultTypes'
      BY <2>2 DEF RegisterNew, VaultTypes
    <3>2. MapsInverse'
      BY <2>2, RegisterNewMaps
    <3>3. OrderListsEntries'
      BY <2>2, RegisterNewOrder
    <3>4. TokenMeansOneSecret'
      BY <2>2 DEF RegisterNew, TokenMeansOneSecret, IssuedInv
    <3>5. CachesCurrent'
      BY <2>2 DEF RegisterNew, CachesCurrent, NoPwd, NoToken, CacheInv
    <3>6. IssuedInv'
      BY <2>2 DEF RegisterNew, IssuedInv, TokenMeansOneSecret
    <3>7. CacheInv'
      BY <2>2 DEF RegisterNew, CacheInv, NoToken
    <3>8. CacheTypes' /\ RequestTypes' /\ RequestRestoresItsSecrets' /\
       RestoreUsesOwnMap'
      BY <2>2 DEF RegisterNew, CacheTypes, RequestTypes, RequestRestoresItsSecrets,
         RestoreUsesOwnMap
    <3> QED BY <3>1, <3>2, <3>3, <3>4, <3>5, <3>6, <3>7, <3>8
  <2>3. ASSUME ForgetSecrets
        PROVE  TypeOK' /\ VaultInv'
    <3>1. VaultTypes'
      BY <2>3 DEF ForgetSecrets, NoPwd, NoToken, VaultTypes
    <3>2. MapsInverse'
      BY <2>3 DEF ForgetSecrets, NoPwd, NoToken, MapsInverse, InverseMaps
    <3>3. OrderListsEntries'
      BY <2>3 DEF ForgetSecrets, NoPwd, NoToken, OrderListsEntries
    <3>4. TokenMeansOneSecret'
      BY <2>3 DEF ForgetSecrets, NoPwd, NoToken, TokenMeansOneSecret, IssuedInv
    <3>5. CachesCurrent'
      BY <2>3 DEF ForgetSecrets, NoPwd, NoToken, CachesCurrent, CacheInv
    <3>6. CacheTypes' /\ RequestTypes' /\ RequestRestoresItsSecrets' /\
       RestoreUsesOwnMap' /\ IssuedInv' /\ CacheInv'
      BY <2>3 DEF ForgetSecrets, CacheTypes, RequestTypes,
         RequestRestoresItsSecrets, RestoreUsesOwnMap, IssuedInv, CacheInv
    <3> QED BY <3>1, <3>2, <3>3, <3>4, <3>5, <3>6
  <2>4. ASSUME RedactAll
        PROVE  TypeOK' /\ VaultInv'
    <3>1. CacheTypes'
      BY <2>4 DEF RedactAll, CacheTypes
    <3>2. CachesCurrent'
      BY <2>4 DEF RedactAll, CachesCurrent, NoPwd, NoToken, CacheInv
    <3>3. CacheInv'
      BY <2>4 DEF RedactAll, CacheInv, NoToken
    <3>4. VaultTypes' /\ RequestTypes' /\ MapsInverse' /\ OrderListsEntries' /\
       TokenMeansOneSecret' /\ RequestRestoresItsSecrets' /\
       RestoreUsesOwnMap' /\ IssuedInv'
      BY <2>4 DEF RedactAll, VaultTypes, RequestTypes, MapsInverse,
         OrderListsEntries, TokenMeansOneSecret, RequestRestoresItsSecrets,
         RestoreUsesOwnMap, IssuedInv, InverseMaps
    <3> QED BY <3>1, <3>2, <3>3, <3>4
  <2>5. ASSUME RestoreAll
        PROVE  TypeOK' /\ VaultInv'
    <3>1. CacheTypes'
      BY <2>5 DEF RestoreAll, CacheTypes
    <3>2. CachesCurrent'
      BY <2>5 DEF RestoreAll, CachesCurrent, NoPwd, NoToken, CacheInv
    <3>3. CacheInv'
      BY <2>5 DEF RestoreAll, CacheInv, NoToken
    <3>4. VaultTypes' /\ RequestTypes' /\ MapsInverse' /\ OrderListsEntries' /\
       TokenMeansOneSecret' /\ RequestRestoresItsSecrets' /\
       RestoreUsesOwnMap' /\ IssuedInv'
      BY <2>5 DEF RestoreAll, VaultTypes, RequestTypes, MapsInverse,
         OrderListsEntries, TokenMeansOneSecret, RequestRestoresItsSecrets,
         RestoreUsesOwnMap, IssuedInv, InverseMaps
    <3> QED BY <3>1, <3>2, <3>3, <3>4
  <2>6. ASSUME NEW q \in Request, Snapshot(q)
        PROVE  TypeOK' /\ VaultInv'
    <3>1. RequestTypes'
      BY <2>6 DEF Snapshot, RequestTypes, NoPwd, NoToken
    <3>2. MapsInverse'
      BY <2>6 DEF Snapshot, MapsInverse, InverseMaps
    <3>3. RequestRestoresItsSecrets'
      BY <2>6 DEF Snapshot, RequestRestoresItsSecrets, MapsInverse, InverseMaps
    <3>4. IssuedInv'
      BY <2>6 DEF Snapshot, IssuedInv, TokenMeansOneSecret
    <3>5. CacheInv'
      BY <2>6 DEF Snapshot, CacheInv, NoToken
    <3>6. VaultTypes' /\ CacheTypes' /\ OrderListsEntries' /\
       TokenMeansOneSecret' /\ CachesCurrent' /\ RestoreUsesOwnMap'
      BY <2>6 DEF Snapshot, VaultTypes, CacheTypes, OrderListsEntries,
         TokenMeansOneSecret, CachesCurrent, RestoreUsesOwnMap
    <3> QED BY <3>1, <3>2, <3>3, <3>4, <3>5, <3>6
  <2>7. ASSUME NEW q \in Request, NEW secrets \in SUBSET Secret, NEW literals \in SUBSET Token,
               RedactBody(q, secrets, literals)
        PROVE  TypeOK' /\ VaultInv'
    <3>1. RequestTypes'
      BY <2>7 DEF RedactBody, RequestTypes, NoPwd, NoToken
    <3>2. TokenMeansOneSecret'
      BY <2>7 DEF RedactBody, TokenMeansOneSecret, IssuedInv
    <3>3. RequestRestoresItsSecrets'
      BY <2>7 DEF RedactBody, RequestRestoresItsSecrets, MapsInverse, InverseMaps
    <3>4. RestoreUsesOwnMap'
      BY <2>7 DEF RedactBody, RestoreUsesOwnMap, CacheInv
    <3>5. CacheInv'
      BY <2>7 DEF RedactBody, CacheInv, NoToken
    <3>6. VaultTypes' /\ CacheTypes' /\ MapsInverse' /\ OrderListsEntries' /\
       CachesCurrent' /\ IssuedInv'
      BY <2>7 DEF RedactBody, VaultTypes, CacheTypes, MapsInverse,
         OrderListsEntries, CachesCurrent, IssuedInv, InverseMaps
    <3> QED BY <3>1, <3>2, <3>3, <3>4, <3>5, <3>6
  <2>8. ASSUME NEW q \in Request, RestoreLine(q)
        PROVE  TypeOK' /\ VaultInv'
    <3>1. RequestTypes'
      BY <2>8 DEF RestoreLine, CacheKey, RequestTypes, NoPwd, NoToken
    <3>2. RestoreUsesOwnMap'
      BY <2>8 DEF RestoreLine, CacheKey, RestoreUsesOwnMap, CacheInv
    <3>3. CacheInv'
      BY <2>8 DEF RestoreLine, CacheKey, CacheInv, NoToken
    <3>4. VaultTypes' /\ CacheTypes' /\ MapsInverse' /\ OrderListsEntries' /\
       TokenMeansOneSecret' /\ CachesCurrent' /\ RequestRestoresItsSecrets' /\
       IssuedInv'
      BY <2>8 DEF RestoreLine, VaultTypes, CacheTypes, MapsInverse,
         OrderListsEntries, TokenMeansOneSecret, CachesCurrent,
         RequestRestoresItsSecrets, IssuedInv, InverseMaps
    <3> QED BY <3>1, <3>2, <3>3, <3>4
  <2>9. ASSUME NEW q \in Request, EndRequest(q)
        PROVE  TypeOK' /\ VaultInv'
    <3>1. RequestTypes'
      BY <2>9 DEF EndRequest, NoPwd, NoToken, RequestTypes
    <3>2. MapsInverse'
      BY <2>9 DEF EndRequest, NoPwd, NoToken, MapsInverse, InverseMaps
    <3>3. TokenMeansOneSecret'
      BY <2>9 DEF EndRequest, NoPwd, NoToken, TokenMeansOneSecret, IssuedInv
    <3>4. RequestRestoresItsSecrets'
      BY <2>9 DEF EndRequest, NoPwd, NoToken, RequestRestoresItsSecrets,
         MapsInverse, InverseMaps
    <3>5. RestoreUsesOwnMap'
      BY <2>9 DEF EndRequest, NoPwd, NoToken, RestoreUsesOwnMap, CacheInv
    <3>6. IssuedInv'
      BY <2>9 DEF EndRequest, NoPwd, NoToken, IssuedInv, TokenMeansOneSecret
    <3>7. CacheInv'
      BY <2>9 DEF EndRequest, NoPwd, NoToken, CacheInv
    <3>8. VaultTypes' /\ CacheTypes' /\ OrderListsEntries' /\ CachesCurrent'
      BY <2>9 DEF EndRequest, VaultTypes, CacheTypes, OrderListsEntries,
         CachesCurrent
    <3> QED BY <3>1, <3>2, <3>3, <3>4, <3>5, <3>6, <3>7, <3>8
  <2>10. CASE UNCHANGED vars
    BY <2>10 DEF vars, MapsInverse, InverseMaps, OrderListsEntries, TokenMeansOneSecret,
       CachesCurrent, RequestRestoresItsSecrets, RestoreUsesOwnMap, IssuedInv, CacheInv
  <2> QED
    BY <2>1, <2>2, <2>3, <2>4, <2>5, <2>6, <2>7, <2>8, <2>9, <2>10 DEF Next
<1> QED BY <1>1, <1>2, PTL DEF Spec

(* Every variable of the vault keeps its type.                              *)
THEOREM VaultTypeCorrect == Spec => []TypeOK
  BY VaultInvariant, PTL

(* pwd_to_token and token_to_pwd stay inverse through registration, LRU     *)
(* eviction and `forget secrets`, and so does every request's snapshot.     *)
THEOREM MapsStayInverse == Spec => []MapsInverse
<1>1. VaultInv => MapsInverse
  BY DEF VaultInv
<1> QED BY <1>1, VaultInvariant, PTL

(* The vault never holds more than MAX_TOKEN_ENTRIES secrets, and its LRU   *)
(* order is exactly the list of them.                                       *)
THEOREM VaultIsBounded == Spec => []OrderListsEntries
<1>1. VaultInv => OrderListsEntries
  BY DEF VaultInv
<1> QED BY <1>1, VaultInvariant, PTL

(* A token is never given to a second secret.                               *)
THEOREM TokensAreNotReused == Spec => []TokenMeansOneSecret
<1>1. VaultInv => TokenMeansOneSecret
  BY DEF VaultInv
<1> QED BY <1>1, VaultInvariant, PTL

(* The version number is a sound cache key although `forget secrets` does   *)
(* not advance it.                                                          *)
THEOREM CachesStayCurrent == Spec => []CachesCurrent
<1>1. VaultInv => CachesCurrent
  BY DEF VaultInv
<1> QED BY <1>1, VaultInvariant, PTL

(* A request can restore every secret it replaced, until it ends.           *)
THEOREM RequestCanRestore == Spec => []RequestRestoresItsSecrets
<1>1. VaultInv => RequestRestoresItsSecrets
  BY DEF VaultInv
<1> QED BY <1>1, VaultInvariant, PTL

(* The shared pattern cache never applies another request's tokens.         *)
THEOREM SharedCacheIsSound == Spec => []RestoreUsesOwnMap
<1>1. VaultInv => RestoreUsesOwnMap
  BY DEF VaultInv
<1> QED BY <1>1, VaultInvariant, PTL

----------------------------------------------------------------------------
(* The vault keeps the promise of TokenLedger                               *)

(* A step that issues nothing, revives nothing and lets no request take a   *)
(* token that is not live is a step of the ledger.                          *)
LEMMA LedgerLoses ==
    ASSUME UNCHANGED issued,
           Items(tokenToPwd)' \subseteq Items(tokenToPwd),
           \A q \in Request : HeldBy(q)' \subseteq HeldBy(q) \cup Items(tokenToPwd)'
    PROVE  Ledger!Lose
<1>1. \A q \in Request : HeldBy(q)' \in SUBSET (Token \X Secret)
  BY DEF HeldBy, Items
<1> HIDE DEF HeldBy, Items
<1> QED BY <1>1 DEF Ledger!Lose, Ledger!Take

(* A step that changes no map of the vault and none of a request's copies   *)
(* is no step of the ledger.                                                *)
LEMMA LedgerStutters ==
    ASSUME UNCHANGED <<issued, tokenToPwd, phase, snapT2P, activeT2P>>
    PROVE  Ledger!Lose
BY LedgerLoses DEF HeldBy, Items

(* A registration issues the next token, which was never issued before; an  *)
(* eviction only takes from what is live.                                   *)
LEMMA RegisterNewIssues ==
    ASSUME TypeOK, VaultInv, NEW v \in Secret, RegisterNew(v)
    PROVE  Ledger!Issue(tokenSeq + 1, v) /\ tokenSeq + 1 \in Token
<1> USE VaultAssumption
<1>1. tokenSeq + 1 \in Token
  BY DEF RegisterNew, TypeOK, VaultTypes, Token
<1>2. \A p \in issued : p[1] # tokenSeq + 1
  <2>1. \A p \in issued : p[1] <= tokenSeq /\ p[1] \in Token
    BY DEF VaultInv, IssuedInv, TypeOK, VaultTypes
  <2> QED BY <2>1 DEF TypeOK, VaultTypes, Token
<1>3. issued' = issued \cup {<<tokenSeq + 1, v>>}
  BY DEF RegisterNew
<1>4. Items(tokenToPwd)' \subseteq Items(tokenToPwd) \cup {<<tokenSeq + 1, v>>}
  <2> SUFFICES ASSUME NEW t \in Token, NEW w \in Secret, tokenToPwd'[t] = w
               PROVE  tokenToPwd[t] = w \/ (t = tokenSeq + 1 /\ w = v)
    BY DEF Items
  <2> QED BY DEF RegisterNew
<1>5. \A q \in Request : HeldBy(q)' = HeldBy(q)
  BY DEF RegisterNew, requestVars, HeldBy, Items
<1>6. \A q \in Request : HeldBy(q)' \in SUBSET (Token \X Secret)
  BY DEF HeldBy, Items
<1> HIDE DEF HeldBy, Items
<1> QED BY <1>1, <1>2, <1>3, <1>4, <1>5, <1>6 DEF Ledger!Issue, Ledger!Take

(* The snapshot takes what is live.                                         *)
LEMMA SnapshotTakes ==
    ASSUME TypeOK, NEW q \in Request, Snapshot(q)
    PROVE  Ledger!Lose
<1>1. UNCHANGED <<issued, tokenToPwd>>
  BY DEF Snapshot, vaultVars
<1>2. \A p \in Request : HeldBy(p)' \subseteq HeldBy(p) \cup Items(tokenToPwd)'
  <2> SUFFICES ASSUME NEW p \in Request
               PROVE  HeldBy(p)' \subseteq HeldBy(p) \cup Items(tokenToPwd)'
    OBVIOUS
  <2>1. CASE p = q
    <3>1. phase'[p] = "snap" /\ snapT2P'[p] = tokenToPwd'
      BY <2>1, <1>1 DEF Snapshot, TypeOK, RequestTypes
    <3> QED BY <3>1 DEF HeldBy, Items
  <2>2. CASE p # q
    <3>1. phase'[p] = phase[p] /\ snapT2P'[p] = snapT2P[p] /\ activeT2P' = activeT2P
      BY <2>2 DEF Snapshot, TypeOK, RequestTypes
    <3> QED BY <3>1 DEF HeldBy, Items
  <2> QED BY <2>1, <2>2
<1>3. Items(tokenToPwd)' = Items(tokenToPwd)
  BY <1>1 DEF Items
<1> HIDE DEF HeldBy, Items
<1> QED BY <1>1, <1>2, <1>3, LedgerLoses

(* active_t2p is a part of the request's snapshot, whatever was evicted or  *)
(* forgotten during the awaits in between.                                  *)
LEMMA RedactBodyKeepsSnapshot ==
    ASSUME TypeOK, NEW q \in Request, NEW secrets \in SUBSET Secret,
           NEW literals \in SUBSET Token, RedactBody(q, secrets, literals)
    PROVE  Ledger!Lose
<1> USE VaultAssumption
<1>1. UNCHANGED <<issued, tokenToPwd, snapT2P>>
  BY DEF RedactBody, vaultVars
<1>2. \A p \in Request : HeldBy(p)' \subseteq HeldBy(p)
  <2> SUFFICES ASSUME NEW p \in Request PROVE HeldBy(p)' \subseteq HeldBy(p)
    OBVIOUS
  <2>1. CASE p = q
    <3>1. phase'[p] = "stream" /\ phase[p] = "snap"
      BY <2>1 DEF RedactBody, TypeOK, RequestTypes
    <3>2. \A t \in Token : activeT2P'[p][t] \in {snapT2P[p][t], NoSecret}
      BY <2>1 DEF RedactBody, TypeOK, RequestTypes
    <3>3. NoSecret \notin Secret
      OBVIOUS
    <3> QED BY <3>1, <3>2, <3>3 DEF HeldBy, Items
  <2>2. CASE p # q
    <3>1. phase'[p] = phase[p] /\ snapT2P'[p] = snapT2P[p] /\ activeT2P'[p] = activeT2P[p]
      BY <2>2, <1>1 DEF RedactBody, TypeOK, RequestTypes
    <3> QED BY <3>1 DEF HeldBy, Items
  <2> QED BY <2>1, <2>2
<1>3. Items(tokenToPwd)' = Items(tokenToPwd)
  BY <1>1 DEF Items
<1> HIDE DEF HeldBy, Items
<1> QED BY <1>1, <1>2, <1>3, LedgerLoses

(* The end of a request gives up its tokens.                                *)
LEMMA EndRequestGivesUp ==
    ASSUME TypeOK, NEW q \in Request, EndRequest(q)
    PROVE  Ledger!Lose
<1> USE VaultAssumption
<1>1. UNCHANGED <<issued, tokenToPwd>>
  BY DEF EndRequest, vaultVars
<1>2. \A p \in Request : HeldBy(p)' \subseteq HeldBy(p)
  <2> SUFFICES ASSUME NEW p \in Request PROVE HeldBy(p)' \subseteq HeldBy(p)
    OBVIOUS
  <2>1. CASE p = q
    <3>1. phase'[p] = "idle" /\ \A t \in Token : snapT2P'[p][t] = NoSecret
      BY <2>1 DEF EndRequest, NoToken, TypeOK, RequestTypes
    <3> QED BY <3>1 DEF HeldBy, Items
  <2>2. CASE p # q
    <3>1. phase'[p] = phase[p] /\ snapT2P'[p] = snapT2P[p] /\ activeT2P'[p] = activeT2P[p]
      BY <2>2 DEF EndRequest, TypeOK, RequestTypes
    <3> QED BY <3>1 DEF HeldBy, Items
  <2> QED BY <2>1, <2>2
<1>3. Items(tokenToPwd)' = Items(tokenToPwd)
  BY <1>1 DEF Items
<1> HIDE DEF HeldBy, Items
<1> QED BY <1>1, <1>2, <1>3, LedgerLoses

(* Every behaviour of the vault is one of the ledger: a token is issued     *)
(* once for one secret, a dropped token never comes back, and a request     *)
(* holds only what was live when it took its copy.                          *)
THEOREM VaultKeepsTheLedger == Spec => ImplementsLedger
<1>1. Init => Ledger!Init
  <2> SUFFICES ASSUME Init PROVE Ledger!Init
    OBVIOUS
  <2>1. Items(NoToken) = {}
    BY VaultAssumption DEF Items, NoToken
  <2>2. \A q \in Request : HeldBy(q) = {}
    BY <2>1 DEF Init, HeldBy
  <2> HIDE DEF Items, HeldBy
  <2> QED BY <2>1, <2>2 DEF Init, Ledger!Init
<1>2. TypeOK /\ VaultInv /\ [Next]_vars
        => [Ledger!Next]_<<issued, Items(tokenToPwd), [q \in Request |-> HeldBy(q)]>>
  <2> SUFFICES ASSUME TypeOK, VaultInv, [Next]_vars PROVE Ledger!Next
    OBVIOUS
  <2>1. ASSUME NEW v \in Secret, RegisterKnown(v) PROVE Ledger!Next
    BY <2>1, LedgerStutters DEF RegisterKnown, requestVars, Ledger!Next
  <2>2. ASSUME NEW v \in Secret, RegisterNew(v) PROVE Ledger!Next
    BY <2>2, RegisterNewIssues DEF Ledger!Next
  <2>3. ASSUME ForgetSecrets PROVE Ledger!Next
    <3>1. Items(tokenToPwd)' = {}
      BY <2>3, VaultAssumption DEF ForgetSecrets, NoToken, Items
    <3>2. UNCHANGED issued /\ \A q \in Request : HeldBy(q)' = HeldBy(q)
      BY <2>3 DEF ForgetSecrets, requestVars, HeldBy, Items
    <3> QED BY <3>1, <3>2, LedgerLoses DEF Ledger!Next
  <2>4. ASSUME RedactAll \/ RestoreAll PROVE Ledger!Next
    BY <2>4, LedgerStutters DEF RedactAll, RestoreAll, vaultVars, requestVars, Ledger!Next
  <2>5. ASSUME NEW q \in Request, Snapshot(q) PROVE Ledger!Next
    BY <2>5, SnapshotTakes DEF Ledger!Next
  <2>6. ASSUME NEW q \in Request, RestoreLine(q) PROVE Ledger!Next
    BY <2>6, LedgerStutters DEF RestoreLine, vaultVars, Ledger!Next
  <2>7. ASSUME NEW q \in Request, EndRequest(q) PROVE Ledger!Next
    BY <2>7, EndRequestGivesUp DEF Ledger!Next
  <2>8. ASSUME NEW q \in Request, NEW secrets \in SUBSET Secret, NEW literals \in SUBSET Token,
               RedactBody(q, secrets, literals)
        PROVE  Ledger!Next
    BY <2>8, RedactBodyKeepsSnapshot DEF Ledger!Next
  <2>9. CASE UNCHANGED vars
    BY <2>9, LedgerStutters DEF vars, vaultVars, requestVars, Ledger!Next
  <2> QED
    BY <2>1, <2>2, <2>3, <2>4, <2>5, <2>6, <2>7, <2>8, <2>9 DEF Next
<1> QED BY <1>1, <1>2, VaultInvariant, PTL DEF Spec, ImplementsLedger, Ledger!Spec
=============================================================================
