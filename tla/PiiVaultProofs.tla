---------------------------- MODULE PiiVaultProofs ----------------------------
(***************************************************************************)
(* Proofs about PiiVault: its types and bounds, LiveIndicesDistinct,        *)
(* MaskedUnlessRestored, EchoIsFaithful and StreamKeepsItsTokens, and that  *)
(* it keeps the promise of TokenLedger, for any values, requests and bounds.*)
(***************************************************************************)
EXTENDS PiiVaultLedger, FiniteSetTheorems, TLAPS

(***************************************************************************)
(* The inductive invariant.                                                *)
(***************************************************************************)

Mint   == [entry : Entry, side : Side]
Cached == [key : Key, result : Seq(Piece)]

(* TypeOK, with the types of the records.                                   *)
TypeInv ==
    /\ TypeOK
    /\ table \in [Side -> Seq(Entry)]
    /\ minted \in Seq(Mint) /\ Len(minted) <= MaxMints
    /\ cache \subseteq Cached
    /\ written \in [in : Seq(Piece), out : Seq(Piece)]

Issued(e, s) == \E n \in 1..Len(minted) : minted[n] = [entry |-> e, side |-> s]

(* No two entries of a list share a value or a token.                       *)
Distinct(es) ==
    \A i, j \in 1..Len(es) : es[i].val = es[j].val \/ es[i].tok = es[j].tok => i = j

(* Every registration drew its own digits, live entries come from the       *)
(* registrations of their side, a value has one entry there, and no index   *)
(* is live twice.                                                           *)
VaultInv ==
    /\ \A n \in 1..Len(minted) : minted[n].entry.tok.rand8 = n
    /\ \A s \in Side : \A i \in 1..Len(table[s]) : Issued(table[s][i], s)
    /\ \A s \in Side : Distinct(table[s])
    /\ LiveIndicesDistinct

(* k is what restoring makes of the line l: a span is a request-side token  *)
(* and the value it was issued for, the rest is as it came.                 *)
ReadsFrom(l, k) ==
    /\ Len(k.text) = Len(l)
    /\ \A i \in 1..Len(l) :
          \/ i \notin k.spans /\ k.text[i] = l[i]
          \/ /\ i \in k.spans /\ l[i].kind = "token"
             /\ \E e \in Entry : /\ Issued(e, "pii") /\ e.tok = l[i].tok
                                 /\ k.text[i] = Plain(e.val)

(* r is what masking makes of the text and the spans of k.                  *)
MaskedFrom(k, r) ==
    /\ Len(r) = Len(k.text)
    /\ \A i \in 1..Len(r) :
          /\ r[i].kind = "value" => i \in k.spans
          /\ i \in k.spans \/ k.text[i].kind = "token" => r[i] = k.text[i]

(* A line that waits to be written has been read as above, and what was     *)
(* detected in it is registered or still to be; the cache and what is       *)
(* written are masked.                                                      *)
LineInv ==
    /\ \A q \in Request : phase[q] = "redact" => leaves[q] # <<>>
    /\ \A q \in Request : phase[q] = "scan" =>
          /\ ReadsFrom(line[q], key[q])
          /\ \A v \in Detected(key[q].text, key[q].spans) :
                v \in todo[q] \/ \E e \in found[q] : e.val = v
    /\ \A c \in cache : MaskedFrom(c.key, c.result)
    /\ MaskedUnlessRestored
    /\ EchoIsFaithful

(* Of two entries the newer one's value was used since the older one was.   *)
Ordered(es, used) ==
    \A i, j \in 1..Len(es) : i < j => es[j].val \in used[es[i].tok.rand8]

(* A request-side registration is live, or has seen MaxEntries other values *)
(* used since its own last use.                                             *)
Dropped(es, all, used) ==
    \A n \in 1..Len(all) : all[n].side = "pii" =>
        \/ \E i \in 1..Len(es) : es[i] = all[n].entry
        \/ Cardinality(used[n] \ {all[n].entry.val}) >= MaxEntries

(* The request side in the order of use, and the tokens sent out issued.    *)
UseInv ==
    /\ \A n \in 1..MaxMints : IsFiniteSet(since[n])
    /\ Ordered(table["pii"], since)
    /\ Dropped(table["pii"], minted, since)
    /\ \A q \in Request : \A e \in sent[q] : Issued(e, "pii")

PiiInv == TypeInv /\ VaultInv /\ LineInv /\ UseInv

----------------------------------------------------------------------------
(* Lists                                                                    *)

(* The least-number principle, from the well-foundedness of finite sets.    *)
LEMMA LeastNumber ==
    ASSUME NEW T \in SUBSET Nat, T # {}
    PROVE  \E x \in T : \A y \in T : x <= y
  <1> DEFINE U == {0..t : t \in T}
  <1>1. U \subseteq FiniteSubsetsOf(Nat)
    <2>1. ASSUME NEW t \in T PROVE 0..t \in FiniteSubsetsOf(Nat)
      <3>1. IsFiniteSet(0..t) /\ 0..t \subseteq Nat
        BY FS_Interval
      <3> QED
        BY <3>1 DEF FiniteSubsetsOf
    <2> QED
      BY <2>1
  <1>2. U # {}
    OBVIOUS
  <1>3. PICK u \in U : \A v \in U : ~(<<v, u>> \in StrictSubsetOrdering(Nat))
    BY <1>1, <1>2, FS_StrictSubsetOrderingWellFounded, WFMin
  <1>4. PICK x \in T : u = 0..x
    OBVIOUS
  <1>5. ASSUME NEW y \in T, ~(x <= y) PROVE FALSE
    <2>1. 0..y \subseteq 0..x /\ 0..y # 0..x
      <3>1. x \in 0..x /\ x \notin 0..y
        BY <1>5
      <3> QED
        BY <1>5, <3>1
    <2>2. <<0..y, u>> \in StrictSubsetOrdering(Nat)
      BY <1>4, <2>1 DEF StrictSubsetOrdering
    <2> QED
      BY <1>3, <2>2
  <1> QED
    BY <1>5

(* The constants are numbers.                                               *)
LEMMA Bounds ==
    /\ MaxEntries \in Nat \ {0} /\ MaxMints \in Nat
    /\ MaxLeaves \in Nat /\ MaxPieces \in Nat /\ MaxLines \in Nat
  BY PiiAssumption

(* Joining two lists.                                                       *)
LEMMA Joined ==
    ASSUME NEW S, NEW x \in Seq(S), NEW y \in Seq(S)
    PROVE  /\ x \o y \in Seq(S) /\ Len(x \o y) = Len(x) + Len(y)
           /\ \A i \in 1..Len(x) : (x \o y)[i] = x[i]
           /\ \A i \in 1..Len(y) : (x \o y)[Len(x) + i] = y[i]
  OBVIOUS

(* new holds the entries of es in another order.                            *)
Shuffled(es, new) ==
    /\ new \in Seq(Entry) /\ Len(new) = Len(es)
    /\ Distinct(new)
    /\ \A i \in 1..Len(es) : \E k \in 1..Len(es) : new[i] = es[k]
    /\ \A k \in 1..Len(es) : \E i \in 1..Len(es) : new[i] = es[k]

(* move_to_end takes an entry from its place and puts it last.              *)
LEMMA ToEndIs ==
    ASSUME NEW es \in Seq(Entry), Distinct(es), NEW k \in 1..Len(es)
    PROVE  LET new == ToEnd(es, es[k])
           IN  /\ new \in Seq(Entry) /\ Len(new) = Len(es)
               /\ new[Len(es)] = es[k]
               /\ \A i \in 1..Len(es) - 1 : new[i] = es[IF i < k THEN i ELSE i + 1]
               /\ Shuffled(es, new)
  <1> DEFINE new == ToEnd(es, es[k])
             n == Len(es)
             cut == RemoveAt(es, k)
  <1>1. n \in Nat /\ \A i \in 1..n : es[i] \in Entry
    OBVIOUS
  <1>2. (CHOOSE i \in DOMAIN es : es[i] = es[k]) = k
    BY DEF Distinct
  <1>3. new = Append(cut, es[k])
    BY <1>2 DEF ToEnd
  <1>4. /\ cut \in Seq(Entry) /\ Len(cut) = n - 1
        /\ \A i \in 1..n - 1 : cut[i] = es[IF i < k THEN i ELSE i + 1]
    <2> DEFINE a == SubSeq(es, 1, k - 1)
               b == SubSeq(es, k + 1, n)
    <2>1. a \in Seq(Entry) /\ Len(a) = k - 1 /\ \A i \in 1..k - 1 : a[i] = es[i]
      BY <1>1
    <2>2. b \in Seq(Entry) /\ Len(b) = n - k /\ \A i \in 1..n - k : b[i] = es[k + i]
      BY <1>1
    <2>3. cut = a \o b
      BY DEF RemoveAt
    <2> HIDE DEF a, b, cut, n
    <2>4. cut \in Seq(Entry) /\ Len(cut) = n - 1
      <3>1. cut \in Seq(Entry) /\ Len(cut) = Len(a) + Len(b)
        BY <2>1, <2>2, <2>3, Joined
      <3>2. n \in Nat /\ k \in 1..n
        BY <1>1 DEF n
      <3> QED
        BY <2>1, <2>2, <3>1, <3>2
    <2>5. ASSUME NEW i \in 1..n - 1 PROVE cut[i] = es[IF i < k THEN i ELSE i + 1]
      <3>1. CASE i < k
        BY <1>1, <2>1, <2>2, <2>3, <3>1 DEF n
      <3>2. CASE ~(i < k)
        <4>1. i - (k - 1) \in 1..n - k /\ k + (i - (k - 1)) = i + 1
          BY <1>1, <3>2 DEF n
        <4>2. cut[i] = b[i - (k - 1)]
          BY <1>1, <2>1, <2>2, <2>3, <3>2, <4>1 DEF n
        <4> QED
          BY <2>2, <3>2, <4>1, <4>2
      <3> QED
        BY <3>1, <3>2
    <2> QED
      BY <2>4, <2>5
  <1> HIDE DEF cut
  <1>5. /\ new \in Seq(Entry) /\ Len(new) = n /\ new[n] = es[k]
        /\ \A i \in 1..n - 1 : new[i] = cut[i]
    BY <1>1, <1>3, <1>4
  <1>6. \A i \in 1..n - 1 : new[i] = es[IF i < k THEN i ELSE i + 1]
    BY <1>4, <1>5
  <1> DEFINE from(i) == IF i = n THEN k ELSE IF i < k THEN i ELSE i + 1
             to(i) == IF i = k THEN n ELSE IF i < k THEN i ELSE i - 1
  <1>7. \A i \in 1..n : from(i) \in 1..n /\ new[i] = es[from(i)]
    <2> SUFFICES ASSUME NEW i \in 1..n PROVE from(i) \in 1..n /\ new[i] = es[from(i)]
      OBVIOUS
    <2>1. CASE i = n
      BY <1>5, <2>1
    <2>2. CASE i # n
      BY <1>1, <1>6, <2>2
    <2> QED
      BY <2>1, <2>2
  <1>8. \A i \in 1..n : to(i) \in 1..n /\ from(to(i)) = i
    BY <1>1
  <1>9. \A i, j \in 1..n : from(i) = from(j) => i = j
    BY <1>1
  <1>10. Shuffled(es, new)
    <2>1. \A i \in 1..n : \E j \in 1..n : new[i] = es[j]
      BY <1>7
    <2>2. \A i \in 1..n : \E j \in 1..n : new[j] = es[i]
      BY <1>7, <1>8
    <2> HIDE DEF from, to, new
    <2>3. Distinct(new)
      <3> SUFFICES ASSUME NEW i \in 1..n, NEW j \in 1..n,
                          new[i].val = new[j].val \/ new[i].tok = new[j].tok
                   PROVE  i = j
        BY <1>5 DEF Distinct
      <3>1. /\ from(i) \in 1..n /\ from(j) \in 1..n
            /\ es[from(i)].val = es[from(j)].val \/ es[from(i)].tok = es[from(j)].tok
        BY <1>7
      <3>2. from(i) = from(j)
        BY <3>1 DEF Distinct
      <3> QED
        BY <1>9, <3>2
    <2> QED
      BY <1>5, <2>1, <2>2, <2>3 DEF Shuffled
  <1> QED
    BY <1>5, <1>6, <1>10

----------------------------------------------------------------------------
(* Renewal: the operator chooses the order that moving the entries one by   *)
(* one gives.  What it asks for, after the first n pieces of the line:      *)

NamedTo(l, n, t) == \E i \in 1..n : l[i] = Tok(t)

NamedAfterTo(l, n, t, u) ==
    \E i \in 1..n : l[i] = Tok(t) /\ \A j \in 1..n : j >= i => l[j] # Tok(u)

InOrder(es, l, n, new) ==
    \A i, j \in 1..Len(es) : i < j =>
        \/ NamedAfterTo(l, n, new[j].tok, new[i].tok)
        \/ /\ ~NamedTo(l, n, new[i].tok) /\ ~NamedTo(l, n, new[j].tok)
           /\ \E a, b \in 1..Len(es) : a < b /\ new[i] = es[a] /\ new[j] = es[b]

(* A token piece names one token.                                           *)
LEMMA TokIsOne == \A t, u : Tok(t) = Tok(u) => t = u
  <1> SUFFICES ASSUME NEW t, NEW u, Tok(t) = Tok(u) PROVE t = u
    OBVIOUS
  <1>1. Tok(t).tok = t /\ Tok(u).tok = u
    BY DEF Tok
  <1> QED
    BY <1>1

(* One more piece: its entry, if there is one, moves to the end.            *)
LEMMA OneMove ==
    ASSUME NEW es \in Seq(Entry), NEW l, NEW n \in Nat \ {0},
           NEW new, Shuffled(es, new), InOrder(es, l, n - 1, new)
    PROVE  \E next : Shuffled(es, next) /\ InOrder(es, l, n, next)
  <1> DEFINE N == Len(es)
  <1>1. /\ N \in Nat /\ new \in Seq(Entry) /\ Len(new) = N /\ Distinct(new)
        /\ \A i \in 1..N : new[i] \in Entry
    BY DEF Shuffled
  <1>2. \A i \in 1..n : i \in 1..n - 1 \/ i = n
    OBVIOUS
  <1>3. n \in 1..n /\ \A i \in 1..n - 1 : i \in 1..n
    OBVIOUS
  (* A pair that the piece does not name stays in order.                     *)
  <1>4. ASSUME NEW x, NEW y, l[n] # Tok(x), l[n] # Tok(y)
        PROVE  /\ NamedAfterTo(l, n - 1, x, y) => NamedAfterTo(l, n, x, y)
               /\ ~NamedTo(l, n - 1, x) => ~NamedTo(l, n, x)
    BY <1>2, <1>3, <1>4 DEF NamedAfterTo, NamedTo
  <1>5. CASE \A k \in 1..N : l[n] # Tok(new[k].tok)
    <2>1. InOrder(es, l, n, new)
      <3> SUFFICES ASSUME NEW i \in 1..N, NEW j \in 1..N, i < j
                   PROVE  \/ NamedAfterTo(l, n, new[j].tok, new[i].tok)
                          \/ /\ ~NamedTo(l, n, new[i].tok) /\ ~NamedTo(l, n, new[j].tok)
                             /\ \E a, b \in 1..N : a < b /\ new[i] = es[a] /\ new[j] = es[b]
        BY DEF InOrder
      <3> QED
        BY <1>4, <1>5 DEF InOrder
    <2> QED
      BY <2>1
  <1>6. ASSUME NEW k \in 1..N, l[n] = Tok(new[k].tok)
        PROVE  \E next : Shuffled(es, next) /\ InOrder(es, l, n, next)
    <2> DEFINE next == ToEnd(new, new[k])
               from(i) == IF i < k THEN i ELSE i + 1
    <2>1. /\ next \in Seq(Entry) /\ Len(next) = N /\ next[N] = new[k]
          /\ \A i \in 1..N - 1 : next[i] = new[from(i)]
          /\ Shuffled(new, next)
      BY <1>1, ToEndIs
    <2> HIDE DEF next
    <2>2. Shuffled(es, next)
      <3>1. \A i \in 1..N : \E j \in 1..N : next[i] = es[j]
        BY <1>1, <2>1 DEF Shuffled
      <3>2. \A j \in 1..N : \E i \in 1..N : next[i] = es[j]
        BY <1>1, <2>1 DEF Shuffled
      <3> QED
        BY <2>1, <3>1, <3>2 DEF Shuffled
    <2>3. \A i \in 1..N : i # k => l[n] # Tok(new[i].tok)
      BY <1>1, <1>6, TokIsOne DEF Distinct
    <2>4. InOrder(es, l, n, next)
      <3> SUFFICES ASSUME NEW i \in 1..N, NEW j \in 1..N, i < j
                   PROVE  \/ NamedAfterTo(l, n, next[j].tok, next[i].tok)
                          \/ /\ ~NamedTo(l, n, next[i].tok) /\ ~NamedTo(l, n, next[j].tok)
                             /\ \E a, b \in 1..N : a < b /\ next[i] = es[a] /\ next[j] = es[b]
        BY DEF InOrder
      <3>1. i \in 1..N - 1 /\ next[i] = new[from(i)] /\ from(i) \in 1..N /\ from(i) # k
        BY <1>1, <2>1
      <3>2. CASE j = N
        <4>1. l[n] = Tok(next[j].tok) /\ l[n] # Tok(next[i].tok)
          BY <1>6, <2>1, <2>3, <3>1, <3>2
        <4>2. \A m \in 1..n : m >= n => m = n
          OBVIOUS
        <4> QED
          BY <1>3, <4>1, <4>2 DEF NamedAfterTo
      <3>3. CASE j # N
        <4>1. /\ next[j] = new[from(j)] /\ from(j) \in 1..N /\ from(j) # k
              /\ from(i) < from(j)
          BY <1>1, <2>1, <3>3
        <4> DEFINE a == from(i)
                   b == from(j)
        <4>2. /\ a \in 1..N /\ b \in 1..N /\ a < b /\ next[i] = new[a] /\ next[j] = new[b]
              /\ l[n] # Tok(new[a].tok) /\ l[n] # Tok(new[b].tok)
          BY <2>3, <3>1, <4>1
        <4> HIDE DEF a, b, from
        <4> DEFINE x == new[a].tok
                   y == new[b].tok
        <4>3. \/ NamedAfterTo(l, n - 1, y, x)
              \/ /\ ~NamedTo(l, n - 1, x) /\ ~NamedTo(l, n - 1, y)
                 /\ \E c, d \in 1..N : c < d /\ new[a] = es[c] /\ new[b] = es[d]
          BY <4>2 DEF InOrder
        <4>4. l[n] # Tok(x) /\ l[n] # Tok(y) /\ next[i].tok = x /\ next[j].tok = y
          BY <4>2
        <4>5. /\ NamedAfterTo(l, n - 1, y, x) => NamedAfterTo(l, n, y, x)
              /\ ~NamedTo(l, n - 1, x) => ~NamedTo(l, n, x)
              /\ ~NamedTo(l, n - 1, y) => ~NamedTo(l, n, y)
          BY <1>4, <4>4
        <4> HIDE DEF x, y
        <4> QED
          BY <4>2, <4>3, <4>4, <4>5
      <3> QED
        BY <3>2, <3>3
    <2> QED
      BY <2>2, <2>4
  <1> QED
    BY <1>5, <1>6

(* There is an order to choose, after any number of pieces.                 *)
LEMMA OrderExists ==
    ASSUME NEW es \in Seq(Entry), Distinct(es), NEW l, NEW n \in Nat
    PROVE  \E new : Shuffled(es, new) /\ InOrder(es, l, n, new)
  <1> DEFINE Good(m) == \E new : Shuffled(es, new) /\ InOrder(es, l, m, new)
             Bad == {m \in Nat : ~Good(m)}
  <1> SUFFICES ASSUME ~Good(n) PROVE FALSE
    OBVIOUS
  <1>1. PICK m \in Bad : \A k \in Bad : m <= k
    <2>1. Bad \in SUBSET Nat /\ n \in Bad
      OBVIOUS
    <2> HIDE DEF Bad
    <2> QED
      BY <2>1, LeastNumber
  <1>2. CASE m = 0
    <2>1. Shuffled(es, es)
      BY DEF Shuffled
    <2>2. InOrder(es, l, 0, es)
      BY DEF InOrder, NamedTo
    <2> QED
      BY <1>2, <2>1, <2>2
  <1>3. CASE m # 0
    <2>1. m \in Nat \ {0} /\ m - 1 \in Nat /\ m - 1 \notin Bad
      BY <1>1, <1>3
    <2>2. Good(m - 1)
      BY <2>1
    <2>3. Good(m)
      BY <2>1, <2>2, OneMove
    <2> QED
      BY <1>1, <2>3
  <1> QED
    BY <1>2, <1>3

(* What renewal gives: the same entries, each once, in the order the line   *)
(* asks for.                                                                *)
LEMMA RenewedIs ==
    ASSUME NEW es \in Seq(Entry), Distinct(es), NEW l, NEW n \in Nat, DOMAIN l = 1..n
    PROVE  /\ Shuffled(es, Renewed(es, l))
           /\ InOrder(es, l, n, Renewed(es, l))
  <1> DEFINE N == Len(es)
             E == ToSet(es)
             new == Renewed(es, l)
  <1>1. N \in Nat /\ DOMAIN es = 1..N /\ es \in [1..N -> E]
    BY DEF ToSet
  <1>2. PICK some : Shuffled(es, some) /\ InOrder(es, l, n, some)
    BY OrderExists
  <1>3. some \in [1..N -> E]
    BY <1>1, <1>2 DEF Shuffled, ToSet
  <1>4. \A f : InOrder(es, l, n, f) <=>
              \A i, j \in DOMAIN es : i < j =>
                 \/ NamedAfter(l, f[j].tok, f[i].tok)
                 \/ /\ ~Named(l, f[i].tok) /\ ~Named(l, f[j].tok)
                    /\ \E a, b \in DOMAIN es : a < b /\ f[i] = es[a] /\ f[j] = es[b]
    BY <1>1 DEF InOrder, NamedAfter, NamedAfterTo, Named, NamedTo
  <1>5. new \in [1..N -> E] /\ InOrder(es, l, n, new)
    BY <1>1, <1>2, <1>3, <1>4 DEF Renewed
  <1> HIDE DEF new
  <1>6. \A i \in 1..N : \E k \in 1..N : new[i] = es[k]
    BY <1>1, <1>5 DEF ToSet
  <1>7. \A i, j \in 1..N : new[i] = new[j] => i = j
    <2>1. ASSUME NEW i \in 1..N, NEW j \in 1..N, i < j, new[i] = new[j] PROVE FALSE
      <3>1. ~NamedAfterTo(l, n, new[j].tok, new[i].tok)
        <4> SUFFICES ASSUME NEW t PROVE ~NamedAfterTo(l, n, t, t)
          BY <2>1
        <4> QED
          BY DEF NamedAfterTo
      <3>2. PICK a \in 1..N, b \in 1..N : a < b /\ new[i] = es[a] /\ new[j] = es[b]
        BY <1>5, <2>1, <3>1 DEF InOrder
      <3>3. es[a].val = es[b].val
        BY <2>1, <3>2
      <3>4. a = b
        BY <3>3 DEF Distinct
      <3> QED
        BY <1>1, <3>2, <3>4
    <2>2. \A i, j \in 1..N : i = j \/ i < j \/ j < i
      BY <1>1
    <2> QED
      BY <2>1, <2>2
  <1>8. \A k \in 1..N : \E i \in 1..N : new[i] = es[k]
    <2>1. es \in Bijection(1..N, E)
      <3>1. es \in Injection(1..N, E)
        BY <1>1 DEF Injection, IsInjective, Distinct
      <3>2. es \in Surjection(1..N, E)
        BY <1>1 DEF Surjection, ToSet
      <3> QED
        BY <3>1, <3>2 DEF Bijection
    <2>2. IsFiniteSet(1..N)
      BY <1>1, FS_Interval
    <2>3. IsFiniteSet(E) /\ Cardinality(E) = Cardinality(1..N)
      BY <2>1, <2>2, FS_Bijection DEF ExistsBijection
    <2>4. new \in Injection(1..N, E)
      BY <1>5, <1>7 DEF Injection, IsInjective
    <2>5. new \in Surjection(1..N, E)
      BY <2>3, <2>4, FS_Injection
    <2>6. \A k \in 1..N : es[k] \in E
      BY <1>1
    <2> HIDE DEF E
    <2> QED
      BY <2>5, <2>6 DEF Surjection
  <1>9. new \in Seq(Entry) /\ Len(new) = N
    <2>1. new \in [1..N -> Entry]
      BY <1>1, <1>5, <1>6
    <2> QED
      BY <1>1, <2>1
  <1>10. Distinct(new)
    <2> SUFFICES ASSUME NEW i \in 1..N, NEW j \in 1..N,
                        new[i].val = new[j].val \/ new[i].tok = new[j].tok
                 PROVE  i = j
      BY <1>9 DEF Distinct
    <2>1. PICK a \in 1..N : new[i] = es[a]
      BY <1>6
    <2>2. PICK b \in 1..N : new[j] = es[b]
      BY <1>6
    <2>3. a = b
      BY <2>1, <2>2 DEF Distinct
    <2> QED
      BY <1>7, <2>1, <2>2, <2>3
  <1> QED
    BY <1>5, <1>6, <1>8, <1>9, <1>10 DEF Shuffled, new

----------------------------------------------------------------------------
(* Registration                                                             *)

(* The used indices are those of the live entries.                          *)
LEMMA UsedIs ==
    ASSUME TypeInv
    PROVE  /\ \A u \in Used : \E s \in Side : \E i \in 1..Len(table[s]) :
                  u = table[s][i].tok.idx
           /\ \A s \in Side : \A i \in 1..Len(table[s]) : table[s][i].tok.idx \in Used
  <1>1. \A s \in Side : DOMAIN table[s] = 1..Len(table[s])
    BY DEF TypeInv
  <1>2. ASSUME NEW u \in Used
        PROVE  \E s \in Side : \E i \in 1..Len(table[s]) : u = table[s][i].tok.idx
    <2>1. PICK s \in Side : u \in {e.tok.idx : e \in ToSet(table[s])}
      BY DEF Used
    <2>2. PICK e \in ToSet(table[s]) : u = e.tok.idx
      BY <2>1
    <2>3. PICK i \in 1..Len(table[s]) : e = table[s][i]
      BY <1>1, <2>2 DEF ToSet
    <2> QED
      BY <2>2, <2>3
  <1>3. ASSUME NEW s \in Side, NEW i \in 1..Len(table[s])
        PROVE  table[s][i].tok.idx \in Used
    <2>1. table[s][i] \in ToSet(table[s])
      BY <1>1 DEF ToSet
    <2> QED
      BY <2>1 DEF Used
  <1> QED
    BY <1>2, <1>3

(* The index is free, and there are enough of them.                         *)
LEMMA IndexIsFree ==
    ASSUME TypeInv, VaultInv, Len(minted) < MaxMints
    PROVE  NextAvailableIndex \in (1..MaxMints) \ Used
  <1> DEFINE M == Len(minted)
             F == {minted[n].entry.tok.idx : n \in 1..M}
             f == [n \in 1..M |-> minted[n].entry.tok.idx]
             c == Cardinality(Used)
             T == (1..c + 1) \ Used
  <1>1. M \in Nat /\ MaxMints \in Nat /\ M < MaxMints
    BY Bounds DEF TypeInv
  <1>2. f \in Surjection(1..M, F)
    BY DEF Surjection
  <1>3. IsFiniteSet(1..M)
    BY <1>1, FS_Interval
  <1>4. IsFiniteSet(F) /\ Cardinality(F) <= M
    <2>1. IsFiniteSet(F)
      BY <1>2, <1>3, FS_Surjection
    <2>2. ExistsSurjection(1..M, F)
      BY <1>2 DEF ExistsSurjection
    <2> HIDE DEF M, F
    <2> QED
      BY <1>1, <2>1, <2>2, FS_SurjCardinalityBound
  <1> HIDE DEF F, f
  <1>5. Used \subseteq F
    <2> SUFFICES ASSUME NEW s \in Side, NEW i \in 1..Len(table[s])
                 PROVE  table[s][i].tok.idx \in F
      BY UsedIs
    <2>1. PICK n \in 1..M : minted[n] = [entry |-> table[s][i], side |-> s]
      BY DEF VaultInv, Issued
    <2> QED
      BY <2>1 DEF F
  <1>6. IsFiniteSet(Used) /\ c \in Nat /\ c <= M
    BY <1>1, <1>4, <1>5, FS_Subset, FS_CardinalityType
  <1>7. T # {}
    <2> SUFFICES ASSUME T = {} PROVE FALSE
      OBVIOUS
    <2>1. 1..c + 1 \in SUBSET Used
      OBVIOUS
    <2>2. Cardinality(1..c + 1) <= c
      BY <1>6, <2>1, FS_Subset
    <2>3. Cardinality(1..c + 1) = c + 1
      BY <1>6, FS_Interval
    <2> HIDE DEF c
    <2> QED
      BY <1>6, <2>2, <2>3
  <1>8. T \in SUBSET Nat
    BY <1>6
  <1>9. \E x \in T : \A y \in T : x <= y
    BY <1>7, <1>8, LeastNumber
  <1>10. NextAvailableIndex \in T
    BY <1>9 DEF NextAvailableIndex, Min
  <1> HIDE DEF c
  <1> QED
    BY <1>1, <1>6, <1>10

(* What an eviction leaves: the new entry last, the oldest gone when the    *)
(* side was full.                                                           *)
LEMMA EvictedIs ==
    ASSUME NEW es \in Seq(Entry), Len(es) <= MaxEntries, NEW e \in Entry
    PROVE  LET new == Evicted(Append(es, e))
               d == IF Len(es) = MaxEntries THEN 1 ELSE 0
           IN  /\ new \in Seq(Entry) /\ Len(new) = Len(es) + 1 - d
               /\ Len(new) <= MaxEntries /\ Len(new) \in Nat \ {0}
               /\ \A i \in 1..Len(new) : i # Len(new) => i + d \in 1..Len(es)
                                                         /\ new[i] = es[i + d]
               /\ new[Len(new)] = e
  <1> DEFINE all == Append(es, e)
             new == Evicted(all)
  <1>1. /\ Len(es) \in Nat /\ MaxEntries \in Nat \ {0}
        /\ all \in Seq(Entry) /\ Len(all) = Len(es) + 1 /\ all # <<>>
        /\ \A i \in 1..Len(es) : all[i] = es[i]
        /\ all[Len(es) + 1] = e
    BY Bounds
  <1>2. CASE Len(es) = MaxEntries
    <2>1. new = Tail(all)
      BY <1>1, <1>2 DEF Evicted
    <2>2. /\ Tail(all) \in Seq(Entry) /\ Len(Tail(all)) = Len(es)
          /\ \A i \in 1..Len(es) : Tail(all)[i] = all[i + 1]
      BY <1>1
    <2> HIDE DEF all, new
    <2> QED
      BY <1>1, <1>2, <2>1, <2>2 DEF all, new
  <1>3. CASE Len(es) # MaxEntries
    <2>1. new = all
      BY <1>1, <1>3 DEF Evicted
    <2> HIDE DEF all, new
    <2> QED
      BY <1>1, <1>3, <2>1 DEF all, new
  <1> QED
    BY <1>2, <1>3

(* The two ways to register: the value is known and becomes the newest, or  *)
(* a new entry is issued.                                                   *)
Renews(v, s, e) ==
    /\ \E k \in 1..Len(table[s]) : table[s][k] = e
    /\ table' = [table EXCEPT ![s] = ToEnd(@, e)]
    /\ UNCHANGED <<minted, seq>>

Issues(v, s, e) ==
    /\ \A k \in 1..Len(table[s]) : table[s][k].val # v
    /\ Len(minted) < MaxMints
    /\ e.tok.idx \notin Used /\ e.tok.rand8 = Len(minted) + 1
    /\ table' = [table EXCEPT ![s] = Evicted(Append(@, e))]
    /\ minted' = Append(minted, [entry |-> e, side |-> s])
    /\ seq' = seq \/ seq' = e.tok.idx

(* Every registration is one of the two, for the entry it answers with.     *)
LEMMA Registers ==
    ASSUME TypeInv, VaultInv, NEW v \in Value, NEW s \in Side, Register(v, s)
    PROVE  LET e == EntryFor(v, s)
           IN  /\ e \in Entry /\ e.val = v
               /\ Renews(v, s, e) \/ Issues(v, s, e)
               /\ since' = IF s = "pii" THEN [n \in 1..MaxMints |->
                                                 IF n = e.tok.rand8 THEN {}
                                                 ELSE since[n] \cup {v}]
                                        ELSE since
  <1> DEFINE e == EntryFor(v, s)
             known == e \in ToSet(table[s])
  <1>1. table[s] \in Seq(Entry) /\ DOMAIN table[s] = 1..Len(table[s])
    BY DEF TypeInv
  <1>2. /\ known \/ Len(minted) < MaxMints
        /\ table' = [table EXCEPT ![s] = IF known THEN ToEnd(@, e) ELSE Evicted(Append(@, e))]
        /\ seq' = IF known \/ seq >= e.tok.idx THEN seq ELSE e.tok.idx
        /\ minted' = IF known THEN minted ELSE Append(minted, [entry |-> e, side |-> s])
        /\ since' = IF s = "pii" THEN [n \in 1..MaxMints |-> IF n = e.tok.rand8 THEN {}
                                                            ELSE since[n] \cup {v}]
                                 ELSE since
    BY DEF Register
  <1>3. CASE \E x \in ToSet(table[s]) : x.val = v
    <2>1. e \in ToSet(table[s]) /\ e.val = v
      BY <1>3 DEF EntryFor
    <2>2. \E k \in 1..Len(table[s]) : table[s][k] = e
      BY <1>1, <2>1 DEF ToSet
    <2> HIDE DEF e
    <2>3. e \in Entry
      BY <1>1, <2>2
    <2>4. Renews(v, s, e)
      BY <1>2, <2>1, <2>2 DEF Renews
    <2> QED
      BY <1>2, <2>1, <2>3, <2>4 DEF e
  <1>4. CASE ~ \E x \in ToSet(table[s]) : x.val = v
    <2>1. e = [val |-> v, tok |-> [idx |-> NextAvailableIndex, rand8 |-> Len(minted) + 1]]
      BY <1>4 DEF EntryFor
    <2>2. ~known /\ Len(minted) < MaxMints
      BY <1>2, <1>4, <2>1
    <2>3. NextAvailableIndex \in (1..MaxMints) \ Used
      BY <2>2, IndexIsFree
    <2>4. Len(minted) + 1 \in 1..MaxMints
      BY <2>2, Bounds DEF TypeInv
    <2>5. e \in Entry
      BY <2>1, <2>3, <2>4 DEF Entry, Token
    <2>6. \A k \in 1..Len(table[s]) : table[s][k].val # v
      BY <1>1, <1>4 DEF ToSet
    <2>7. e.val = v /\ e.tok.idx \notin Used /\ e.tok.rand8 = Len(minted) + 1
      BY <2>1, <2>3
    <2>8. Issues(v, s, e)
      <3> HIDE DEF e
      <3> QED
        BY <1>2, <2>2, <2>6, <2>7 DEF Issues
    <2> QED
      BY <1>2, <2>5, <2>7, <2>8
  <1> QED
    BY <1>3, <1>4

----------------------------------------------------------------------------
(* Lines                                                                    *)

(* A piece is a value in the clear or a token, and it shows which.          *)
LEMMA PieceKinds ==
    /\ \A v : Plain(v).kind = "value" /\ Plain(v).val = v
    /\ \A t : Tok(t).kind = "token" /\ Tok(t).tok = t
    /\ \A p \in Piece : \/ p.kind = "value" /\ p.val \in Value /\ p = Plain(p.val)
                        \/ p.kind = "token" /\ p.tok \in Token /\ p = Tok(p.tok)
    /\ \A v \in Value : Plain(v) \in Piece
    /\ \A t \in Token : Tok(t) \in Piece
  <1>1. \A v : Plain(v).kind = "value" /\ Plain(v).val = v
    BY DEF Plain
  <1>2. \A t : Tok(t).kind = "token" /\ Tok(t).tok = t
    BY DEF Tok
  <1>3. /\ \A p \in Piece : (\E v \in Value : p = Plain(v)) \/ \E t \in Token : p = Tok(t)
        /\ \A v \in Value : Plain(v) \in Piece
        /\ \A t \in Token : Tok(t) \in Piece
    BY DEF Piece
  <1>4. ASSUME NEW p \in Piece
        PROVE  \/ p.kind = "value" /\ p.val \in Value /\ p = Plain(p.val)
               \/ p.kind = "token" /\ p.tok \in Token /\ p = Tok(p.tok)
    <2>1. CASE \E v \in Value : p = Plain(v)
      BY <1>1, <2>1
    <2>2. CASE \E t \in Token : p = Tok(t)
      BY <1>2, <2>2
    <2> QED
      BY <1>3, <2>1, <2>2
  <1> QED
    BY <1>1, <1>2, <1>3, <1>4

(* A line the provider may write is a list of pieces.                       *)
LEMMA LinesAre ==
    ASSUME TypeInv, NEW l \in Lines
    PROVE  l \in Seq(Piece) /\ Len(l) \in Nat /\ Len(l) <= MaxPieces
           /\ DOMAIN l = 1..Len(l)
  <1>1. Writable \subseteq Piece
    <2>1. \A m \in ToSet(minted) : m.entry.tok \in Token
      <3>1. minted \in Seq(Mint)
        BY DEF TypeInv
      <3>2. \A m \in ToSet(minted) : m \in Mint
        BY <3>1 DEF ToSet
      <3> QED
        BY <3>2 DEF Mint, Entry
    <2> QED
      BY <2>1, PieceKinds DEF Writable
  <1>2. PICK n \in 1..MaxPieces : l \in [1..n -> Writable]
    BY DEF Lines
  <1>3. n \in Nat /\ n <= MaxPieces /\ l \in [1..n -> Piece]
    BY <1>1, <1>2, Bounds
  <1> QED
    BY <1>3

(* Restoring puts back only request-side tokens, as the values they were    *)
(* issued for.                                                              *)
LEMMA RestoredIs ==
    ASSUME TypeInv, VaultInv, NEW l \in Lines
    PROVE  LET k == [seq |-> seq, text |-> Restored(l), spans |-> Spans(l)]
           IN  k \in Key /\ ReadsFrom(l, k)
  <1> DEFINE n == Len(l)
             k == [seq |-> seq, text |-> Restored(l), spans |-> Spans(l)]
  <1>1. /\ l \in Seq(Piece) /\ n \in Nat /\ n <= MaxPieces /\ DOMAIN l = 1..n
        /\ \A i \in 1..n : l[i] \in Piece
    BY LinesAre
  <1>2. Spans(l) \subseteq 1..n
    BY <1>1 DEF Spans
  <1>3. ASSUME NEW i \in Spans(l)
        PROVE  /\ l[i].kind = "token"
               /\ \E e \in Entry : /\ Issued(e, "pii") /\ e.tok = l[i].tok
                                   /\ Restored(l)[i] = Plain(e.val)
    <2> DEFINE P == PlainOf(l[i].tok)
               v == CHOOSE v \in P : TRUE
    <2>1. l[i].kind = "token" /\ P # {}
      BY DEF Spans
    <2>2. v \in P
      BY <2>1
    <2>3. Restored(l)[i] = Plain(v)
      BY <1>1, <1>2 DEF Restored
    <2> HIDE DEF v
    <2>4. PICK e \in ToSet(table["pii"]) : e.tok = l[i].tok /\ v = e.val
      BY <2>2 DEF PlainOf
    <2>5. PICK a \in 1..Len(table["pii"]) : e = table["pii"][a]
      BY <2>4 DEF ToSet, TypeInv, Side
    <2>6. e \in Entry /\ Issued(e, "pii")
      BY <2>5 DEF TypeInv, VaultInv, Side
    <2> QED
      BY <2>1, <2>3, <2>4, <2>6
  <1>4. ASSUME NEW i \in 1..n, i \notin Spans(l) PROVE Restored(l)[i] = l[i]
    BY <1>1, <1>4 DEF Restored
  <1>5. Restored(l) \in Seq(Piece) /\ Len(Restored(l)) = n
    <2>1. ASSUME NEW i \in 1..n PROVE Restored(l)[i] \in Piece
      <3>1. CASE i \in Spans(l)
        BY <1>3, <3>1, PieceKinds DEF Entry
      <3>2. CASE i \notin Spans(l)
        BY <1>1, <1>4, <3>2
      <3> QED
        BY <3>1, <3>2
    <2>2. Restored(l) = [i \in 1..n |-> Restored(l)[i]]
      BY <1>1 DEF Restored
    <2>3. Restored(l) \in [1..n -> Piece]
      BY <2>1, <2>2
    <2> QED
      BY <1>1, <2>3
  <1>6. k \in Key
    <2>1. Spans(l) \in SUBSET (1..MaxPieces)
      BY <1>1, <1>2, Bounds
    <2>2. seq \in Nat
      BY Bounds DEF TypeInv, TypeOK
    <2> QED
      BY <1>5, <2>1, <2>2 DEF Key
  <1>7. ReadsFrom(l, k)
    BY <1>3, <1>4, <1>5 DEF ReadsFrom
  <1> QED
    BY <1>6, <1>7

(* Masking leaves no value outside the spans, when all that was detected    *)
(* has an entry.                                                            *)
LEMMA MaskedIs ==
    ASSUME NEW k \in Key, NEW entries \in SUBSET Entry
    PROVE  LET r == Masked(k.text, k.spans, entries)
           IN  /\ r \in Seq(Piece)
               /\ (\A v \in Detected(k.text, k.spans) : \E e \in entries : e.val = v)
                     => MaskedFrom(k, r)
  <1> DEFINE text == k.text
             n == Len(text)
             r == Masked(k.text, k.spans, entries)
             es(i) == {e \in entries : i \notin k.spans /\ text[i] = Plain(e.val)}
  <1>1. text \in Seq(Piece) /\ n \in Nat /\ DOMAIN text = 1..n
        /\ \A i \in 1..n : text[i] \in Piece
    BY DEF Key
  <1>2. r = [i \in 1..n |-> IF es(i) = {} THEN text[i]
                            ELSE Tok((CHOOSE e \in es(i) : TRUE).tok)]
    BY <1>1 DEF Masked
  <1>3. ASSUME NEW i \in 1..n, es(i) # {}
        PROVE  r[i] \in Piece /\ r[i].kind = "token" /\ i \notin k.spans
               /\ text[i].kind = "value"
    <2> DEFINE e == CHOOSE e \in es(i) : TRUE
    <2>1. e \in es(i)
      BY <1>3
    <2>2. r[i] = Tok(e.tok)
      BY <1>2, <1>3
    <2> HIDE DEF e
    <2>3. e \in Entry /\ i \notin k.spans /\ text[i] = Plain(e.val)
      BY <2>1
    <2> QED
      BY <2>2, <2>3, PieceKinds DEF Entry
  <1>4. ASSUME NEW i \in 1..n, es(i) = {} PROVE r[i] = text[i]
    BY <1>2, <1>4
  <1>5. r \in Seq(Piece) /\ Len(r) = n
    <2>1. \A i \in 1..n : r[i] \in Piece
      BY <1>1, <1>3, <1>4
    <2>2. DOMAIN r = 1..n /\ r = [i \in 1..n |-> r[i]]
      BY <1>2
    <2> HIDE DEF r
    <2>3. r \in [1..n -> Piece]
      BY <2>1, <2>2
    <2> QED
      BY <1>1, <2>3
  <1>6. ASSUME \A v \in Detected(text, k.spans) : \E e \in entries : e.val = v
        PROVE  MaskedFrom(k, r)
    <2> SUFFICES ASSUME NEW i \in 1..n
                 PROVE  /\ r[i].kind = "value" => i \in k.spans
                        /\ i \in k.spans \/ text[i].kind = "token" => r[i] = text[i]
      BY <1>5 DEF MaskedFrom
    <2>1. CASE es(i) # {}
      BY <1>3, <2>1
    <2>2. CASE es(i) = {} /\ i \in k.spans
      BY <1>4, <2>2
    <2>3. CASE es(i) = {} /\ i \notin k.spans
      <3>1. text[i].kind = "token"
        <4> SUFFICES ASSUME text[i].kind # "token" PROVE FALSE
          OBVIOUS
        <4>1. text[i].val \in Value /\ text[i] = Plain(text[i].val)
          BY <1>1, PieceKinds
        <4>2. text[i].val \in Detected(text, k.spans)
          BY <1>1, <2>3, <4>1 DEF Detected
        <4>3. PICK e \in entries : e.val = text[i].val
          BY <1>6, <4>2
        <4>4. e \in es(i)
          BY <2>3, <4>1, <4>3
        <4> QED
          BY <2>3, <4>4
      <3> QED
        BY <1>4, <2>3, <3>1
    <2> QED
      BY <2>1, <2>2, <2>3
  <1> QED
    BY <1>5, <1>6

(* A line that was read and masked is masked and faithful.                  *)
LEMMA WrittenIs ==
    ASSUME NEW l, NEW k, NEW r, ReadsFrom(l, k), MaskedFrom(k, r), l \in Seq(Piece),
           r \in Seq(Piece), written' = [in |-> l, out |-> r], UNCHANGED minted, TypeInv
    PROVE  MaskedUnlessRestored' /\ EchoIsFaithful'
  <1>1. written'.in = l /\ written'.out = r /\ Len(r) = Len(l) /\ DOMAIN r = 1..Len(l)
    BY DEF ReadsFrom, MaskedFrom
  <1>2. ASSUME NEW i \in 1..Len(l), r[i].kind = "value" PROVE l[i].kind = "token"
    <2>1. i \in k.spans
      BY <1>1, <1>2 DEF MaskedFrom
    <2> QED
      BY <2>1 DEF ReadsFrom
  <1>3. ASSUME NEW i \in 1..Len(l), l[i].kind = "token"
        PROVE  \/ r[i] = l[i]
               \/ \E m \in ToSet(minted) : /\ m.side = "pii" /\ m.entry.tok = l[i].tok
                                           /\ r[i] = Plain(m.entry.val)
    <2>1. CASE i \notin k.spans
      <3>1. k.text[i] = l[i]
        BY <2>1 DEF ReadsFrom
      <3> QED
        BY <1>1, <1>3, <3>1 DEF MaskedFrom
    <2>2. CASE i \in k.spans
      <3>1. PICK e \in Entry : /\ Issued(e, "pii") /\ e.tok = l[i].tok
                               /\ k.text[i] = Plain(e.val)
        BY <2>2 DEF ReadsFrom
      <3>2. r[i] = k.text[i]
        BY <1>1, <2>2 DEF MaskedFrom
      <3>3. PICK n \in 1..Len(minted) : minted[n] = [entry |-> e, side |-> "pii"]
        BY <3>1 DEF Issued
      <3>4. minted[n] \in ToSet(minted) /\ minted[n].side = "pii" /\ minted[n].entry = e
        BY <3>3 DEF ToSet, TypeInv
      <3> QED
        BY <3>1, <3>2, <3>4
    <2> QED
      BY <2>1, <2>2
  <1>4. MaskedUnlessRestored'
    BY <1>1, <1>2 DEF MaskedUnlessRestored
  <1>5. EchoIsFaithful'
    BY <1>1, <1>3 DEF EchoIsFaithful
  <1> QED
    BY <1>4, <1>5

----------------------------------------------------------------------------
(* Types                                                                    *)

(* There are two sides.                                                     *)
LEMMA SidesAre == "pii" \in Side /\ "resp" \in Side /\ \A s \in Side : s = "pii" \/ s = "resp"
  BY DEF Side

(* What is known of the tables, the registrations and the history of use.   *)
VaultTypes ==
    /\ table \in [Side -> Seq(Entry)]
    /\ \A s \in Side : Len(table[s]) <= MaxEntries
    /\ seq \in 0..MaxMints
    /\ minted \in Seq(Mint) /\ Len(minted) <= MaxMints
    /\ since \in [1..MaxMints -> SUBSET Value]

(* They follow from the type invariant.                                     *)
LEMMA VaultTypesOf == TypeInv => VaultTypes
  BY DEF TypeInv, TypeOK, VaultTypes

(* A registration keeps them.                                               *)
LEMMA RegisterTypes ==
    ASSUME TypeInv, VaultInv, NEW v \in Value, NEW s \in Side, Register(v, s)
    PROVE  VaultTypes' /\ EntryFor(v, s) \in Entry
  <1> DEFINE e == EntryFor(v, s)
  <1>1. VaultTypes
    BY VaultTypesOf
  <1>2. /\ e \in Entry /\ e.val = v
        /\ Renews(v, s, e) \/ Issues(v, s, e)
        /\ since' = IF s = "pii" THEN [n \in 1..MaxMints |-> IF n = e.tok.rand8 THEN {}
                                                            ELSE since[n] \cup {v}]
                                 ELSE since
    BY Registers
  <1> HIDE DEF e
  <1>3. since' \in [1..MaxMints -> SUBSET Value]
    BY <1>1, <1>2 DEF VaultTypes
  <1>4. CASE Renews(v, s, e)
    <2>1. PICK k \in 1..Len(table[s]) : table[s][k] = e
      BY <1>4 DEF Renews
    <2>2. table[s] \in Seq(Entry) /\ Distinct(table[s])
      BY <1>1 DEF VaultTypes, VaultInv
    <2>3. ToEnd(table[s], e) \in Seq(Entry) /\ Len(ToEnd(table[s], e)) = Len(table[s])
      BY <2>1, <2>2, ToEndIs
    <2>4. table' = [table EXCEPT ![s] = ToEnd(table[s], e)] /\ UNCHANGED <<minted, seq>>
      BY <1>4 DEF Renews
    <2> QED
      BY <1>1, <1>2, <1>3, <2>3, <2>4 DEF VaultTypes, e
  <1>5. CASE Issues(v, s, e)
    <2> DEFINE new == Evicted(Append(table[s], e))
    <2>1. table[s] \in Seq(Entry) /\ Len(table[s]) <= MaxEntries
      BY <1>1 DEF VaultTypes
    <2>2. new \in Seq(Entry) /\ Len(new) <= MaxEntries
      BY <1>2, <2>1, EvictedIs
    <2> HIDE DEF new
    <2>3. /\ table' = [table EXCEPT ![s] = new] /\ Len(minted) < MaxMints
          /\ minted' = Append(minted, [entry |-> e, side |-> s])
          /\ seq' = seq \/ seq' = e.tok.idx
      BY <1>5 DEF Issues, new
    <2>4. table' \in [Side -> Seq(Entry)] /\ \A r \in Side : Len(table'[r]) <= MaxEntries
      BY <1>1, <2>2, <2>3 DEF VaultTypes
    <2>5. minted' \in Seq(Mint) /\ Len(minted') <= MaxMints
      <3>1. [entry |-> e, side |-> s] \in Mint
        BY <1>2 DEF Mint
      <3>2. minted \in Seq(Mint) /\ Len(minted) \in Nat
        BY <1>1 DEF VaultTypes
      <3>3. minted' \in Seq(Mint) /\ Len(minted') = Len(minted) + 1
        BY <2>3, <3>1, <3>2
      <3> QED
        BY <2>3, <3>2, <3>3, Bounds
    <2>6. seq' \in 0..MaxMints
      <3>1. e.tok.idx \in 1..MaxMints
        BY <1>2 DEF Entry, Token
      <3>2. e.tok.idx \in 0..MaxMints /\ seq \in 0..MaxMints
        BY <1>1, <3>1, Bounds DEF VaultTypes
      <3> QED
        BY <2>3, <3>2
    <2> QED
      BY <1>2, <1>3, <2>4, <2>5, <2>6 DEF VaultTypes, e
  <1> QED
    BY <1>2, <1>4, <1>5

(* The parts of a request, and of the answer.                               *)
RequestTypes ==
    /\ phase \in [Request -> {"idle", "redact", "stream", "scan", "done"}]
    /\ leaves \in [Request -> Seq(Value)]
    /\ sent \in [Request -> SUBSET Entry]

LineTypes ==
    /\ line \in [Request -> Seq(Piece)]
    /\ key \in [Request -> Key]
    /\ todo \in [Request -> SUBSET Value]
    /\ found \in [Request -> SUBSET Entry]
    /\ received \in 0..MaxLines
    /\ cache \subseteq Cached
    /\ written \in [in : Seq(Piece), out : Seq(Piece)]

(* The type invariant, part by part.                                        *)
LEMMA TypeParts == TypeInv <=> VaultTypes /\ RequestTypes /\ LineTypes
  <1>1. TypeInv => VaultTypes /\ RequestTypes /\ LineTypes
    BY DEF TypeInv, TypeOK, VaultTypes, RequestTypes, LineTypes
  <1>2. ASSUME VaultTypes, RequestTypes, LineTypes PROVE TypeInv
    <2>1. \A c \in cache : c.key \in Key /\ c.result \in Seq(Piece)
      BY <1>2 DEF LineTypes, Cached
    <2>2. written.in \in Seq(Piece) /\ written.out \in Seq(Piece)
      BY <1>2 DEF LineTypes
    <2>3. \A i \in DOMAIN minted : minted[i].entry \in Entry /\ minted[i].side \in Side
      <3>1. \A i \in DOMAIN minted : minted[i] \in Mint
        BY <1>2 DEF VaultTypes
      <3> QED
        BY <3>1 DEF Mint
    <2>4. \A s \in Side : table[s] \in Seq(Entry) /\ Len(table[s]) <= MaxEntries
      BY <1>2 DEF VaultTypes
    <2>5. TypeOK
      BY <1>2, <2>1, <2>2, <2>3, <2>4 DEF TypeOK, VaultTypes, RequestTypes, LineTypes
    <2> QED
      BY <1>2, <2>5 DEF TypeInv, VaultTypes, LineTypes
  <1> QED
    BY <1>1, <1>2

(* The values of the variables at rest have their types.                    *)
LEMMA Blanks ==
    /\ Nothing \in [in : Seq(Piece), out : Seq(Piece)]
    /\ NoKey \in Key
    /\ <<>> \in Seq(Value) /\ <<>> \in Seq(Piece)
  BY DEF Nothing, NoKey, Key

(* Every step keeps the types.                                              *)
LEMMA TypeStep == TypeInv /\ VaultInv /\ LineInv /\ [Next]_vars => TypeInv'
  <1> SUFFICES ASSUME TypeInv, VaultInv, LineInv, [Next]_vars PROVE TypeInv'
    OBVIOUS
  <1> SUFFICES VaultTypes' /\ RequestTypes' /\ LineTypes'
    <2>1. TypeInv' <=> VaultTypes' /\ RequestTypes' /\ LineTypes'
      BY TypeParts, PTL
    <2> QED
      BY <2>1
  <1>1. VaultTypes /\ RequestTypes /\ LineTypes
    BY TypeParts
  <1>2. ASSUME UNCHANGED vaultVars PROVE VaultTypes'
    BY <1>1, <1>2 DEF vaultVars, VaultTypes
  <1>3. ASSUME NEW q \in Request, NEW body \in Bodies, Arrive(q, body)
        PROVE  VaultTypes' /\ RequestTypes' /\ LineTypes'
    <2>1. body \in Seq(Value)
      BY DEF Bodies
    <2>2. RequestTypes'
      BY <1>1, <1>3, <2>1 DEF Arrive, RequestTypes
    <2>3. LineTypes'
      BY <1>1, <1>3, Blanks DEF Arrive, LineTypes, scanVars
    <2> QED
      BY <1>2, <1>3, <2>2, <2>3 DEF Arrive
  <1>4. ASSUME NEW q \in Request, RedactLeaf(q)
        PROVE  VaultTypes' /\ RequestTypes' /\ LineTypes'
    <2> DEFINE v == Head(leaves[q])
    <2>1. leaves[q] \in Seq(Value) /\ leaves[q] # <<>>
      BY <1>1, <1>4 DEF RequestTypes, LineInv, RedactLeaf
    <2>2. v \in Value /\ Tail(leaves[q]) \in Seq(Value)
      BY <2>1
    <2>3. Register(v, "pii") /\ sent' = [sent EXCEPT ![q] = @ \cup {EntryFor(v, "pii")}]
      BY <1>4 DEF RedactLeaf
    <2> HIDE DEF v
    <2>4. VaultTypes' /\ EntryFor(v, "pii") \in Entry
      BY <2>2, <2>3, SidesAre, RegisterTypes
    <2>5. sent' \in [Request -> SUBSET Entry]
      BY <1>1, <2>3, <2>4 DEF RequestTypes
    <2>6. leaves' \in [Request -> Seq(Value)]
      BY <1>1, <1>4, <2>2 DEF RedactLeaf, RequestTypes
    <2>7. phase' \in [Request -> {"idle", "redact", "stream", "scan", "done"}]
      BY <1>1, <1>4 DEF RedactLeaf, RequestTypes
    <2>8. LineTypes'
      BY <1>1, <1>4, Blanks DEF RedactLeaf, LineTypes, scanVars
    <2> QED
      BY <2>4, <2>5, <2>6, <2>7, <2>8 DEF RequestTypes
  <1>5. ASSUME NEW q \in Request, WriteLine(q)
        PROVE  VaultTypes' /\ RequestTypes' /\ LineTypes'
    <2> DEFINE r == Masked(key[q].text, key[q].spans, found[q])
    <2>1. key[q] \in Key /\ found[q] \in SUBSET Entry /\ line[q] \in Seq(Piece)
      BY <1>1 DEF LineTypes
    <2>2. r \in Seq(Piece)
      BY <2>1, MaskedIs
    <2>3. cache' = {[key |-> key[q], result |-> r]} /\ written' = [in |-> line[q], out |-> r]
      BY <1>5 DEF WriteLine
    <2> HIDE DEF r
    <2>4. cache' \subseteq Cached /\ written' \in [in : Seq(Piece), out : Seq(Piece)]
      BY <2>1, <2>2, <2>3 DEF Cached
    <2>5. LineTypes'
      BY <1>1, <1>5, <2>4, Blanks DEF WriteLine, LineTypes
    <2>6. RequestTypes'
      BY <1>1, <1>5 DEF WriteLine, RequestTypes
    <2> QED
      BY <1>2, <1>5, <2>5, <2>6 DEF WriteLine
  <1>6. ASSUME NEW q \in Request, End(q)
        PROVE  VaultTypes' /\ RequestTypes' /\ LineTypes'
    <2>1. LineTypes'
      BY <1>1, <1>6, Blanks DEF End, LineTypes
    <2>2. RequestTypes'
      BY <1>1, <1>6, Blanks DEF End, RequestTypes
    <2> QED
      BY <1>2, <1>6, <2>1, <2>2 DEF End
  <1>7. ASSUME NEW q \in Request, NEW l \in Lines, ReceiveLine(q, l)
        PROVE  VaultTypes' /\ RequestTypes' /\ LineTypes'
    <2> DEFINE k == [seq |-> seq, text |-> Restored(l), spans |-> Spans(l)]
               hits == {c \in cache : SameKey(c.key, k)}
               n == Len(l)
    <2>1. l \in Seq(Piece) /\ n \in Nat /\ DOMAIN l = 1..n /\ k \in Key
      BY LinesAre, RestoredIs
    <2>2. \A s \in Side : table[s] \in Seq(Entry) /\ Distinct(table[s])
      BY <1>1 DEF VaultTypes, VaultInv
    <2>3. \A s \in Side : /\ Renewed(table[s], l) \in Seq(Entry)
                          /\ Len(Renewed(table[s], l)) = Len(table[s])
      BY <2>1, <2>2, RenewedIs DEF Shuffled
    <2>4. table' = [s \in Side |-> Renewed(table[s], l)]
      BY <1>7 DEF ReceiveLine
    <2>5. table' \in [Side -> Seq(Entry)] /\ \A s \in Side : Len(table'[s]) <= MaxEntries
      BY <1>1, <2>3, <2>4 DEF VaultTypes
    <2>6. \A m \in 1..MaxMints : UsedSince(m, l) \in SUBSET Value
      <3>1. \A e \in ToSet(table["pii"]) : e.val \in Value
        <4>1. \A e \in ToSet(table["pii"]) : e \in Entry
          BY <2>2, SidesAre DEF ToSet
        <4> QED
          BY <4>1 DEF Entry
      <3>2. \A m \in 1..MaxMints : since[m] \in SUBSET Value
        BY <1>1 DEF VaultTypes
      <3> QED
        BY <3>1, <3>2 DEF UsedSince
    <2>7. since' = [m \in 1..MaxMints |-> UsedSince(m, l)]
      BY <1>7 DEF ReceiveLine
    <2>8. since' \in [1..MaxMints -> SUBSET Value]
      BY <2>6, <2>7
    <2>9. VaultTypes'
      BY <1>1, <1>7, <2>5, <2>8 DEF ReceiveLine, VaultTypes
    <2>10. received' \in 0..MaxLines
      BY <1>1, <1>7, Bounds DEF ReceiveLine, LineTypes
    <2>11. Detected(k.text, k.spans) \in SUBSET Value
      BY DEF Detected
    <2>12. UNCHANGED <<cache, leaves, sent, found>>
      BY <1>7 DEF ReceiveLine, scanVars
    <2>13. \/ /\ hits # {} /\ written' = [in |-> l, out |-> (CHOOSE c \in hits : TRUE).result]
              /\ UNCHANGED <<phase, scanVars>>
           \/ /\ phase' = [phase EXCEPT ![q] = "scan"] /\ line' = [line EXCEPT ![q] = l]
              /\ key' = [key EXCEPT ![q] = k]
              /\ todo' = [todo EXCEPT ![q] = Detected(k.text, k.spans)]
              /\ written' = Nothing
      BY <1>7 DEF ReceiveLine
    <2>14. ASSUME hits # {} PROVE (CHOOSE c \in hits : TRUE).result \in Seq(Piece)
      <3>1. PICK c \in hits : c = CHOOSE x \in hits : TRUE
        BY <2>14
      <3>2. c \in Cached
        BY <1>1 DEF LineTypes
      <3> QED
        BY <3>1, <3>2 DEF Cached
    <2> DEFINE result == (CHOOSE c \in hits : TRUE).result
               det == Detected(k.text, k.spans)
    <2>15. hits # {} => result \in Seq(Piece)
      BY <2>14
    <2>16. det \in SUBSET Value
      BY <2>11
    <2>17. \/ /\ hits # {} /\ written' = [in |-> l, out |-> result]
              /\ UNCHANGED <<phase, scanVars>>
           \/ /\ phase' = [phase EXCEPT ![q] = "scan"] /\ line' = [line EXCEPT ![q] = l]
              /\ key' = [key EXCEPT ![q] = k] /\ todo' = [todo EXCEPT ![q] = det]
              /\ written' = Nothing
      BY <2>13
    <2> HIDE DEF k, hits, result, det
    <2>18. RequestTypes'
      BY <1>1, <2>12, <2>17 DEF RequestTypes
    <2>19. written' \in [in : Seq(Piece), out : Seq(Piece)]
      BY <2>1, <2>15, <2>17, Blanks
    <2>20. /\ line' \in [Request -> Seq(Piece)] /\ key' \in [Request -> Key]
           /\ todo' \in [Request -> SUBSET Value]
      <3>1. line' \in [Request -> Seq(Piece)]
        BY <1>1, <2>1, <2>17 DEF LineTypes, scanVars
      <3>2. key' \in [Request -> Key]
        BY <1>1, <2>1, <2>17 DEF LineTypes, scanVars
      <3>3. todo' \in [Request -> SUBSET Value]
        BY <1>1, <2>16, <2>17 DEF LineTypes, scanVars
      <3> QED
        BY <3>1, <3>2, <3>3
    <2>21. LineTypes'
      BY <1>1, <2>10, <2>12, <2>19, <2>20 DEF LineTypes
    <2> QED
      BY <2>9, <2>18, <2>21
  <1>8. ASSUME NEW q \in Request, NEW v \in Value, RegisterFound(q, v)
        PROVE  VaultTypes' /\ RequestTypes' /\ LineTypes'
    <2>1. /\ Register(v, "resp")
          /\ found' = [found EXCEPT ![q] = @ \cup {EntryFor(v, "resp")}]
      BY <1>8 DEF RegisterFound
    <2>2. VaultTypes' /\ EntryFor(v, "resp") \in Entry
      BY <2>1, SidesAre, RegisterTypes
    <2>3. found' \in [Request -> SUBSET Entry]
      BY <1>1, <2>1, <2>2 DEF LineTypes
    <2>4. LineTypes'
      BY <1>1, <1>8, <2>3, Blanks DEF RegisterFound, LineTypes
    <2>5. RequestTypes'
      BY <1>1, <1>8 DEF RegisterFound, RequestTypes
    <2> QED
      BY <2>2, <2>4, <2>5
  <1>9. ASSUME UNCHANGED vars PROVE VaultTypes' /\ RequestTypes' /\ LineTypes'
    BY <1>1, <1>2, <1>9 DEF vars, RequestTypes, LineTypes, scanVars
  <1> QED
    BY <1>3, <1>4, <1>5, <1>6, <1>7, <1>8, <1>9 DEF Next

----------------------------------------------------------------------------
(* The vault                                                                *)

(* Moving entries about keeps the vault in order.                           *)
LEMMA ShuffledVault ==
    ASSUME TypeInv, VaultInv, UNCHANGED minted,
           \A s \in Side : Shuffled(table[s], table'[s])
    PROVE  VaultInv'
  <1>1. \A s \in Side : /\ Len(table'[s]) = Len(table[s]) /\ Distinct(table'[s])
                        /\ DOMAIN table'[s] = 1..Len(table[s])
                        /\ DOMAIN table[s] = 1..Len(table[s])
                        /\ \A i \in 1..Len(table[s]) : \E k \in 1..Len(table[s]) :
                              table'[s][i] = table[s][k]
    <2> TAKE s \in Side
    <2>1. Shuffled(table[s], table'[s])
      OBVIOUS
    <2>2. table[s] \in Seq(Entry)
      BY DEF TypeInv
    <2>3. DOMAIN table[s] = 1..Len(table[s])
      BY <2>2
    <2>4. PICK es : es = table[s]
      OBVIOUS
    <2>5. PICK new : new = table'[s]
      OBVIOUS
    <2>6. Shuffled(es, new)
      BY <2>1, <2>4, <2>5
    <2>7. /\ Len(new) = Len(es) /\ Distinct(new) /\ DOMAIN new = 1..Len(es)
          /\ \A i \in 1..Len(es) : \E k \in 1..Len(es) : new[i] = es[k]
      BY <2>6 DEF Shuffled
    <2> QED
      BY <2>3, <2>4, <2>5, <2>7
  <1>2. ASSUME NEW s \in Side, NEW i \in 1..Len(table'[s])
        PROVE  \E n \in 1..Len(minted') : minted'[n] = [entry |-> table'[s][i], side |-> s]
    <2>1. PICK k \in 1..Len(table[s]) : table'[s][i] = table[s][k]
      BY <1>1
    <2>2. Issued(table[s][k], s)
      BY DEF VaultInv
    <2> QED
      BY <2>1, <2>2 DEF Issued
  <1>3. ASSUME NEW s \in Side, NEW r \in Side,
               NEW i \in DOMAIN table'[s], NEW j \in DOMAIN table'[r],
               table'[s][i].tok.idx = table'[r][j].tok.idx
        PROVE  s = r /\ i = j
    <2>0. i \in 1..Len(table[s]) /\ j \in 1..Len(table[r])
      BY <1>1
    <2>1. PICK a \in 1..Len(table[s]) : table'[s][i] = table[s][a]
      BY <1>1, <2>0
    <2>2. PICK b \in 1..Len(table[r]) : table'[r][j] = table[r][b]
      BY <1>1, <2>0
    <2>3. a \in DOMAIN table[s] /\ b \in DOMAIN table[r]
          /\ table[s][a].tok.idx = table[r][b].tok.idx
      BY <1>1, <1>3, <2>1, <2>2
    <2>4. s = r /\ a = b
      BY <2>3 DEF VaultInv, LiveIndicesDistinct
    <2>5. /\ i \in 1..Len(table'[s]) /\ j \in 1..Len(table'[s])
          /\ table'[s][i].val = table'[s][j].val /\ Distinct(table'[s])
      BY <1>1, <2>1, <2>2, <2>4
    <2> QED
      BY <2>4, <2>5 DEF Distinct
  <1>4. LiveIndicesDistinct'
    BY <1>3 DEF LiveIndicesDistinct
  <1>5. \A n \in 1..Len(minted') : minted'[n].entry.tok.rand8 = n
    BY DEF VaultInv
  <1> QED
    <2>1. \A s \in Side : Distinct(table'[s])
      BY <1>1
    <2> QED
      BY <1>2, <1>4, <1>5, <2>1 DEF VaultInv, Issued

(* A new registration leaves the earlier ones.                              *)
LEMMA StillIssued ==
    ASSUME TypeInv, NEW x, NEW r, NEW m, minted' = Append(minted, m), Issued(x, r)
    PROVE  Issued(x, r)'
  BY DEF Issued, TypeInv

(* Issuing an entry keeps the vault in order: its value and its index were  *)
(* not live.                                                                *)
LEMMA IssuedVault ==
    ASSUME TypeInv, VaultInv, NEW v \in Value, NEW s \in Side, NEW e \in Entry, e.val = v,
           Issues(v, s, e)
    PROVE  VaultInv' /\ Issued(e, s)'
  <1> DEFINE es == table[s]
             new == Evicted(Append(es, e))
             d == IF Len(es) = MaxEntries THEN 1 ELSE 0
             m == [entry |-> e, side |-> s]
             M == Len(minted)
  <1>1. /\ table \in [Side -> Seq(Entry)] /\ es \in Seq(Entry) /\ Len(es) <= MaxEntries
        /\ minted \in Seq(Mint) /\ M \in Nat
    BY DEF TypeInv, TypeOK
  <1>2. /\ new \in Seq(Entry) /\ Len(new) \in Nat \ {0}
        /\ \A i \in 1..Len(new) : i # Len(new) => i + d \in 1..Len(es)
                                                  /\ new[i] = es[i + d]
        /\ new[Len(new)] = e
    BY <1>1, EvictedIs
  <1>3. /\ \A k \in 1..Len(es) : es[k].val # v
        /\ e.tok.idx \notin Used /\ e.tok.rand8 = M + 1
        /\ table' = [table EXCEPT ![s] = new] /\ minted' = Append(minted, m)
    BY DEF Issues
  <1>4. d \in Nat
    OBVIOUS
  <1> HIDE DEF new, d, m, M
  <1>5. \A i \in 1..Len(new) :
             new[i] = e \/ \E k \in 1..Len(es) : new[i] = es[k]
    BY <1>2
  <1>6. \A r \in Side : \A k \in 1..Len(table[r]) : table[r][k].tok.idx # e.tok.idx
    BY <1>3, UsedIs
  <1>7. Issued(e, s)'
    <2>1. Len(minted') = M + 1 /\ minted'[M + 1] = m
      BY <1>1, <1>3 DEF M
    <2>2. M + 1 \in 1..Len(minted')
      BY <1>1, <2>1
    <2> QED
      BY <2>1, <2>2 DEF Issued, m
  <1>8. \A r \in Side : \A i \in 1..Len(table'[r]) :
            \E n \in 1..Len(minted') : minted'[n] = [entry |-> table'[r][i], side |-> r]
    <2> SUFFICES ASSUME NEW r \in Side, NEW i \in 1..Len(table'[r])
                 PROVE  \E n \in 1..Len(minted') :
                            minted'[n] = [entry |-> table'[r][i], side |-> r]
      OBVIOUS
    <2>1. CASE table'[r][i] = e /\ r = s
      BY <1>7, <2>1 DEF Issued
    <2>2. ASSUME NEW k \in 1..Len(table[r]), table'[r][i] = table[r][k]
          PROVE  \E n \in 1..Len(minted') :
                     minted'[n] = [entry |-> table'[r][i], side |-> r]
      <3>1. PICK x : x = table[r][k]
        OBVIOUS
      <3>2. Issued(x, r)
        BY <3>1 DEF VaultInv
      <3>3. Issued(x, r)'
        BY <1>3, <3>2, StillIssued
      <3> QED
        BY <2>2, <3>1, <3>3 DEF Issued
    <2>3. CASE r = s
      <3>1. table'[r] = new
        BY <1>1, <1>3, <2>3
      <3> QED
        BY <1>5, <2>1, <2>2, <2>3, <3>1
    <2>4. CASE r # s
      <3>1. table'[r] = table[r]
        BY <1>1, <1>3, <2>4
      <3> QED
        BY <2>2, <3>1
    <2> QED
      BY <2>3, <2>4
  <1>9. \A n \in 1..Len(minted') : minted'[n].entry.tok.rand8 = n
    <2> SUFFICES ASSUME NEW n \in 1..Len(minted') PROVE minted'[n].entry.tok.rand8 = n
      OBVIOUS
    <2>1. /\ Len(minted') = M + 1 /\ minted'[M + 1] = m
          /\ \A i \in 1..M : minted'[i] = minted[i]
      BY <1>1, <1>3 DEF M
    <2>2. CASE n = M + 1
      BY <1>3, <2>1, <2>2 DEF m
    <2>3. CASE n # M + 1
      <3>1. n \in 1..M
        BY <1>1, <2>1, <2>3
      <3> QED
        BY <2>1, <3>1 DEF VaultInv, M
    <2> QED
      BY <2>2, <2>3
  <1>10. \A i, j \in 1..Len(new) : new[i].tok.idx = new[j].tok.idx \/ new[i].val = new[j].val
                                      => i = j
    <2> SUFFICES ASSUME NEW i \in 1..Len(new), NEW j \in 1..Len(new),
                        new[i].tok.idx = new[j].tok.idx \/ new[i].val = new[j].val
                 PROVE  i = j
      OBVIOUS
    <2>1. CASE i # Len(new) /\ j # Len(new)
      <3>1. /\ i + d \in 1..Len(es) /\ j + d \in 1..Len(es)
            /\ new[i] = es[i + d] /\ new[j] = es[j + d]
        BY <1>2, <2>1
      <3>2. i + d = j + d
        <4>1. PICK a \in 1..Len(es) : a = i + d
          BY <3>1
        <4>2. PICK b \in 1..Len(es) : b = j + d
          BY <3>1
        <4>3. es[a].tok.idx = es[b].tok.idx \/ es[a].val = es[b].val
          BY <3>1, <4>1, <4>2
        <4>4. es[a].tok.idx = es[b].tok.idx => a = b
          BY <1>1 DEF VaultInv, LiveIndicesDistinct
        <4>5. es[a].val = es[b].val => a = b
          BY DEF VaultInv, Distinct
        <4> QED
          BY <4>1, <4>2, <4>3, <4>4, <4>5
      <3> QED
        BY <1>4, <3>2
    <2>2. CASE i = Len(new) /\ j # Len(new)
      <3>1. j + d \in 1..Len(es) /\ new[j] = es[j + d] /\ new[i] = e
        BY <1>2, <2>2
      <3> QED
        BY <1>3, <1>6, <3>1
    <2>3. CASE i # Len(new) /\ j = Len(new)
      <3>1. i + d \in 1..Len(es) /\ new[i] = es[i + d] /\ new[j] = e
        BY <1>2, <2>3
      <3> QED
        BY <1>3, <1>6, <3>1
    <2> QED
      BY <2>1, <2>2, <2>3
  <1>11. \A r \in Side : Distinct(table'[r])
    <2>1. Distinct(new)
      BY <1>10 DEF Distinct
    <2>2. \A r \in Side : table'[r] = new \/ table'[r] = table[r]
      BY <1>1, <1>3
    <2> QED
      BY <2>1, <2>2 DEF VaultInv
  <1>12. LiveIndicesDistinct'
    <2> SUFFICES ASSUME NEW p \in Side, NEW r \in Side,
                        NEW i \in DOMAIN table'[p], NEW j \in DOMAIN table'[r],
                        table'[p][i].tok.idx = table'[r][j].tok.idx
                 PROVE  p = r /\ i = j
      BY DEF LiveIndicesDistinct
    <2>1. DOMAIN new = 1..Len(new) /\ \A t \in Side : DOMAIN table[t] = 1..Len(table[t])
      BY <1>1, <1>2
    <2>2. \A t \in Side : table'[t] = IF t = s THEN new ELSE table[t]
      BY <1>1, <1>3
    <2>3. CASE p = s /\ r = s
      BY <1>10, <2>1, <2>2, <2>3
    <2>4. CASE p # s /\ r # s
      BY <2>1, <2>2, <2>4 DEF VaultInv, LiveIndicesDistinct
    <2>5. CASE p = s /\ r # s
      <3>1. new[i].tok.idx = table[r][j].tok.idx /\ i \in 1..Len(new)
            /\ j \in 1..Len(table[r]) /\ j \in DOMAIN table[r]
        BY <2>1, <2>2, <2>5
      <3>2. PICK k \in 1..Len(es) : new[i] = es[k]
        BY <1>5, <1>6, <3>1
      <3>3. k \in DOMAIN table[s]
        BY <2>1
      <3> QED
        BY <2>5, <3>1, <3>2, <3>3 DEF VaultInv, LiveIndicesDistinct
    <2>6. CASE p # s /\ r = s
      <3>1. new[j].tok.idx = table[p][i].tok.idx /\ j \in 1..Len(new)
            /\ i \in 1..Len(table[p]) /\ i \in DOMAIN table[p]
        BY <2>1, <2>2, <2>6
      <3>2. PICK k \in 1..Len(es) : new[j] = es[k]
        BY <1>5, <1>6, <3>1
      <3>3. k \in DOMAIN table[s]
        BY <2>1
      <3> QED
        BY <2>6, <3>1, <3>2, <3>3 DEF VaultInv, LiveIndicesDistinct
    <2> QED
      BY <2>3, <2>4, <2>5, <2>6
  <1> QED
    <2>1. VaultInv'
      BY <1>8, <1>9, <1>11, <1>12 DEF VaultInv, Issued
    <2> QED
      BY <1>7, <2>1

(* A known value's entry was issued on its side, and it moves to the end.   *)
LEMMA RenewedVault ==
    ASSUME TypeInv, VaultInv, NEW v \in Value, NEW s \in Side, NEW e, Renews(v, s, e)
    PROVE  /\ \A r \in Side : Shuffled(table[r], table'[r])
           /\ VaultInv' /\ Issued(e, s)'
  <1>1. PICK k \in 1..Len(table[s]) : table[s][k] = e
    BY DEF Renews
  <1>2. /\ table \in [Side -> Seq(Entry)] /\ UNCHANGED minted
        /\ table' = [table EXCEPT ![s] = ToEnd(table[s], e)]
    BY DEF Renews, TypeInv
  <1>3. Shuffled(table[s], ToEnd(table[s], e))
    BY <1>1, <1>2, ToEndIs DEF VaultInv
  <1>4. ASSUME NEW r \in Side PROVE Shuffled(table[r], table[r])
    BY <1>2 DEF Shuffled, VaultInv
  <1>5. \A r \in Side : Shuffled(table[r], table'[r])
    BY <1>2, <1>3, <1>4
  <1>6. VaultInv'
    BY <1>2, <1>5, ShuffledVault
  <1>7. Issued(e, s)
    BY <1>1 DEF VaultInv
  <1> QED
    BY <1>2, <1>5, <1>6, <1>7 DEF Issued

(* Either way of registering keeps the vault in order.                      *)
LEMMA RegisterVault ==
    ASSUME TypeInv, VaultInv, NEW v \in Value, NEW s \in Side, Register(v, s)
    PROVE  /\ VaultInv'
           /\ EntryFor(v, s) \in Entry /\ EntryFor(v, s).val = v
           /\ \E e : e = EntryFor(v, s) /\ Issued(e, s)'
           /\ \A x, r : Issued(x, r) => Issued(x, r)'
  <1>1. PICK e : e = EntryFor(v, s)
    OBVIOUS
  <1>2. e \in Entry /\ e.val = v /\ (Renews(v, s, e) \/ Issues(v, s, e))
    BY <1>1, Registers
  <1>3. VaultInv' /\ Issued(e, s)'
    BY <1>2, IssuedVault, RenewedVault
  <1>4. ASSUME NEW x, NEW r, Issued(x, r) PROVE Issued(x, r)'
    <2>1. CASE UNCHANGED minted
      BY <1>4, <2>1 DEF Issued
    <2>2. CASE minted' = Append(minted, [entry |-> e, side |-> s])
      BY <1>4, <2>2, StillIssued
    <2> QED
      BY <1>2, <2>1, <2>2 DEF Renews, Issues
  <1> QED
    BY <1>1, <1>2, <1>3, <1>4

(* Every step keeps the vault in order.                                     *)
LEMMA VaultStep == TypeInv /\ VaultInv /\ LineInv /\ [Next]_vars => VaultInv'
  <1> SUFFICES ASSUME TypeInv, VaultInv, LineInv, [Next]_vars PROVE VaultInv'
    OBVIOUS
  <1>1. CASE UNCHANGED vaultVars
    BY <1>1 DEF vaultVars, VaultInv, Issued, LiveIndicesDistinct
  <1>2. ASSUME NEW q \in Request, RedactLeaf(q) PROVE VaultInv'
    <2>1. leaves[q] \in Seq(Value) /\ leaves[q] # <<>> /\ Register(Head(leaves[q]), "pii")
      BY <1>2 DEF RedactLeaf, LineInv, TypeInv, TypeOK
    <2>2. PICK v \in Value : v = Head(leaves[q])
      BY <2>1
    <2> QED
      BY <2>1, <2>2, RegisterVault, SidesAre
  <1>3. ASSUME NEW q \in Request, NEW v \in Value, RegisterFound(q, v) PROVE VaultInv'
    BY <1>3, RegisterVault, SidesAre DEF RegisterFound
  <1>4. ASSUME NEW q \in Request, NEW l \in Lines, ReceiveLine(q, l) PROVE VaultInv'
    <2>1. table' = [s \in Side |-> Renewed(table[s], l)] /\ UNCHANGED minted
      BY <1>4 DEF ReceiveLine
    <2>2. \A s \in Side : table[s] \in Seq(Entry) /\ Distinct(table[s])
      BY DEF TypeInv, VaultInv
    <2>3. Len(l) \in Nat /\ DOMAIN l = 1..Len(l)
      BY LinesAre
    <2>4. \A s \in Side : Shuffled(table[s], Renewed(table[s], l))
      BY <2>2, <2>3, RenewedIs
    <2> QED
      BY <2>1, <2>4, ShuffledVault
  <1> QED
    BY <1>1, <1>2, <1>3, <1>4 DEF Next, Arrive, WriteLine, End, vars

----------------------------------------------------------------------------
(* Lines and the cache                                                      *)

(* What was issued stays issued.                                            *)
LEMMA IssuedStays ==
    ASSUME TypeInv, VaultInv, LineInv, [Next]_vars
    PROVE  \A x, r : Issued(x, r) => Issued(x, r)'
  <1>1. CASE UNCHANGED minted
    BY <1>1 DEF Issued
  <1>2. ASSUME NEW q \in Request, RedactLeaf(q)
        PROVE  \A x, r : Issued(x, r) => Issued(x, r)'
    <2>1. leaves[q] \in Seq(Value) /\ leaves[q] # <<>> /\ Register(Head(leaves[q]), "pii")
      BY <1>2 DEF RedactLeaf, LineInv, TypeInv, TypeOK
    <2>2. PICK v \in Value : v = Head(leaves[q])
      BY <2>1
    <2> QED
      BY <2>1, <2>2, RegisterVault, SidesAre
  <1>3. ASSUME NEW q \in Request, NEW v \in Value, RegisterFound(q, v)
        PROVE  \A x, r : Issued(x, r) => Issued(x, r)'
    BY <1>3, RegisterVault, SidesAre DEF RegisterFound
  <1> QED
    BY <1>1, <1>2, <1>3 DEF Next, Arrive, WriteLine, End, ReceiveLine, vars, vaultVars

(* Request q's line, read and not yet written.                              *)
Waiting(q) ==
    /\ ReadsFrom(line[q], key[q])
    /\ \A v \in Detected(key[q].text, key[q].spans) :
          v \in todo[q] \/ \E e \in found[q] : e.val = v

(* A line keeps waiting while what was detected in it is neither forgotten  *)
(* nor lost.                                                                *)
LEMMA WaitingStays ==
    ASSUME TypeInv, VaultInv, LineInv, [Next]_vars, NEW q \in Request, Waiting(q),
           line'[q] = line[q], key'[q] = key[q],
           \A v \in Value : v \in todo[q] \/ (\E e \in found[q] : e.val = v)
                        => v \in todo'[q] \/ (\E e \in found'[q] : e.val = v)
    PROVE  Waiting(q)'
  <1>1. ReadsFrom(line[q], key[q])'
    <2>1. \A e \in Entry : Issued(e, "pii") => Issued(e, "pii")'
      BY IssuedStays
    <2>2. ReadsFrom(line[q], key[q])
      BY DEF Waiting
    <2> QED
      BY <2>1, <2>2 DEF ReadsFrom
  <1>2. Detected(key[q].text, key[q].spans)' = Detected(key[q].text, key[q].spans)
    BY DEF Detected
  <1>3. Detected(key[q].text, key[q].spans) \subseteq Value
    BY DEF Detected
  <1> QED
    BY <1>1, <1>2, <1>3 DEF Waiting

(* A step that writes nothing.                                              *)
LEMMA NothingWritten ==
    ASSUME written' = Nothing
    PROVE  MaskedUnlessRestored' /\ EchoIsFaithful'
  <1>1. DOMAIN written'.out = {}
    BY DEF Nothing
  <1> QED
    BY <1>1 DEF MaskedUnlessRestored, EchoIsFaithful

(* Every step keeps the lines, the cache and what is written as the         *)
(* invariant says.                                                          *)
LEMMA LineStep ==
    TypeInv /\ VaultInv /\ LineInv /\ TypeInv' /\ [Next]_vars => LineInv'
  <1> SUFFICES ASSUME TypeInv, VaultInv, LineInv, TypeInv', [Next]_vars PROVE LineInv'
    OBVIOUS
  <1>1. RequestTypes /\ LineTypes /\ RequestTypes' /\ LineTypes'
    BY TypeParts DEF TypeInv, TypeOK, RequestTypes, LineTypes
  <1>2. /\ \A p \in Request : phase[p] = "redact" => leaves[p] # <<>>
        /\ \A p \in Request : phase[p] = "scan" => Waiting(p)
        /\ \A c \in cache : MaskedFrom(c.key, c.result)
        /\ MaskedUnlessRestored /\ EchoIsFaithful
    BY DEF LineInv, Waiting
  <1>3. ASSUME \A p \in Request : phase'[p] = "redact" => leaves'[p] # <<>>,
               \A p \in Request : phase'[p] = "scan" => Waiting(p)',
               \A c \in cache' : MaskedFrom(c.key, c.result),
               MaskedUnlessRestored' /\ EchoIsFaithful'
        PROVE  LineInv'
    BY <1>3 DEF LineInv, Waiting, MaskedFrom
  (* A request whose line, key, detected values and findings stay.           *)
  <1>4. ASSUME NEW p \in Request, phase[p] = "scan", line'[p] = line[p], key'[p] = key[p],
               todo'[p] = todo[p], found'[p] = found[p]
        PROVE  Waiting(p)'
    BY <1>2, <1>4, WaitingStays
  <1>5. ASSUME NEW q \in Request, NEW body \in Bodies, Arrive(q, body) PROVE LineInv'
    <2>1. body # <<>>
      <3>1. PICK n \in 1..MaxLeaves : body \in [1..n -> Value]
        BY DEF Bodies
      <3>2. 1 \in DOMAIN body
        BY <3>1, Bounds
      <3> QED
        BY <3>2
    <2>2. /\ phase' = [phase EXCEPT ![q] = "redact"] /\ leaves' = [leaves EXCEPT ![q] = body]
          /\ written' = Nothing /\ UNCHANGED <<cache, line, key, todo, found>>
      BY <1>5 DEF Arrive, scanVars
    <2>3. \A p \in Request : phase'[p] = "redact" => leaves'[p] # <<>>
      BY <1>1, <1>2, <2>1, <2>2 DEF RequestTypes
    <2>4. \A p \in Request : phase'[p] = "scan" => Waiting(p)'
      BY <1>1, <1>4, <2>2 DEF RequestTypes
    <2> QED
      BY <1>2, <1>3, <2>2, <2>3, <2>4, NothingWritten
  <1>6. ASSUME NEW q \in Request, RedactLeaf(q) PROVE LineInv'
    <2>1. /\ leaves' = [leaves EXCEPT ![q] = Tail(@)]
          /\ phase' = [phase EXCEPT ![q] = IF leaves'[q] = <<>> THEN "stream" ELSE @]
          /\ written' = Nothing /\ UNCHANGED <<cache, line, key, todo, found>>
      BY <1>6 DEF RedactLeaf, scanVars
    <2>2. \A p \in Request : phase'[p] = "redact" => leaves'[p] # <<>>
      BY <1>1, <1>2, <2>1 DEF RequestTypes
    <2>3. \A p \in Request : phase'[p] = "scan" => phase[p] = "scan"
      BY <1>1, <2>1 DEF RequestTypes
    <2>4. \A p \in Request : phase'[p] = "scan" => Waiting(p)'
      BY <1>4, <2>1, <2>3
    <2> QED
      BY <1>2, <1>3, <2>1, <2>2, <2>4, NothingWritten
  <1>7. ASSUME NEW q \in Request, WriteLine(q) PROVE LineInv'
    <2> DEFINE r == Masked(key[q].text, key[q].spans, found[q])
    <2>1. PICK k \in Key : k = key[q]
      BY <1>1 DEF LineTypes
    <2>2. PICK F \in SUBSET Entry : F = found[q]
      BY <1>1 DEF LineTypes
    <2>3. PICK l \in Seq(Piece) : l = line[q]
      BY <1>1 DEF LineTypes
    <2>4. PICK m : m = Masked(k.text, k.spans, F)
      OBVIOUS
    <2>5. /\ phase[q] = "scan" /\ todo[q] = {}
          /\ cache' = {[key |-> k, result |-> m]} /\ written' = [in |-> l, out |-> m]
          /\ phase' = [phase EXCEPT ![q] = "stream"] /\ line' = [line EXCEPT ![q] = <<>>]
          /\ key' = [key EXCEPT ![q] = NoKey] /\ found' = [found EXCEPT ![q] = {}]
          /\ UNCHANGED <<minted, leaves, todo>>
      BY <1>7, <2>1, <2>2, <2>3, <2>4 DEF WriteLine, vaultVars
    <2>6. ReadsFrom(l, k) /\ \A v \in Detected(k.text, k.spans) : \E e \in F : e.val = v
      BY <1>2, <2>1, <2>2, <2>3, <2>5 DEF Waiting
    <2>7. m \in Seq(Piece) /\ MaskedFrom(k, m)
      BY <2>4, <2>6, MaskedIs
    <2>8. MaskedUnlessRestored' /\ EchoIsFaithful'
      BY <2>5, <2>6, <2>7, WrittenIs
    <2>9. \A c \in cache' : MaskedFrom(c.key, c.result)
      BY <2>5, <2>7
    <2>10. \A p \in Request : phase'[p] = "redact" => leaves'[p] # <<>>
      BY <1>1, <1>2, <2>5 DEF RequestTypes
    <2>11. \A p \in Request : phase'[p] = "scan" => p # q /\ phase[p] = "scan"
      BY <1>1, <2>5 DEF RequestTypes
    <2>12. \A p \in Request : p # q => /\ line'[p] = line[p] /\ key'[p] = key[p]
                                       /\ todo'[p] = todo[p] /\ found'[p] = found[p]
      BY <1>1, <2>5 DEF LineTypes
    <2>13. \A p \in Request : phase'[p] = "scan" => Waiting(p)'
      BY <1>4, <2>11, <2>12
    <2> QED
      BY <1>3, <2>8, <2>9, <2>10, <2>13
  <1>8. ASSUME NEW q \in Request, End(q) PROVE LineInv'
    <2>1. /\ phase' = [phase EXCEPT ![q] = "done"] /\ leaves' = [leaves EXCEPT ![q] = <<>>]
          /\ line' = [line EXCEPT ![q] = <<>>] /\ key' = [key EXCEPT ![q] = NoKey]
          /\ todo' = [todo EXCEPT ![q] = {}] /\ found' = [found EXCEPT ![q] = {}]
          /\ written' = Nothing /\ UNCHANGED cache
      BY <1>8 DEF End
    <2>2. \A p \in Request : phase'[p] = "redact" => leaves'[p] # <<>>
      BY <1>1, <1>2, <2>1 DEF RequestTypes
    <2>3. \A p \in Request : phase'[p] = "scan" => p # q /\ phase[p] = "scan"
      BY <1>1, <2>1 DEF RequestTypes
    <2>4. \A p \in Request : p # q => /\ line'[p] = line[p] /\ key'[p] = key[p]
                                      /\ todo'[p] = todo[p] /\ found'[p] = found[p]
      BY <1>1, <2>1 DEF LineTypes
    <2>5. \A p \in Request : phase'[p] = "scan" => Waiting(p)'
      BY <1>4, <2>3, <2>4
    <2> QED
      BY <1>2, <1>3, <2>1, <2>2, <2>5, NothingWritten
  <1>9. ASSUME NEW q \in Request, NEW l \in Lines, ReceiveLine(q, l) PROVE LineInv'
    <2>1. PICK k \in Key : /\ k = [seq |-> seq, text |-> Restored(l), spans |-> Spans(l)]
                           /\ ReadsFrom(l, k)
      BY RestoredIs
    <2> DEFINE hits == {c \in cache : SameKey(c.key, k)}
    <2>2. l \in Seq(Piece)
      BY LinesAre
    <2>3. UNCHANGED <<minted, cache, leaves, found>>
      BY <1>9 DEF ReceiveLine, scanVars
    <2>4. \/ /\ hits # {} /\ written' = [in |-> l, out |-> (CHOOSE c \in hits : TRUE).result]
             /\ UNCHANGED <<phase, line, key, todo>>
          \/ /\ phase' = [phase EXCEPT ![q] = "scan"] /\ line' = [line EXCEPT ![q] = l]
             /\ key' = [key EXCEPT ![q] = k]
             /\ todo' = [todo EXCEPT ![q] = Detected(k.text, k.spans)]
             /\ written' = Nothing
      BY <1>9, <2>1 DEF ReceiveLine, scanVars
    <2>5. CASE /\ hits # {}
               /\ written' = [in |-> l, out |-> (CHOOSE c \in hits : TRUE).result]
               /\ UNCHANGED <<phase, line, key, todo>>
      <3>1. PICK c \in hits : c = CHOOSE x \in hits : TRUE
        BY <2>5
      <3>2. c \in cache /\ c.key = k /\ c \in Cached
        BY <1>1 DEF SameKey, LineTypes
      <3>3. PICK r \in Seq(Piece) : r = c.result
        BY <3>2 DEF Cached
      <3>4. MaskedFrom(k, r)
        BY <1>2, <3>2, <3>3
      <3>5. written' = [in |-> l, out |-> r]
        BY <2>5, <3>1, <3>3
      <3>6. MaskedUnlessRestored' /\ EchoIsFaithful'
        BY <2>1, <2>2, <2>3, <3>4, <3>5, WrittenIs
      <3>7. \A p \in Request : phase'[p] = "scan" => Waiting(p)'
        BY <1>4, <2>3, <2>5
      <3> QED
        BY <1>2, <1>3, <2>3, <2>5, <3>6, <3>7
    <2>6. CASE /\ phase' = [phase EXCEPT ![q] = "scan"] /\ line' = [line EXCEPT ![q] = l]
               /\ key' = [key EXCEPT ![q] = k]
               /\ todo' = [todo EXCEPT ![q] = Detected(k.text, k.spans)]
               /\ written' = Nothing
      <3>1. Waiting(q)'
        <4>1. line'[q] = l /\ key'[q] = k /\ todo'[q] = Detected(k.text, k.spans)
          BY <1>1, <2>6 DEF LineTypes
        <4>2. ReadsFrom(line[q], key[q])'
          BY <2>1, <2>3, <4>1 DEF ReadsFrom, Issued
        <4>3. Detected(key[q].text, key[q].spans)' = Detected(k.text, k.spans)
          BY <4>1 DEF Detected
        <4> QED
          BY <4>1, <4>2, <4>3 DEF Waiting
      <3>2. \A p \in Request : p # q =>
                /\ phase'[p] = phase[p] /\ line'[p] = line[p] /\ key'[p] = key[p]
                /\ todo'[p] = todo[p] /\ found'[p] = found[p]
        BY <1>1, <2>3, <2>6 DEF LineTypes, RequestTypes
      <3>3. \A p \in Request : phase'[p] = "scan" => Waiting(p)'
        BY <1>4, <3>1, <3>2
      <3>4. \A p \in Request : phase'[p] = "redact" => leaves'[p] # <<>>
        BY <1>1, <1>2, <2>3, <2>6 DEF RequestTypes
      <3> QED
        BY <1>2, <1>3, <2>3, <2>6, <3>3, <3>4, NothingWritten
    <2> QED
      BY <2>4, <2>5, <2>6
  <1>10. ASSUME NEW q \in Request, NEW v \in Value, RegisterFound(q, v) PROVE LineInv'
    <2>1. PICK e \in Entry : e = EntryFor(v, "resp") /\ e.val = v
      BY <1>10, RegisterVault, SidesAre DEF RegisterFound
    <2>2. /\ todo' = [todo EXCEPT ![q] = @ \ {v}] /\ found' = [found EXCEPT ![q] = @ \cup {e}]
          /\ written' = Nothing /\ UNCHANGED <<cache, phase, leaves, line, key>>
      BY <1>10, <2>1 DEF RegisterFound
    <2>3. ASSUME NEW p \in Request, phase[p] = "scan" PROVE Waiting(p)'
      <3>1. \A x \in Value : x \in todo[p] \/ (\E f \in found[p] : f.val = x)
                        => x \in todo'[p] \/ (\E f \in found'[p] : f.val = x)
        <4>1. CASE p = q
          <5>1. todo'[p] = todo[p] \ {v} /\ found'[p] = found[p] \cup {e}
            BY <1>1, <2>2, <4>1 DEF LineTypes
          <5> QED
            BY <2>1, <5>1
        <4>2. CASE p # q
          BY <1>1, <2>2, <4>2 DEF LineTypes
        <4> QED
          BY <4>1, <4>2
      <3> QED
        BY <1>2, <2>2, <2>3, <3>1, WaitingStays
    <2> QED
      BY <1>2, <1>3, <2>2, <2>3, NothingWritten
  <1>11. CASE UNCHANGED vars
    <2>1. UNCHANGED <<minted, cache, phase, leaves, line, key, todo, found, written>>
      BY <1>11 DEF vars, vaultVars, scanVars
    <2>2. \A p \in Request : phase'[p] = "scan" => Waiting(p)'
      BY <1>4, <2>1
    <2>3. MaskedUnlessRestored' /\ EchoIsFaithful'
      <3>1. MaskedUnlessRestored'
        BY <1>2, <2>1 DEF MaskedUnlessRestored
      <3>2. EchoIsFaithful'
        BY <1>2, <2>1 DEF EchoIsFaithful
      <3> QED
        BY <3>1, <3>2
    <2> QED
      BY <1>2, <1>3, <2>1, <2>2, <2>3
  <1> QED
    BY <1>5, <1>6, <1>7, <1>8, <1>9, <1>10, <1>11 DEF Next

----------------------------------------------------------------------------
(* The order of use                                                         *)

(* The history after a use of entry e.                                      *)
UseOf(e, used) ==
    [n \in 1..MaxMints |-> IF n = e.tok.rand8 THEN {} ELSE used[n] \cup {e.val}]

(* No two entries drew the same digits.                                     *)
OwnDigits(es) == \A i, j \in 1..Len(es) : es[i].tok.rand8 = es[j].tok.rand8 => i = j

(* Entries of a list have digits that number a registration.                *)
LEMMA DigitsAre ==
    ASSUME NEW e \in Entry
    PROVE  e.tok.rand8 \in 1..MaxMints /\ e.val \in Value
  BY DEF Entry, Token

(* Using a live entry keeps the order: it becomes the newest.               *)
LEMMA RenewedOrder ==
    ASSUME NEW es \in Seq(Entry), Distinct(es), OwnDigits(es), NEW k \in 1..Len(es),
           NEW used, Ordered(es, used)
    PROVE  Ordered(ToEnd(es, es[k]), UseOf(es[k], used))
  <1> DEFINE N == Len(es)
             e == es[k]
             new == ToEnd(es, e)
             now == UseOf(e, used)
             from(i) == IF i < k THEN i ELSE i + 1
  <1>1. N \in Nat /\ \A i \in 1..N : es[i] \in Entry
    OBVIOUS
  <1>2. /\ Len(new) = N /\ new[N] = e
        /\ \A i \in 1..N - 1 : new[i] = es[from(i)]
    BY ToEndIs
  <1> HIDE DEF new
  <1>3. ASSUME NEW a \in 1..N, a # k
        PROVE  now[es[a].tok.rand8] = used[es[a].tok.rand8] \cup {e.val}
    <2>1. es[a].tok.rand8 # e.tok.rand8
      BY <1>3 DEF OwnDigits
    <2>2. es[a].tok.rand8 \in 1..MaxMints
      BY <1>1, DigitsAre
    <2> QED
      BY <2>1, <2>2 DEF UseOf
  <1> HIDE DEF now
  <1> SUFFICES ASSUME NEW i \in 1..N, NEW j \in 1..N, i < j
               PROVE  new[j].val \in now[new[i].tok.rand8]
    BY <1>2 DEF Ordered, new, now
  <1>4. i \in 1..N - 1 /\ from(i) \in 1..N /\ from(i) # k /\ new[i] = es[from(i)]
    BY <1>1, <1>2
  <1>5. CASE j = N
    <2>1. PICK a \in 1..N : a # k /\ new[i] = es[a]
      BY <1>4
    <2>2. now[es[a].tok.rand8] = used[es[a].tok.rand8] \cup {e.val}
      BY <1>3, <2>1
    <2>3. new[j].val = e.val
      BY <1>2, <1>5
    <2> QED
      BY <2>1, <2>2, <2>3
  <1>6. CASE j # N
    <2>1. from(j) \in 1..N /\ from(i) < from(j) /\ new[j] = es[from(j)]
      BY <1>1, <1>2, <1>6
    <2>2. es[from(j)].val \in used[es[from(i)].tok.rand8]
      BY <1>4, <2>1 DEF Ordered
    <2> QED
      BY <1>3, <1>4, <2>1, <2>2
  <1> QED
    BY <1>5, <1>6

(* So does issuing an entry, whether or not the oldest one goes.            *)
LEMMA IssuedOrder ==
    ASSUME NEW es \in Seq(Entry), Len(es) <= MaxEntries, NEW e \in Entry,
           \A k \in 1..Len(es) : es[k].tok.rand8 # e.tok.rand8,
           NEW used, Ordered(es, used)
    PROVE  Ordered(Evicted(Append(es, e)), UseOf(e, used))
  <1> DEFINE new == Evicted(Append(es, e))
             now == UseOf(e, used)
             N == Len(new)
             d == IF Len(es) = MaxEntries THEN 1 ELSE 0
  <1>1. /\ N \in Nat /\ new[N] = e
        /\ \A i \in 1..N : i # N => i + d \in 1..Len(es) /\ new[i] = es[i + d]
    BY EvictedIs
  <1>2. \A i \in 1..Len(es) : es[i] \in Entry
    OBVIOUS
  <1>3. d \in Nat
    OBVIOUS
  <1>4. ASSUME NEW a \in 1..Len(es)
        PROVE  now[es[a].tok.rand8] = used[es[a].tok.rand8] \cup {e.val}
    BY <1>2, DigitsAre DEF UseOf
  <1> HIDE DEF new, now, d, N
  <1> SUFFICES ASSUME NEW i \in 1..N, NEW j \in 1..N, i < j
               PROVE  new[j].val \in now[new[i].tok.rand8]
    BY DEF Ordered, new, now, N
  <1>5. i # N /\ i + d \in 1..Len(es) /\ new[i] = es[i + d]
    BY <1>1
  <1>6. CASE j = N
    BY <1>1, <1>4, <1>5, <1>6
  <1>7. CASE j # N
    <2>1. j + d \in 1..Len(es) /\ new[j] = es[j + d] /\ i + d < j + d
      BY <1>1, <1>3, <1>7
    <2>2. es[j + d].val \in used[es[i + d].tok.rand8]
      BY <1>5, <2>1 DEF Ordered
    <2> QED
      BY <1>4, <1>5, <2>1, <2>2
  <1> QED
    BY <1>6, <1>7

(* A set that holds the values of a full list is large.                     *)
LEMMA FullList ==
    ASSUME NEW new \in Seq(Entry), Distinct(new), Len(new) = MaxEntries,
           NEW W, IsFiniteSet(W), \A i \in 1..Len(new) : new[i].val \in W
    PROVE  Cardinality(W) >= MaxEntries
  <1> DEFINE N == MaxEntries
             V == {new[i].val : i \in 1..N}
             f == [i \in 1..N |-> new[i].val]
  <1>1. N \in Nat
    BY Bounds
  <1>2. f \in Bijection(1..N, V)
    <2>1. f \in Injection(1..N, V)
      BY DEF Injection, IsInjective, Distinct
    <2>2. f \in Surjection(1..N, V)
      BY DEF Surjection
    <2> QED
      BY <2>1, <2>2 DEF Bijection
  <1>3. V \subseteq W
    OBVIOUS
  <1> HIDE DEF f, V, N
  <1>4. IsFiniteSet(1..N) /\ Cardinality(1..N) = N
    <2>1. 1 \in Int /\ N \in Int
      BY <1>1
    <2>2. /\ IsFiniteSet(1..N)
          /\ Cardinality(1..N) = IF 1 > N THEN 0 ELSE N - 1 + 1
      BY <2>1, FS_Interval
    <2>3. (IF 1 > N THEN 0 ELSE N - 1 + 1) = N
      BY <1>1
    <2> QED
      BY <2>2, <2>3
  <1>5. IsFiniteSet(V) /\ Cardinality(V) = N
    BY <1>2, <1>4, FS_Bijection DEF ExistsBijection
  <1>6. Cardinality(V) <= Cardinality(W)
    BY <1>3, FS_Subset
  <1>7. Cardinality(W) \in Nat
    BY FS_CardinalityType
  <1> QED
    BY <1>1, <1>5, <1>6, <1>7 DEF N

(* A set with more in it is at least as large.                              *)
LEMMA Larger ==
    ASSUME NEW A, NEW B, NEW v, IsFiniteSet(B), A \subseteq B,
           Cardinality(A \ {v}) >= MaxEntries
    PROVE  Cardinality(B \ {v}) >= MaxEntries
  <1>1. IsFiniteSet(B \ {v}) /\ A \ {v} \subseteq B \ {v}
    BY FS_Subset
  <1>2. IsFiniteSet(A \ {v}) /\ Cardinality(A \ {v}) <= Cardinality(B \ {v})
    BY <1>1, FS_Subset
  <1>3. Cardinality(A \ {v}) \in Nat /\ Cardinality(B \ {v}) \in Nat
    BY <1>1, <1>2, FS_CardinalityType
  <1> QED
    BY <1>2, <1>3, Bounds

(* Moving entries about drops none, if the history of the others grows.     *)
LEMMA ShuffledDrops ==
    ASSUME NEW es \in Seq(Entry), NEW new, Shuffled(es, new), NEW all \in Seq(Mint),
           \A n \in 1..Len(all) : all[n].entry.tok.rand8 = n,
           \A i \in 1..Len(es) : \E n \in 1..Len(all) : all[n].entry = es[i],
           Len(all) <= MaxMints, NEW used, NEW now,
           \A n \in 1..MaxMints : IsFiniteSet(now[n]),
           \A n \in 1..MaxMints :
               (\A i \in 1..Len(es) : es[i].tok.rand8 # n) => used[n] \subseteq now[n],
           Dropped(es, all, used)
    PROVE  Dropped(new, all, now)
  <1> SUFFICES ASSUME NEW n \in 1..Len(all), all[n].side = "pii",
                      ~ \E i \in 1..Len(new) : new[i] = all[n].entry
               PROVE  Cardinality(now[n] \ {all[n].entry.val}) >= MaxEntries
    BY DEF Dropped
  <1>1. n \in 1..MaxMints
    BY Bounds
  <1>2. \A i \in 1..Len(es) : es[i] # all[n].entry
    BY DEF Shuffled
  <1>3. ASSUME NEW i \in 1..Len(es) PROVE es[i].tok.rand8 # n
    <2>1. PICK k \in 1..Len(all) : all[k].entry = es[i]
      OBVIOUS
    <2>2. all[k].entry.tok.rand8 = k
      OBVIOUS
    <2> QED
      BY <1>2, <2>1, <2>2
  <1>4. Cardinality(used[n] \ {all[n].entry.val}) >= MaxEntries
    BY <1>2 DEF Dropped
  <1> QED
    BY <1>1, <1>3, <1>4, Larger

(* An eviction drops the oldest entry, and every entry of the full list was *)
(* used since.                                                              *)
LEMMA IssuedDrops ==
    ASSUME NEW es \in Seq(Entry), Len(es) <= MaxEntries, Distinct(es), NEW e \in Entry,
           \A k \in 1..Len(es) : es[k].val # e.val,
           Distinct(Evicted(Append(es, e))),
           NEW all \in Seq(Mint), NEW m, m.entry = e, Len(all) < MaxMints,
           \A n \in 1..Len(all) : all[n].entry.tok.rand8 = n,
           e.tok.rand8 = Len(all) + 1,
           NEW used, \A n \in 1..MaxMints : IsFiniteSet(used[n]),
           Ordered(es, used), Dropped(es, all, used)
    PROVE  Dropped(Evicted(Append(es, e)), Append(all, m), UseOf(e, used))
  <1> DEFINE new == Evicted(Append(es, e))
             now == UseOf(e, used)
             N == Len(new)
             M == Len(all)
             d == IF Len(es) = MaxEntries THEN 1 ELSE 0
             more == Append(all, m)
  <1>1. /\ new \in Seq(Entry) /\ N = Len(es) + 1 - d /\ N \in Nat \ {0} /\ new[N] = e
        /\ \A i \in 1..N : i # N => i + d \in 1..Len(es) /\ new[i] = es[i + d]
    BY EvictedIs
  <1>2. /\ M \in Nat /\ Len(es) \in Nat /\ Len(more) = M + 1 /\ more[M + 1] = m
        /\ \A n \in 1..M : more[n] = all[n]
    OBVIOUS
  <1>3. Distinct(new)
    OBVIOUS
  <1>4. ASSUME NEW n \in 1..M
        PROVE  now[n] = used[n] \cup {e.val} /\ IsFiniteSet(now[n])
    <2>1. n \in 1..MaxMints /\ n # e.tok.rand8
      BY <1>2, Bounds
    <2>2. now[n] = used[n] \cup {e.val}
      BY <2>1 DEF UseOf
    <2>3. IsFiniteSet(used[n])
      BY <2>1
    <2>4. IsFiniteSet(used[n] \cup {e.val})
      BY <2>3, FS_AddElement
    <2> QED
      BY <2>2, <2>4
  <1>5. d \in 0..1
    OBVIOUS
  <1>6. d = 1 => Len(es) = MaxEntries
    OBVIOUS
  <1> HIDE DEF new, now, N, M, d, more
  <1> SUFFICES ASSUME NEW n \in 1..M + 1, more[n].side = "pii",
                      ~ \E i \in 1..N : new[i] = more[n].entry
               PROVE  Cardinality(now[n] \ {more[n].entry.val}) >= MaxEntries
    BY <1>2 DEF Dropped, new, now, N, more
  <1>7. N \in 1..N
    BY <1>1
  <1>8. n # M + 1
    BY <1>1, <1>2, <1>7
  <1>9. n \in 1..M /\ more[n] = all[n]
    BY <1>2, <1>8
  <1>10. CASE \A i \in 1..Len(es) : es[i] # all[n].entry
    <2>1. Cardinality(used[n] \ {all[n].entry.val}) >= MaxEntries
      BY <1>9, <1>10 DEF Dropped, M
    <2>2. used[n] \subseteq now[n] /\ IsFiniteSet(now[n])
      BY <1>4, <1>9
    <2> QED
      BY <1>9, <2>1, <2>2, Larger
  <1>11. ASSUME NEW k \in 1..Len(es), es[k] = all[n].entry
         PROVE  Cardinality(now[n] \ {more[n].entry.val}) >= MaxEntries
    <2>1. k = 1 /\ d = 1
      <3>1. ASSUME k - d \in 1..N, k - d # N PROVE FALSE
        <4>1. new[k - d] = es[k]
          BY <1>1, <1>5, <3>1
        <4> QED
          BY <1>9, <1>11, <3>1, <4>1
      <3> QED
        BY <1>1, <1>2, <1>5, <3>1
    <2>2. Len(es) = MaxEntries /\ N = MaxEntries
      BY <1>1, <1>2, <1>6, <2>1, Bounds
    <2>3. es[1].tok.rand8 = n /\ all[n].entry.val = es[1].val
      BY <1>9, <1>11, <2>1 DEF M
    <2> DEFINE W == now[n] \ {es[1].val}
    <2>4. ASSUME NEW i \in 1..N PROVE new[i].val \in W
      <3>1. CASE i = N
        BY <1>1, <1>4, <1>9, <1>11, <2>1, <3>1
      <3>2. CASE i # N
        <4>1. i + 1 \in 1..Len(es) /\ new[i] = es[i + 1] /\ 1 < i + 1 /\ 1 \in 1..Len(es)
          BY <1>1, <1>11, <2>1, <3>2
        <4>2. es[i + 1].val \in used[n]
          BY <2>3, <4>1 DEF Ordered
        <4>3. es[i + 1].val # es[1].val
          <5>1. i + 1 # 1
            BY <4>1
          <5> QED
            BY <4>1, <5>1 DEF Distinct
        <4> QED
          BY <1>4, <1>9, <4>1, <4>2, <4>3
      <3> QED
        BY <3>1, <3>2
    <2>5. IsFiniteSet(W)
      BY <1>4, <1>9, FS_Subset
    <2> HIDE DEF W
    <2>6. Cardinality(W) >= MaxEntries
      BY <1>1, <1>3, <2>2, <2>4, <2>5, FullList DEF N
    <2> QED
      BY <1>9, <2>3, <2>6 DEF W
  <1> QED
    BY <1>10, <1>11

(* The request side holds registrations, each with its own digits.          *)
LEMMA RequestSide ==
    ASSUME TypeInv, VaultInv
    PROVE  /\ table["pii"] \in Seq(Entry) /\ Len(table["pii"]) <= MaxEntries
           /\ Distinct(table["pii"]) /\ OwnDigits(table["pii"])
           /\ \A i \in 1..Len(table["pii"]) : \E n \in 1..Len(minted) :
                 minted[n].entry = table["pii"][i] /\ table["pii"][i].tok.rand8 = n
           /\ minted \in Seq(Mint) /\ Len(minted) <= MaxMints
           /\ \A n \in 1..Len(minted) : minted[n].entry.tok.rand8 = n
  <1> DEFINE es == table["pii"]
  <1>1. /\ es \in Seq(Entry) /\ Len(es) <= MaxEntries /\ Distinct(es)
        /\ minted \in Seq(Mint) /\ Len(minted) <= MaxMints
        /\ \A n \in 1..Len(minted) : minted[n].entry.tok.rand8 = n
        /\ \A i \in 1..Len(es) : Issued(es[i], "pii")
    BY SidesAre DEF TypeInv, TypeOK, VaultInv
  <1>2. \A i \in 1..Len(es) : \E n \in 1..Len(minted) :
           minted[n].entry = es[i] /\ es[i].tok.rand8 = n
    <2> SUFFICES ASSUME NEW i \in 1..Len(es)
                 PROVE  \E n \in 1..Len(minted) :
                            minted[n].entry = es[i] /\ es[i].tok.rand8 = n
      OBVIOUS
    <2>1. PICK n \in 1..Len(minted) : minted[n] = [entry |-> es[i], side |-> "pii"]
      BY <1>1 DEF Issued
    <2>2. minted[n].entry = es[i] /\ minted[n].entry.tok.rand8 = n
      BY <1>1, <2>1
    <2> QED
      BY <2>2
  <1>3. OwnDigits(es)
    <2> SUFFICES ASSUME NEW i \in 1..Len(es), NEW j \in 1..Len(es),
                        es[i].tok.rand8 = es[j].tok.rand8
                 PROVE  i = j
      BY DEF OwnDigits
    <2>1. es[i] = es[j]
      BY <1>2
    <2> QED
      BY <1>1, <2>1 DEF Distinct
  <1> QED
    BY <1>1, <1>2, <1>3

(* The history after a use is finite.                                       *)
LEMMA UseOfFinite ==
    ASSUME NEW e, NEW used, \A n \in 1..MaxMints : IsFiniteSet(used[n])
    PROVE  \A n \in 1..MaxMints : IsFiniteSet(UseOf(e, used)[n])
  <1> SUFFICES ASSUME NEW n \in 1..MaxMints PROVE IsFiniteSet(UseOf(e, used)[n])
    OBVIOUS
  <1>1. IsFiniteSet(used[n])
    OBVIOUS
  <1>2. IsFiniteSet({}) /\ IsFiniteSet(used[n] \cup {e.val})
    BY <1>1, FS_EmptySet, FS_AddElement
  <1> QED
    BY <1>2 DEF UseOf

(* Registering on the request side keeps the order and drops an entry only  *)
(* after enough others were used.                                           *)
LEMMA RegisterUse ==
    ASSUME TypeInv, VaultInv, VaultInv', TypeInv', UseInv, NEW v \in Value,
           Register(v, "pii")
    PROVE  /\ \A n \in 1..MaxMints : IsFiniteSet(since'[n])
           /\ Ordered(table'["pii"], since')
           /\ Dropped(table'["pii"], minted', since')
  <1> DEFINE es == table["pii"]
  <1>1. PICK e : e = EntryFor(v, "pii")
    OBVIOUS
  <1>2. /\ e \in Entry /\ e.val = v
        /\ Renews(v, "pii", e) \/ Issues(v, "pii", e)
        /\ since' = UseOf(e, since)
    BY <1>1, Registers, SidesAre DEF UseOf
  <1>3. /\ es \in Seq(Entry) /\ Len(es) <= MaxEntries
        /\ Distinct(es) /\ OwnDigits(es)
        /\ \A i \in 1..Len(es) : \E n \in 1..Len(minted) :
              minted[n].entry = es[i] /\ es[i].tok.rand8 = n
        /\ minted \in Seq(Mint) /\ Len(minted) <= MaxMints
        /\ \A n \in 1..Len(minted) : minted[n].entry.tok.rand8 = n
    BY RequestSide
  <1>4. /\ \A n \in 1..MaxMints : IsFiniteSet(since[n])
        /\ Ordered(es, since) /\ Dropped(es, minted, since)
    BY DEF UseInv
  <1>5. \A n \in 1..MaxMints : IsFiniteSet(since'[n])
    BY <1>2, <1>4, UseOfFinite
  <1>6. table \in [Side -> Seq(Entry)] /\ "pii" \in Side
    BY SidesAre DEF TypeInv
  <1>7. CASE Renews(v, "pii", e)
    <2>1. PICK k \in 1..Len(es) : es[k] = e
      BY <1>7 DEF Renews
    <2>2. minted' = minted /\ table'["pii"] = ToEnd(es, e)
      BY <1>6, <1>7 DEF Renews
    <2>3. Ordered(ToEnd(es, es[k]), UseOf(es[k], since))
      BY <1>3, <1>4, RenewedOrder
    <2>4. Shuffled(es, ToEnd(es, e))
      BY <1>3, <2>1, ToEndIs
    <2>5. \A n \in 1..MaxMints :
              (\A i \in 1..Len(es) : es[i].tok.rand8 # n) => since[n] \subseteq since'[n]
      BY <1>2, <2>1 DEF UseOf
    <2>6. PICK now : now = since'
      OBVIOUS
    <2>7. PICK new : new = ToEnd(es, e)
      OBVIOUS
    <2>8. \A i \in 1..Len(es) : \E n \in 1..Len(minted) : minted[n].entry = es[i]
      BY <1>3
    <2>9. Dropped(new, minted, now)
      <3> HIDE DEF es
      <3> QED
        BY <1>3, <1>4, <1>5, <2>4, <2>5, <2>6, <2>7, <2>8, ShuffledDrops
    <2> QED
      BY <1>2, <1>5, <2>1, <2>2, <2>3, <2>6, <2>7, <2>9
  <1>8. CASE Issues(v, "pii", e)
    <2> DEFINE m == [entry |-> e, side |-> "pii"]
               new == Evicted(Append(es, e))
    <2>1. /\ \A k \in 1..Len(es) : es[k].val # e.val
          /\ Len(minted) < MaxMints /\ e.tok.rand8 = Len(minted) + 1
          /\ minted' = Append(minted, m) /\ table'["pii"] = new
      BY <1>2, <1>6, <1>8 DEF Issues
    <2>2. \A k \in 1..Len(es) : es[k].tok.rand8 # e.tok.rand8
      <3>1. Len(minted) \in Nat
        BY <1>3
      <3> QED
        BY <1>3, <2>1, <3>1
    <2>3. Ordered(new, UseOf(e, since))
      BY <1>2, <1>3, <1>4, <2>2, IssuedOrder
    <2>4. Distinct(new)
      <3>1. \A s \in Side : Distinct(table'[s])
        BY DEF VaultInv
      <3>2. Distinct(table'["pii"])
        BY <1>6, <3>1
      <3> QED
        BY <2>1, <3>2
    <2>5. m.entry = e
      OBVIOUS
    <2>6. Dropped(new, Append(minted, m), UseOf(e, since))
      <3> HIDE DEF es, m
      <3> QED
        BY <1>2, <1>3, <1>4, <2>1, <2>4, <2>5, IssuedDrops
    <2> QED
      BY <1>2, <1>5, <2>1, <2>3, <2>6
  <1> QED
    BY <1>2, <1>7, <1>8

(* A line renews the entries it names, and the history says so.             *)
LEMMA ReceiveUse ==
    ASSUME TypeInv, VaultInv, UseInv, NEW l \in Lines
    PROVE  LET new == Renewed(table["pii"], l)
               now == [n \in 1..MaxMints |-> UsedSince(n, l)]
           IN  /\ \A n \in 1..MaxMints : IsFiniteSet(now[n])
               /\ Ordered(new, now)
               /\ Dropped(new, minted, now)
  <1> DEFINE new == Renewed(table["pii"], l)
             now == [n \in 1..MaxMints |-> UsedSince(n, l)]
             es == table["pii"]
             L == Len(l)
             N == Len(es)
             V == {es[i].val : i \in 1..N}
  <1>0. new = Renewed(es, l) /\ \A n \in 1..MaxMints : now[n] = UsedSince(n, l)
    OBVIOUS
  <1> HIDE DEF new, now
  <1>1. /\ es \in Seq(Entry) /\ N \in Nat /\ DOMAIN es = 1..N
        /\ Distinct(es) /\ OwnDigits(es)
        /\ \A i \in 1..N : \E n \in 1..Len(minted) :
              minted[n].entry = es[i] /\ es[i].tok.rand8 = n
        /\ minted \in Seq(Mint) /\ Len(minted) <= MaxMints
        /\ \A n \in 1..Len(minted) : minted[n].entry.tok.rand8 = n
    <2>1. es \in Seq(Entry)
      BY RequestSide
    <2>2. N \in Nat /\ DOMAIN es = 1..N
      BY <2>1
    <2> QED
      BY <2>1, <2>2, RequestSide
  <1>2. /\ \A n \in 1..MaxMints : IsFiniteSet(since[n])
        /\ Ordered(es, since) /\ Dropped(es, minted, since)
    BY DEF UseInv
  <1>3. L \in Nat /\ DOMAIN l = 1..L
    BY LinesAre
  <1>4. Shuffled(es, new) /\ InOrder(es, l, L, new)
    BY <1>1, <1>3, <1>0, RenewedIs
  <1>5. ToSet(es) = {es[i] : i \in 1..N}
    BY <1>1 DEF ToSet
  (* What a registration's history becomes.                                  *)
  <1>6. ASSUME NEW n \in 1..MaxMints
        PROVE  /\ now[n] \subseteq since[n] \cup V
               /\ (\A i \in 1..N : es[i].tok.rand8 = n => ~Named(l, es[i].tok))
                     => since[n] \subseteq now[n]
    <2>1. now[n] = UsedSince(n, l)
      BY <1>0
    <2>2. now[n] \subseteq since[n] \cup V
      <3> SUFFICES ASSUME NEW v \in now[n], v \notin since[n] PROVE v \in V
        OBVIOUS
      <3>1. PICK x \in ToSet(es) : v = x.val
        BY <2>1 DEF UsedSince
      <3> QED
        BY <1>5, <3>1
    <2>3. ASSUME \A i \in 1..N : es[i].tok.rand8 = n => ~Named(l, es[i].tok)
          PROVE  since[n] \subseteq now[n]
      <3>1. ~ \E x \in ToSet(es) : x.tok.rand8 = n /\ Named(l, x.tok)
        BY <1>5, <2>3
      <3> QED
        BY <2>1, <3>1 DEF UsedSince
    <2> QED
      BY <2>2, <2>3
  (* A live entry named after the last time its senior was.                  *)
  <1>7. ASSUME NEW a \in 1..N, NEW b \in 1..N, NamedAfter(l, es[b].tok, es[a].tok)
        PROVE  es[b].val \in now[es[a].tok.rand8]
    <2> DEFINE n == es[a].tok.rand8
    <2>1. es[a] \in Entry /\ n \in 1..MaxMints
      BY <1>1, DigitsAre
    <2>2. now[n] = UsedSince(n, l)
      BY <1>0, <2>1
    <2>3. ASSUME NEW x \in ToSet(es), x.tok.rand8 = n PROVE x = es[a]
      <3>1. PICK i \in 1..N : x = es[i]
        BY <1>5
      <3>2. i = a
        BY <1>1, <2>3, <3>1 DEF OwnDigits
      <3> QED
        BY <3>1, <3>2
    <2>4. es[b] \in ToSet(es) /\ Named(l, es[b].tok)
      BY <1>5, <1>7 DEF NamedAfter, Named
    <2> HIDE DEF n
    <2>5. \A x \in ToSet(es) : x.tok.rand8 = n => NamedAfter(l, es[b].tok, x.tok)
      BY <1>7, <2>3
    <2>6. es[b].val \in UsedSince(n, l)
      BY <2>4, <2>5 DEF UsedSince
    <2> QED
      BY <2>2, <2>6 DEF n
  <1>8. \A n \in 1..MaxMints : IsFiniteSet(now[n])
    <2>1. IsFiniteSet(V)
      <3>1. [i \in 1..N |-> es[i].val] \in Surjection(1..N, V)
        BY DEF Surjection
      <3>2. IsFiniteSet(1..N)
        BY <1>1, FS_Interval
      <3> HIDE DEF V
      <3> QED
        BY <3>1, <3>2, FS_Surjection
    <2> HIDE DEF V
    <2>2. ASSUME NEW n \in 1..MaxMints PROVE IsFiniteSet(now[n])
      <3>1. IsFiniteSet(since[n] \cup V)
        BY <1>2, <2>1, FS_Union
      <3> QED
        BY <1>6, <3>1, FS_Subset
    <2> QED
      BY <2>2
  <1> HIDE DEF V
  <1>9. Ordered(new, now)
    <2> SUFFICES ASSUME NEW i \in 1..N, NEW j \in 1..N, i < j
                 PROVE  new[j].val \in now[new[i].tok.rand8]
      BY <1>4 DEF Ordered, Shuffled
    <2>1. PICK a \in 1..N : new[i] = es[a]
      BY <1>4 DEF Shuffled
    <2>2. PICK b \in 1..N : new[j] = es[b]
      BY <1>4 DEF Shuffled
    <2>3. CASE NamedAfterTo(l, L, new[j].tok, new[i].tok)
      <3>1. NamedAfter(l, es[b].tok, es[a].tok)
        BY <1>3, <2>1, <2>2, <2>3 DEF NamedAfter, NamedAfterTo
      <3> QED
        BY <1>7, <2>1, <2>2, <3>1
    <2>4. CASE /\ ~NamedTo(l, L, new[i].tok)
               /\ \E c, d \in 1..N : c < d /\ new[i] = es[c] /\ new[j] = es[d]
      <3>1. PICK c \in 1..N, d \in 1..N : c < d /\ new[i] = es[c] /\ new[j] = es[d]
        BY <2>4
      <3>2. es[d].val \in since[es[c].tok.rand8]
        BY <1>2, <3>1 DEF Ordered
      <3>3. es[c].tok.rand8 \in 1..MaxMints
        BY <1>1, DigitsAre
      <3>4. ~Named(l, es[c].tok)
        BY <1>3, <2>4, <3>1 DEF Named, NamedTo
      <3>5. \A k \in 1..N : es[k].tok.rand8 = es[c].tok.rand8 => ~Named(l, es[k].tok)
        BY <1>1, <3>4 DEF OwnDigits
      <3> QED
        BY <1>6, <3>1, <3>2, <3>3, <3>5
    <2> QED
      BY <1>4, <2>3, <2>4 DEF InOrder
  <1>10. Dropped(new, minted, now)
    <2>1. \A n \in 1..MaxMints :
              (\A i \in 1..Len(es) : es[i].tok.rand8 # n) => since[n] \subseteq now[n]
      BY <1>6
    <2>2. \A i \in 1..Len(es) : \E n \in 1..Len(minted) : minted[n].entry = es[i]
      BY <1>1
    <2>3. PICK T \in Seq(Entry) : T = es
      BY <1>1
    <2>4. PICK all \in Seq(Mint) : all = minted
      BY <1>1
    <2>5. PICK used : used = since
      OBVIOUS
    <2>6. /\ Len(all) <= MaxMints /\ Shuffled(T, new) /\ Dropped(T, all, used)
          /\ \A n \in 1..Len(all) : all[n].entry.tok.rand8 = n
          /\ \A i \in 1..Len(T) : \E n \in 1..Len(all) : all[n].entry = T[i]
          /\ \A n \in 1..MaxMints :
                (\A i \in 1..Len(T) : T[i].tok.rand8 # n) => used[n] \subseteq now[n]
      BY <1>1, <1>2, <1>4, <2>1, <2>2, <2>3, <2>4, <2>5
    <2>7. Dropped(new, all, now)
      BY <1>8, <2>6, ShuffledDrops
    <2> QED
      BY <2>4, <2>7
  <1> QED
    BY <1>8, <1>9, <1>10 DEF new, now

(* Every step keeps the order of use.                                       *)
LEMMA UseStep ==
    TypeInv /\ VaultInv /\ LineInv /\ UseInv /\ TypeInv' /\ VaultInv' /\ [Next]_vars
        => UseInv'
  <1> SUFFICES ASSUME TypeInv, VaultInv, LineInv, UseInv, TypeInv', VaultInv', [Next]_vars
               PROVE  UseInv'
    OBVIOUS
  <1>1. /\ \A n \in 1..MaxMints : IsFiniteSet(since[n])
        /\ Ordered(table["pii"], since) /\ Dropped(table["pii"], minted, since)
        /\ \A q \in Request : \A e \in sent[q] : Issued(e, "pii")
    BY DEF UseInv
  <1>2. \A x : Issued(x, "pii") => Issued(x, "pii")'
    BY IssuedStays
  <1>3. sent \in [Request -> SUBSET Entry]
    BY DEF TypeInv, TypeOK
  <1>4. ASSUME /\ \A n \in 1..MaxMints : IsFiniteSet(since'[n])
               /\ Ordered(table'["pii"], since')
               /\ Dropped(table'["pii"], minted', since'),
               \A q \in Request : \A e \in sent'[q] : Issued(e, "pii")'
        PROVE  UseInv'
    BY <1>4 DEF UseInv, Ordered, Dropped
  <1>5. UNCHANGED sent => \A q \in Request : \A e \in sent'[q] : Issued(e, "pii")'
    BY <1>1, <1>2
  <1>6. CASE UNCHANGED vaultVars /\ UNCHANGED sent
    BY <1>1, <1>4, <1>5, <1>6 DEF vaultVars
  <1>7. ASSUME NEW q \in Request, End(q) PROVE UseInv'
    <2>1. UNCHANGED vaultVars /\ sent' = [sent EXCEPT ![q] = {}]
      BY <1>7 DEF End
    <2>2. \A p \in Request : \A e \in sent'[p] : e \in sent[p]
      BY <1>3, <2>1
    <2>3. \A p \in Request : \A e \in sent'[p] : Issued(e, "pii")'
      BY <1>1, <1>2, <2>2
    <2> QED
      BY <1>1, <1>4, <2>1, <2>3 DEF vaultVars
  <1>8. ASSUME NEW q \in Request, RedactLeaf(q) PROVE UseInv'
    <2>1. /\ leaves[q] \in Seq(Value) /\ leaves[q] # <<>>
          /\ Register(Head(leaves[q]), "pii")
          /\ sent' = [sent EXCEPT ![q] = @ \cup {EntryFor(Head(leaves[q]), "pii")}]
      BY <1>8 DEF RedactLeaf, LineInv, TypeInv, TypeOK
    <2>2. PICK v \in Value : v = Head(leaves[q])
      BY <2>1
    <2>3. PICK e : e = EntryFor(v, "pii") /\ Issued(e, "pii")'
      BY <2>1, <2>2, RegisterVault, SidesAre
    <2>4. \A p \in Request : \A x \in sent'[p] : x \in sent[p] \/ x = e
      BY <1>3, <2>1, <2>2, <2>3
    <2>5. \A p \in Request : \A x \in sent'[p] : Issued(x, "pii")'
      BY <1>1, <1>2, <2>3, <2>4
    <2> QED
      BY <1>4, <2>1, <2>2, <2>5, RegisterUse
  <1>9. ASSUME NEW q \in Request, NEW v \in Value, RegisterFound(q, v) PROVE UseInv'
    <2>1. Register(v, "resp") /\ UNCHANGED sent
      BY <1>9 DEF RegisterFound
    <2>2. PICK e : e = EntryFor(v, "resp")
      OBVIOUS
    <2>3. /\ Renews(v, "resp", e) \/ Issues(v, "resp", e)
          /\ UNCHANGED since
      BY <2>1, <2>2, Registers, SidesAre
    <2>4. table'["pii"] = table["pii"]
      BY <2>3, SidesAre DEF Renews, Issues, TypeInv
    <2>5. Dropped(table["pii"], minted', since)
      <3>1. CASE UNCHANGED minted
        BY <1>1, <3>1
      <3>2. CASE minted' = Append(minted, [entry |-> e, side |-> "resp"])
        <4>1. /\ Len(minted') = Len(minted) + 1 /\ Len(minted) \in Nat
              /\ minted'[Len(minted) + 1] = [entry |-> e, side |-> "resp"]
              /\ \A n \in 1..Len(minted) : minted'[n] = minted[n]
          BY <3>2 DEF TypeInv
        <4>2. \A n \in 1..Len(minted') : minted'[n].side = "pii" =>
                  n \in 1..Len(minted) /\ minted'[n] = minted[n]
          BY <4>1
        <4> QED
          BY <1>1, <4>2 DEF Dropped
      <3> QED
        BY <2>3, <3>1, <3>2 DEF Renews, Issues
    <2> QED
      BY <1>1, <1>4, <1>5, <2>1, <2>3, <2>4, <2>5
  <1>10. ASSUME NEW q \in Request, NEW l \in Lines, ReceiveLine(q, l) PROVE UseInv'
    <2>1. /\ table' = [s \in Side |-> Renewed(table[s], l)]
          /\ since' = [n \in 1..MaxMints |-> UsedSince(n, l)]
          /\ UNCHANGED <<minted, sent>>
      BY <1>10 DEF ReceiveLine
    <2>2. table'["pii"] = Renewed(table["pii"], l)
      BY <2>1, SidesAre
    <2>3. PICK new : new = table'["pii"]
      OBVIOUS
    <2>4. PICK now : now = since'
      OBVIOUS
    <2>5. /\ \A n \in 1..MaxMints : IsFiniteSet(now[n])
          /\ Ordered(new, now) /\ Dropped(new, minted, now)
      BY <2>1, <2>2, <2>3, <2>4, ReceiveUse
    <2> QED
      BY <1>4, <1>5, <2>1, <2>3, <2>4, <2>5
  <1> QED
    BY <1>6, <1>7, <1>8, <1>9, <1>10 DEF Next, Arrive, WriteLine, vars

----------------------------------------------------------------------------
(* The theorems                                                             *)

(* A proxy that just started.                                               *)
LEMMA InitInv == Init => PiiInv
  <1> SUFFICES ASSUME Init PROVE PiiInv
    OBVIOUS
  <1>1. /\ table = [s \in Side |-> <<>>] /\ minted = <<>> /\ cache = {}
        /\ written = Nothing /\ since = [n \in 1..MaxMints |-> {}]
        /\ phase = [q \in Request |-> "idle"] /\ sent = [q \in Request |-> {}]
    BY DEF Init
  <1>2. /\ \A s \in Side : table[s] = <<>>
        /\ Len(minted) = 0 /\ 1..0 = {} /\ Len(<<>>) = 0
    BY <1>1
  <1>3. TypeInv
    <2>1. VaultTypes
      BY <1>1, <1>2, Bounds DEF Init, VaultTypes
    <2>2. RequestTypes
      BY Bounds, Blanks DEF Init, RequestTypes
    <2>3. LineTypes
      BY Bounds, Blanks DEF Init, LineTypes
    <2> QED
      BY <2>1, <2>2, <2>3, TypeParts
  <1>4. VaultInv
    <2>1. LiveIndicesDistinct
      BY <1>2 DEF LiveIndicesDistinct
    <2> QED
      BY <1>2, <2>1 DEF VaultInv, Distinct
  <1>5. LineInv
    <2>1. MaskedUnlessRestored /\ EchoIsFaithful
      BY <1>1 DEF MaskedUnlessRestored, EchoIsFaithful, Nothing
    <2> QED
      BY <1>1, <2>1 DEF LineInv
  <1>6. UseInv
    <2>1. Ordered(table["pii"], since) /\ Dropped(table["pii"], minted, since)
      BY <1>2, SidesAre DEF Ordered, Dropped
    <2>2. \A n \in 1..MaxMints : IsFiniteSet(since[n])
      BY <1>1, FS_EmptySet
    <2> QED
      BY <1>1, <2>1, <2>2 DEF UseInv
  <1> QED
    BY <1>3, <1>4, <1>5, <1>6 DEF PiiInv

(* Every step, of any request, keeps the invariant.                         *)
LEMMA StepInv == PiiInv /\ [Next]_vars => PiiInv'
  BY TypeStep, VaultStep, LineStep, UseStep DEF PiiInv

(* The invariant holds in every behaviour of the vault and its streams.     *)
THEOREM PiiInvariant == Spec => []PiiInv
  BY InitInv, StepInv, PTL DEF Spec

(* Neither side of the vault outgrows PII_MAX_ENTRIES, an index is always   *)
(* free for the next registration, and every variable keeps its type.       *)
THEOREM PiiTypeCorrect == Spec => []TypeOK
  <1>1. PiiInv => TypeOK
    BY DEF PiiInv, TypeInv
  <1> QED
    BY <1>1, PiiInvariant, PTL

(* GlobalPiiTokens never has two live tokens with one index, on either      *)
(* side, for any number of entries and registrations.                       *)
THEOREM LiveIndicesStayDistinct == Spec => []LiveIndicesDistinct
  <1>1. PiiInv => LiveIndicesDistinct
    BY DEF PiiInv, VaultInv
  <1> QED
    BY <1>1, PiiInvariant, PTL

(* What _pii_response_process writes to a client holds a value in the clear *)
(* only where the provider echoed a token, also when another stream's       *)
(* result is taken from the cache.                                          *)
THEOREM ProviderValuesAreMasked == Spec => []MaskedUnlessRestored
  <1>1. PiiInv => MaskedUnlessRestored
    BY DEF PiiInv, LineInv
  <1> QED
    BY <1>1, PiiInvariant, PTL

(* What stands where a token stood is that token or the value it was issued *)
(* for on the request side.                                                 *)
THEOREM EchoesAreFaithful == Spec => []EchoIsFaithful
  <1>1. PiiInv => EchoIsFaithful
    BY DEF PiiInv, LineInv
  <1> QED
    BY <1>1, PiiInvariant, PTL

(* A token sent out in a running request can be put back unless MaxEntries  *)
(* other values were used after it was last used.                           *)
THEOREM StreamsKeepTheirTokens == Spec => []StreamKeepsItsTokens
  <1>1. ASSUME PiiInv PROVE StreamKeepsItsTokens
    <2> SUFFICES ASSUME NEW q \in Request, NEW e \in sent[q]
                 PROVE  \/ e \in ToSet(table["pii"])
                        \/ Cardinality(since[e.tok.rand8] \ {e.val}) >= MaxEntries
      BY DEF StreamKeepsItsTokens
    <2>1. TypeInv /\ VaultInv /\ UseInv
      BY <1>1 DEF PiiInv
    <2>2. PICK n \in 1..Len(minted) : minted[n] = [entry |-> e, side |-> "pii"]
      BY <2>1 DEF UseInv, Issued
    <2>3. minted[n].entry = e /\ minted[n].side = "pii" /\ minted[n].entry.tok.rand8 = n
      BY <2>1, <2>2 DEF VaultInv
    <2>4. \/ \E i \in 1..Len(table["pii"]) : table["pii"][i] = e
          \/ Cardinality(since[n] \ {e.val}) >= MaxEntries
      BY <2>1, <2>3 DEF UseInv, Dropped
    <2>5. DOMAIN table["pii"] = 1..Len(table["pii"])
      BY <2>1, RequestSide
    <2> QED
      BY <2>3, <2>4, <2>5 DEF ToSet
  <1> QED
    BY <1>1, PiiInvariant, PTL

----------------------------------------------------------------------------
(* The vault keeps the promise of TokenLedger                               *)

(* The pairs, by their place in the lists.                                  *)
LiveListed ==
    \A p : p \in LivePairs <=> \E i \in 1..Len(table["pii"]) : p = Pair(table["pii"][i])
IssuedListed ==
    \A p : p \in IssuedPairs <=> \E n \in 1..Len(minted) : p = Pair(minted[n].entry)

(* What a request holds are pairs of tokens and values.                     *)
HeldTyped == \A q \in Request : HeldPairs(q) \in SUBSET (Token \X Value)

(* All three follow from the types.                                         *)
LEMMA PairsAre == TypeInv => LiveListed /\ IssuedListed /\ HeldTyped
  <1> SUFFICES ASSUME TypeInv PROVE LiveListed /\ IssuedListed /\ HeldTyped
    OBVIOUS
  <1>1. DOMAIN table["pii"] = 1..Len(table["pii"]) /\ DOMAIN minted = 1..Len(minted)
    BY SidesAre DEF TypeInv
  <1>2. LiveListed /\ IssuedListed
    BY <1>1 DEF LivePairs, IssuedPairs, LiveListed, IssuedListed, ToSet
  <1>3. HeldTyped
    BY DEF TypeInv, TypeOK, HeldPairs, HeldTyped, Pair, Entry
  <1> QED
    BY <1>2, <1>3

(* And after a step, from the types there.                                  *)
LEMMA PairsAreNext == TypeInv' => LiveListed' /\ IssuedListed' /\ HeldTyped'
  BY PairsAre, PTL

(* A step that issues nothing, revives nothing and lets no request take a   *)
(* token that is not live is a step of the ledger.                          *)
LEMMA LedgerLoses ==
    ASSUME TypeInv', UNCHANGED IssuedPairs, LivePairs' \subseteq LivePairs,
           \A q \in Request : HeldPairs(q)' \subseteq HeldPairs(q) \cup LivePairs'
    PROVE  Ledger!Next
  <1>1. \A q \in Request : HeldPairs(q)' \in SUBSET (Token \X Value)
    BY PairsAreNext DEF HeldTyped
  <1> HIDE DEF HeldPairs, LivePairs, IssuedPairs
  <1> QED
    BY <1>1 DEF Ledger!Next, Ledger!Lose, Ledger!Take

(* So is one that issues e with a token that was never issued.              *)
LEMMA LedgerIssues ==
    ASSUME TypeInv', NEW e \in Entry, \A p \in IssuedPairs : p[1] # e.tok,
           IssuedPairs' = IssuedPairs \cup {Pair(e)},
           LivePairs' \subseteq LivePairs \cup {Pair(e)},
           \A q \in Request : HeldPairs(q)' \subseteq HeldPairs(q) \cup LivePairs'
    PROVE  Ledger!Next
  <1>1. \A q \in Request : HeldPairs(q)' \in SUBSET (Token \X Value)
    BY PairsAreNext DEF HeldTyped
  <1>2. e.tok \in Token /\ e.val \in Value /\ Pair(e) = <<e.tok, e.val>>
    BY DEF Entry, Pair
  <1> HIDE DEF HeldPairs, LivePairs, IssuedPairs, Pair
  <1>3. Ledger!Issue(e.tok, e.val)
    BY <1>1, <1>2 DEF Ledger!Issue, Ledger!Take
  <1> QED
    BY <1>2, <1>3 DEF Ledger!Next

(* A request side in another order has the same tokens live.                *)
LEMMA ShuffledLive ==
    ASSUME TypeInv, TypeInv', Shuffled(table["pii"], table'["pii"])
    PROVE  LivePairs' = LivePairs
  <1>1. \A p : p \in LivePairs <=>
            \E i \in 1..Len(table["pii"]) : p = Pair(table["pii"][i])
    BY PairsAre DEF LiveListed
  <1>2. \A p : p \in LivePairs' <=>
            \E i \in 1..Len(table'["pii"]) : p = Pair(table'["pii"][i])
    BY PairsAreNext DEF LiveListed
  <1>3. /\ Len(table'["pii"]) = Len(table["pii"])
        /\ \A i \in 1..Len(table["pii"]) :
              \E k \in 1..Len(table["pii"]) : table'["pii"][i] = table["pii"][k]
        /\ \A k \in 1..Len(table["pii"]) :
              \E i \in 1..Len(table["pii"]) : table'["pii"][i] = table["pii"][k]
    BY DEF Shuffled
  <1> HIDE DEF LivePairs, Pair
  <1>4. \A p : p \in LivePairs' => p \in LivePairs
    BY <1>1, <1>2, <1>3
  <1>5. \A p : p \in LivePairs => p \in LivePairs'
    BY <1>1, <1>2, <1>3
  <1> QED
    BY <1>4, <1>5

(* The side after an issue: what it held, at most, and the new entry.       *)
LEMMA EvictedLive ==
    ASSUME NEW es \in Seq(Entry), Len(es) <= MaxEntries, NEW e \in Entry
    PROVE  LET new == Evicted(Append(es, e))
           IN  /\ \E i \in 1..Len(new) : new[i] = e
               /\ \A i \in 1..Len(new) :
                     new[i] = e \/ \E k \in 1..Len(es) : new[i] = es[k]
  <1> DEFINE new == Evicted(Append(es, e))
             d == IF Len(es) = MaxEntries THEN 1 ELSE 0
  <1>1. /\ Len(new) \in Nat \ {0}
        /\ \A i \in 1..Len(new) : i # Len(new) => i + d \in 1..Len(es)
                                                  /\ new[i] = es[i + d]
        /\ new[Len(new)] = e
    BY EvictedIs
  <1> HIDE DEF new, d
  <1>2. Len(new) \in 1..Len(new)
    BY <1>1
  <1> QED
    BY <1>1, <1>2 DEF new

(* A registration is a step of the ledger when a request takes at most the  *)
(* entry it answers with, and that one only on the request side: the entry  *)
(* is live when it is taken, and the digits it drew were never drawn.       *)
LEMMA RegisterLedger ==
    ASSUME TypeInv, VaultInv, TypeInv', NEW v \in Value, NEW s \in Side, Register(v, s),
           NEW e, e = EntryFor(v, s),
           \A q \in Request : \A x \in sent'[q] : x \in sent[q] \/ (s = "pii" /\ x = e)
    PROVE  Ledger!Next
  <1>1. e \in Entry /\ (Renews(v, s, e) \/ Issues(v, s, e))
    BY Registers
  <1>2. \A p : p \in LivePairs <=>
            \E i \in 1..Len(table["pii"]) : p = Pair(table["pii"][i])
    BY PairsAre DEF LiveListed
  <1>3. \A p : p \in LivePairs' <=>
            \E i \in 1..Len(table'["pii"]) : p = Pair(table'["pii"][i])
    BY PairsAreNext DEF LiveListed
  <1>4. ASSUME s = "pii" => Pair(e) \in LivePairs'
        PROVE  \A q \in Request : HeldPairs(q)' \subseteq HeldPairs(q) \cup LivePairs'
    <2> HIDE DEF LivePairs
    <2> QED
      BY <1>4 DEF HeldPairs
  <1>5. CASE Renews(v, s, e)
    <2>1. Shuffled(table["pii"], table'["pii"]) /\ UNCHANGED minted
      BY <1>5, RenewedVault, SidesAre DEF Renews
    <2>2. LivePairs' = LivePairs
      BY <2>1, ShuffledLive
    <2>3. s = "pii" => Pair(e) \in LivePairs'
      BY <1>2, <1>5, <2>2 DEF Renews
    <2>4. UNCHANGED IssuedPairs
      BY <2>1 DEF IssuedPairs
    <2> HIDE DEF LivePairs, IssuedPairs, HeldPairs, Pair
    <2> QED
      BY <1>4, <2>2, <2>3, <2>4, LedgerLoses
  <1>6. CASE Issues(v, s, e)
    <2>1. /\ minted' = Append(minted, [entry |-> e, side |-> s])
          /\ table' = [table EXCEPT ![s] = Evicted(Append(@, e))]
          /\ e.tok.rand8 = Len(minted) + 1
      BY <1>6 DEF Issues
    <2>2. \A p : p \in IssuedPairs <=>
              \E n \in 1..Len(minted) : p = Pair(minted[n].entry)
      BY PairsAre DEF IssuedListed
    <2>3. \A p : p \in IssuedPairs' <=>
              \E n \in 1..Len(minted') : p = Pair(minted'[n].entry)
      BY PairsAreNext DEF IssuedListed
    <2>4. /\ Len(minted) \in Nat /\ Len(minted') = Len(minted) + 1
          /\ minted'[Len(minted) + 1].entry = e
          /\ \A n \in 1..Len(minted) : minted'[n] = minted[n]
      BY <2>1 DEF TypeInv
    <2>5. IssuedPairs' = IssuedPairs \cup {Pair(e)}
      <3>1. \A n : n \in 1..Len(minted') <=> n \in 1..Len(minted) \/ n = Len(minted) + 1
        BY <2>4
      <3> HIDE DEF IssuedPairs, Pair
      <3> QED
        BY <2>2, <2>3, <2>4, <3>1
    <2>6. \A p \in IssuedPairs : p[1] # e.tok
      <3>1. \A n \in 1..Len(minted) : minted[n].entry.tok.rand8 = n /\ n # Len(minted) + 1
        BY <2>4 DEF VaultInv
      <3>2. \A n \in 1..Len(minted) : Pair(minted[n].entry)[1] = minted[n].entry.tok
        BY DEF Pair
      <3> HIDE DEF IssuedPairs, Pair
      <3> QED
        BY <2>1, <2>2, <3>1, <3>2
    <2>7. /\ LivePairs' \subseteq LivePairs \cup {Pair(e)}
          /\ s = "pii" => Pair(e) \in LivePairs'
      <3>1. CASE s = "pii"
        <4> DEFINE new == Evicted(Append(table["pii"], e))
        <4>1. table["pii"] \in Seq(Entry) /\ Len(table["pii"]) <= MaxEntries
          BY SidesAre DEF TypeInv, TypeOK
        <4>2. /\ \E i \in 1..Len(new) : new[i] = e
              /\ \A i \in 1..Len(new) :
                    new[i] = e \/ \E k \in 1..Len(table["pii"]) : new[i] = table["pii"][k]
          BY <1>1, <4>1, EvictedLive
        <4>3. table'["pii"] = new
          BY <2>1, <3>1, SidesAre DEF TypeInv
        <4> HIDE DEF new, LivePairs, Pair
        <4> QED
          BY <1>2, <1>3, <4>2, <4>3
      <3>2. CASE s # "pii"
        <4>1. table'["pii"] = table["pii"]
          BY <2>1, <3>2, SidesAre DEF TypeInv
        <4> QED
          BY <3>2, <4>1 DEF LivePairs
      <3> QED
        BY <3>1, <3>2
    <2> HIDE DEF LivePairs, IssuedPairs, HeldPairs, Pair
    <2> QED
      BY <1>1, <1>4, <2>5, <2>6, <2>7, LedgerIssues
  <1> QED
    BY <1>1, <1>5, <1>6

(* Every step of a request is a step of the ledger.                         *)
LEMMA LedgerStep ==
    ASSUME TypeInv, VaultInv, LineInv, TypeInv', [Next]_vars
    PROVE  Ledger!Next
  <1>1. ASSUME UNCHANGED <<table, minted>>,
               \A q \in Request : sent'[q] \subseteq sent[q]
        PROVE  Ledger!Next
    <2>1. UNCHANGED <<IssuedPairs, LivePairs>>
      BY <1>1 DEF IssuedPairs, LivePairs
    <2>2. \A q \in Request : HeldPairs(q)' \subseteq HeldPairs(q)
      BY <1>1 DEF HeldPairs
    <2> HIDE DEF LivePairs, IssuedPairs, HeldPairs
    <2> QED
      BY <2>1, <2>2, LedgerLoses
  <1>2. ASSUME NEW q \in Request, RedactLeaf(q) PROVE Ledger!Next
    <2>1. /\ leaves[q] \in Seq(Value) /\ leaves[q] # <<>>
          /\ Register(Head(leaves[q]), "pii")
          /\ sent' = [sent EXCEPT ![q] = @ \cup {EntryFor(Head(leaves[q]), "pii")}]
      BY <1>2 DEF RedactLeaf, LineInv, TypeInv, TypeOK
    <2>2. PICK v \in Value : v = Head(leaves[q])
      BY <2>1
    <2>3. PICK e : e = EntryFor(v, "pii")
      OBVIOUS
    <2>4. \A p \in Request : \A x \in sent'[p] : x \in sent[p] \/ x = e
      BY <2>1, <2>2, <2>3 DEF TypeInv, TypeOK
    <2> QED
      BY <2>1, <2>2, <2>3, <2>4, SidesAre, RegisterLedger
  <1>3. ASSUME NEW q \in Request, NEW v \in Value, RegisterFound(q, v) PROVE Ledger!Next
    <2>1. Register(v, "resp") /\ UNCHANGED sent
      BY <1>3 DEF RegisterFound
    <2>2. PICK e : e = EntryFor(v, "resp")
      OBVIOUS
    <2> QED
      BY <2>1, <2>2, SidesAre, RegisterLedger
  <1>4. ASSUME NEW q \in Request, NEW l \in Lines, ReceiveLine(q, l) PROVE Ledger!Next
    <2>1. /\ table' = [s \in Side |-> Renewed(table[s], l)]
          /\ UNCHANGED <<minted, sent>>
      BY <1>4 DEF ReceiveLine
    <2>2. table["pii"] \in Seq(Entry) /\ Distinct(table["pii"])
      BY SidesAre DEF TypeInv, VaultInv
    <2>3. Len(l) \in Nat /\ DOMAIN l = 1..Len(l)
      BY LinesAre
    <2>4. table'["pii"] = Renewed(table["pii"], l)
      BY <2>1, SidesAre
    <2>5. Shuffled(table["pii"], table'["pii"])
      BY <2>2, <2>3, <2>4, RenewedIs
    <2>6. LivePairs' = LivePairs
      BY <2>5, ShuffledLive
    <2>7. UNCHANGED IssuedPairs /\ \A p \in Request : HeldPairs(p)' = HeldPairs(p)
      BY <2>1 DEF IssuedPairs, HeldPairs
    <2> HIDE DEF LivePairs, IssuedPairs, HeldPairs
    <2> QED
      BY <2>6, <2>7, LedgerLoses
  <1>5. ASSUME NEW q \in Request, End(q) PROVE Ledger!Next
    <2>1. UNCHANGED <<table, minted>> /\ sent' = [sent EXCEPT ![q] = {}]
      BY <1>5 DEF End, vaultVars
    <2>2. \A p \in Request : sent'[p] \subseteq sent[p]
      BY <2>1 DEF TypeInv, TypeOK
    <2> QED
      BY <1>1, <2>1, <2>2
  <1>6. CASE UNCHANGED <<table, minted, sent>>
    BY <1>1, <1>6
  <1> QED
    BY <1>2, <1>3, <1>4, <1>5, <1>6 DEF Next, Arrive, WriteLine, vars, vaultVars

(* Every behaviour of GlobalPiiTokens and its streams is one of the ledger: *)
(* a token is issued once for one value although indices are given again,   *)
(* an evicted token never comes back, and a body holds only tokens that     *)
(* were live when it was redacted.                                          *)
THEOREM PiiKeepsTheLedger == Spec => ImplementsLedger
  <1>1. Init => Ledger!Init
    <2> SUFFICES ASSUME Init PROVE Ledger!Init
      OBVIOUS
    <2>1. table["pii"] = <<>> /\ minted = <<>> /\ sent = [q \in Request |-> {}]
      BY SidesAre DEF Init
    <2>2. LivePairs = {} /\ IssuedPairs = {} /\ \A q \in Request : HeldPairs(q) = {}
      BY <2>1 DEF LivePairs, IssuedPairs, HeldPairs, ToSet
    <2> HIDE DEF LivePairs, IssuedPairs, HeldPairs
    <2> QED
      BY <2>2 DEF Ledger!Init
  <1>2. PiiInv /\ PiiInv' /\ [Next]_vars
           => [Ledger!Next]_<<IssuedPairs, LivePairs, [q \in Request |-> HeldPairs(q)]>>
    BY LedgerStep DEF PiiInv
  <1> QED
    BY <1>1, <1>2, PiiInvariant, PTL DEF Spec, ImplementsLedger, Ledger!Spec

===============================================================================
