-------------------------- MODULE LlmStreamProofs --------------------------
(***************************************************************************)
(* Proofs about one LLM request, for answers of every length and for every *)
(* size of the line buffer.                                                *)
(***************************************************************************)
EXTENDS LlmStream, FiniteSetTheorems, TLAPS

----------------------------------------------------------------------------
(* The inductive invariant                                                  *)

ItemKinds == TextKinds \cup {"call", "full", "block", "other", "finish", "done", "failed",
                             "stop", "error"}
Item      == ItemKinds \X Nat

(* The types of the variables, with texts and answers of any length.        *)
TypeInv ==
    /\ pc \in {"connect", "stream", "eof", "tail", "closed"}
    /\ chain \in Chains
    /\ text \in Seq(Symbols)
    /\ parts \in Nat /\ start \in Nat /\ start <= parts
    /\ ended \in {"no", "finish", "done"}
    /\ buf \in Seq(Symbols \X Nat)
    /\ args \in Seq(Nat)
    /\ hold \in Seq(Item)
    /\ out \in Seq(Item)
    /\ {ok, dialog, audit, calling, holding, audited, blocked, seenEnd, doneSent, gone}
           \subseteq BOOLEAN

(* q is the text tx from atom lo + 1 on.                                    *)
Piece(q, tx, lo) ==
    /\ lo + Len(q) <= Len(tx)
    /\ \A k \in DOMAIN q : q[k] = <<tx[lo + k], lo + k>>

(* The text among the items comes from atoms lo + 1 to hi, in order and     *)
(* without half a token.                                                    *)
Spell(items, lo, hi) ==
    /\ \A k \in TextAt(items) : items[k][1] # "a" /\ items[k][2] \in (lo + 1)..hi
    /\ \A k, j \in TextAt(items) : j < k => items[j][2] < items[k][2]

(* Every word and line end among the atoms lo + 1 to hi is there.           *)
Covers(items, tx, lo, hi) ==
    \A i \in (lo + 1)..hi :
        tx[i] \in {"w", "n"} => \E j \in TextAt(items) : items[j][2] = i

(* The number of atoms that have left the line buffer.                      *)
Flushed == Len(text) - Len(buf)

(* The buffer is the end of the text, and what came before it was written.  *)
TextInv ==
    /\ Piece(buf, text, Flushed)
    /\ Flushed \in Nat
    /\ Spell(out, 0, Flushed)
    /\ ~gone => Covers(out, text, 0, Flushed)

(* Nothing was received and nothing sent before the answer begins.          *)
FreshInv ==
    pc = "connect" \/ (pc = "stream" /\ chain = "whole") =>
        /\ text = <<>> /\ parts = 0 /\ ended = "no" /\ ~seenEnd
        /\ buf = <<>> /\ args = <<>> /\ hold = <<>> /\ ~holding
        /\ out = <<>>

(* What a hold may contain that can still be released.                      *)
Held(item) == item = Other \/ \E k \in DOMAIN args : item = Call(args[k])

(* Has the client been refused a call of this answer.                       *)
Refused == \E k \in DOMAIN out : out[k] = Block

(* Every fragment waits for an audit or passed one.                         *)
Accounted == audit /\ ~Refused => \A n \in 1..parts : n \in Range(args) \cup passed

(* Where a fragment is that no audit has seen.                              *)
CallInv ==
    /\ chain \in Slow => dialog
    /\ chain = "fast" => ~dialog \/ ~audit
    /\ pc = "stream" /\ chain \in Events =>
          /\ ~holding => hold = <<>>
          /\ ended = "no" => Accounted /\ \A k \in DOMAIN hold : Held(hold[k])
    /\ pc = "tail" /\ chain \in Events => \A k \in DOMAIN args : args[k] \in passed
    /\ holding \/ args # <<>> => parts > 0

(* The fast chain has no tokens, and buffers a dialog's text only.          *)
FastInv ==
    chain = "fast" =>
        /\ \A i \in DOMAIN text : text[i] # "a"
        /\ ~dialog => buf = <<>>

(* An answer that is over has nothing left to write: see EndIsHonest.       *)
EndInv ==
    /\ seenEnd => ended # "no"
    /\ chain = "chat" /\ ended = "done" =>
          buf = <<>> /\ (args = <<>> \/ audited) /\ doneSent
    /\ chain \in Events /\ ended = "done" =>
          /\ seenEnd /\ doneSent
          /\ Len(buf) <= 1 /\ \A k \in DOMAIN buf : buf[k][1] = "a"

(* What was written, as long as more may follow: on the slow chains a [DONE] *)
(* is the upstream's, until the proxy's own at the very end, and so are     *)
(* response.failed and the refusal of an empty answer.                      *)
SentInv ==
    \A k \in DOMAIN out :
        /\ out[k] \in Terminals => seenEnd
        /\ pc # "closed" =>
              /\ out[k] = Done /\ chain \in Slow => ended = "done"
              /\ out[k] # Failed
              /\ out[k] = Block => parts > 0

(* The part of the invariant that is about what was written.                *)
OutInv == TextInv /\ OnlyAuditedCalls /\ EndIsHonest /\ SentInv

ControlInv == FreshInv /\ CallInv /\ FastInv /\ EndInv

StreamInv == TypeInv /\ ControlInv /\ OutInv

----------------------------------------------------------------------------
(* The operators                                                            *)

(* The least-number principle, from the well-foundedness of finite sets.    *)
LEMMA LeastNumber ==
    ASSUME NEW T \in SUBSET Nat, T # {}
    PROVE  \E x \in T : \A y \in T : x <= y
<1> DEFINE U == {0..t : t \in T}
<1>1. U \subseteq FiniteSubsetsOf(Nat)
  <2>1. ASSUME NEW t \in T PROVE 0..t \in FiniteSubsetsOf(Nat)
    <3>1. IsFiniteSet(0..t) /\ 0..t \subseteq Nat
      BY FS_Interval
    <3> QED BY <3>1 DEF FiniteSubsetsOf
  <2> QED BY <2>1
<1>2. U # {}
  OBVIOUS
<1>3. PICK u \in U : \A v \in U : ~(<<v, u>> \in StrictSubsetOrdering(Nat))
  BY <1>1, <1>2, FS_StrictSubsetOrderingWellFounded, WFMin
<1>4. PICK x \in T : u = 0..x
  OBVIOUS
<1>5. ASSUME NEW y \in T, ~(x <= y) PROVE FALSE
  <2>1. 0..y \subseteq 0..x /\ 0..y # 0..x
    <3>1. x \in 0..x /\ x \notin 0..y
      BY <1>5
    <3> QED BY <1>5, <3>1
  <2>2. <<0..y, u>> \in StrictSubsetOrdering(Nat)
    BY <1>4, <2>1 DEF StrictSubsetOrdering
  <2> QED BY <1>3, <2>2
<1> QED BY <1>5

(* Min of a set of numbers is its own member.                               *)
LEMMA MinIs ==
    ASSUME NEW T \in SUBSET Nat, T # {}
    PROVE  Min(T) \in T
BY LeastNumber DEF Min

(* Max of a bounded set of numbers is its own member.                       *)
LEMMA MaxIs ==
    ASSUME NEW n \in Nat, NEW T \in SUBSET (0..n), T # {}
    PROVE  Max(T) \in T
<1> DEFINE U == {n - x : x \in T}
<1>1. U \in SUBSET Nat /\ U # {}
  <2>1. \A x \in T : n - x \in Nat
    OBVIOUS
  <2> QED BY <2>1
<1>2. PICK u \in U : \A v \in U : u <= v
  BY <1>1, LeastNumber
<1>3. PICK x \in T : u = n - x
  OBVIOUS
<1>4. \A y \in T : x >= y
  <2> TAKE y \in T
  <2>1. n - y \in U
    OBVIOUS
  <2> QED BY <1>2, <1>3, <2>1
<1> QED BY <1>4 DEF Max

(* A set of numbers can be written as an increasing sequence.               *)
LEMMA IncreasingExists ==
    ASSUME NEW n \in Nat, NEW S \in SUBSET (1..n)
    PROVE  \E f \in [1..Cardinality(S) -> S] :
               \A i, j \in 1..Cardinality(S) : i < j => f[i] < f[j]
<1> DEFINE Listed(X) == \E f \in [1..Cardinality(X) -> X] :
               \A i, j \in 1..Cardinality(X) : i < j => f[i] < f[j]
           T == {m \in Nat : \E X \in SUBSET (1..m) : ~Listed(X)}
<1>1. T = {}
  <2> SUFFICES ASSUME T # {} PROVE FALSE
    OBVIOUS
  <2>1. PICK m \in T : \A y \in T : m <= y
    <3>1. T \in SUBSET Nat
      OBVIOUS
    <3> HIDE DEF T
    <3> QED BY <3>1, LeastNumber
  <2>2. PICK X \in SUBSET (1..m) : ~Listed(X)
    OBVIOUS
  <2>3. m \in Nat
    OBVIOUS
  <2>4. CASE m \notin X
    <3>1. m # 0
      <4> SUFFICES ASSUME m = 0 PROVE FALSE
        OBVIOUS
      <4>1. X = {} /\ Cardinality(X) = 0
        <5>1. X = {}
          OBVIOUS
        <5> QED BY <5>1, FS_EmptySet
      <4> DEFINE f == [i \in 1..0 |-> 1]
      <4>2. f \in [1..Cardinality(X) -> X]
        BY <4>1
      <4>3. \A i, j \in 1..Cardinality(X) : i < j => f[i] < f[j]
        BY <4>1
      <4> QED BY <2>2, <4>2, <4>3
    <3>2. m - 1 \in Nat /\ X \in SUBSET (1..(m - 1))
      BY <2>3, <2>4, <3>1
    <3>3. m - 1 \in T
      BY <2>2, <3>2
    <3>4. ~(m <= m - 1)
      BY <2>3
    <3> HIDE DEF T
    <3> QED BY <2>1, <3>3, <3>4
  <2>5. CASE m \in X
    <3> DEFINE Y == X \ {m}
               c == Cardinality(Y)
    <3>1. m - 1 \in Nat /\ Y \in SUBSET (1..(m - 1))
      BY <2>3, <2>5
    <3>2. Listed(Y)
      <4>1. m - 1 \notin T
        <5>1. ~(m <= m - 1)
          BY <2>3
        <5> HIDE DEF T
        <5> QED BY <2>1, <5>1
      <4> QED BY <3>1, <4>1
    <3>3. PICK g \in [1..c -> Y] : \A i, j \in 1..c : i < j => g[i] < g[j]
      BY <3>2
    <3>4. IsFiniteSet(X)
      <4>1. IsFiniteSet(1..m)
        BY <2>3, FS_Interval
      <4> QED BY <4>1, FS_Subset
    <3>5. c \in Nat /\ Cardinality(X) = c + 1
      <4>1. Cardinality(X) \in Nat /\ Cardinality(Y) = Cardinality(X) - 1 /\ IsFiniteSet(Y)
        BY <2>5, <3>4, FS_RemoveElement, FS_CardinalityType
      <4>2. Cardinality(Y) \in Nat
        BY <4>1, FS_CardinalityType
      <4> HIDE DEF Y
      <4> QED BY <4>1, <4>2
    <3> HIDE DEF c
    <3> DEFINE f == [i \in 1..(c + 1) |-> IF i <= c THEN g[i] ELSE m]
    <3>6. \A i \in 1..c : g[i] \in Y /\ g[i] \in Nat /\ g[i] < m
      <4> TAKE i \in 1..c
      <4>1. g[i] \in Y
        BY <3>3
      <4>2. g[i] \in 1..(m - 1)
        BY <3>1, <4>1
      <4> QED BY <2>3, <4>1, <4>2
    <3>7. f \in [1..Cardinality(X) -> X]
      BY <3>5, <3>6, <2>5
    <3>8. \A i, j \in 1..Cardinality(X) : i < j => f[i] < f[j]
      <4> SUFFICES ASSUME NEW i \in 1..(c + 1), NEW j \in 1..(c + 1), i < j
                   PROVE  f[i] < f[j]
        BY <3>5
      <4>1. CASE j <= c
        BY <3>3, <3>5, <4>1
      <4>2. CASE j = c + 1
        BY <3>5, <3>6, <4>2
      <4> QED BY <3>5, <4>1, <4>2
    <3> HIDE DEF f
    <3> QED BY <2>2, <3>7, <3>8
  <2> QED BY <2>4, <2>5
<1> QED BY <1>1

(* Increasing lists a set of numbers, each once, in their order.            *)
LEMMA IncreasingIs ==
    ASSUME NEW n \in Nat, NEW S \in SUBSET (1..n)
    PROVE  /\ Cardinality(S) \in Nat
           /\ Increasing(S) \in [1..Cardinality(S) -> S]
           /\ \A i, j \in 1..Cardinality(S) : i < j => Increasing(S)[i] < Increasing(S)[j]
           /\ \A x \in S : \E i \in 1..Cardinality(S) : Increasing(S)[i] = x
<1> DEFINE c == Cardinality(S)
           f == Increasing(S)
<1>0. \A x \in S : x \in Nat
  OBVIOUS
<1>1. f \in [1..c -> S] /\ \A i, j \in 1..c : i < j => f[i] < f[j]
  BY IncreasingExists DEF Increasing
<1>2. IsFiniteSet(S)
  <2>1. IsFiniteSet(1..n)
    BY FS_Interval
  <2> QED BY <2>1, FS_Subset
<1>3. c \in Nat
  BY <1>2, FS_CardinalityType
<1> HIDE DEF c, f
<1>4. f \in Injection(1..c, S)
  <2>1. ASSUME NEW i \in 1..c, NEW j \in 1..c, f[i] = f[j] PROVE i = j
    <3>1. f[i] \in Nat /\ f[j] \in Nat
      <4>1. f[i] \in S /\ f[j] \in S
        BY <1>1
      <4> QED BY <1>0, <4>1
    <3>2. ~(i < j) /\ ~(j < i)
      BY <1>1, <2>1, <3>1
    <3> QED BY <1>3, <3>2
  <2> QED BY <1>1, <2>1 DEF Injection, IsInjective
<1>5. f \in Surjection(1..c, S)
  <2>1. Cardinality(1..c) = c
    BY <1>3, FS_Interval
  <2> QED BY <1>2, <1>4, <2>1, FS_Injection DEF c
<1>6. \A x \in S : \E i \in 1..c : f[i] = x
  BY <1>5 DEF Surjection
<1> QED BY <1>1, <1>3, <1>6 DEF c, f

(* The line buffer and what is emitted of it.                               *)
Buffers == Seq(Symbols \X Nat)

(* An element of a buffer is a symbol with its position.                    *)
LEMMA BufferAtom ==
    ASSUME NEW q \in Buffers, NEW i \in DOMAIN q
    PROVE  q[i][1] \in Symbols /\ q[i][2] \in Nat /\ q[i] = <<q[i][1], q[i][2]>>
BY DEF Buffers

(* A buffer cut in two.                                                      *)
LEMMA CutInTwo ==
    ASSUME NEW q \in Buffers, NEW m \in 0..Len(q)
    PROVE  /\ SubSeq(q, 1, m) \in Buffers
           /\ Len(SubSeq(q, 1, m)) = m
           /\ \A k \in 1..m : SubSeq(q, 1, m)[k] = q[k]
           /\ SubSeq(q, m + 1, Len(q)) \in Buffers
           /\ Len(SubSeq(q, m + 1, Len(q))) = Len(q) - m
           /\ \A k \in 1..(Len(q) - m) : SubSeq(q, m + 1, Len(q))[k] = q[m + k]
<1>1. q \in Seq(Symbols \X Nat) /\ Len(q) \in Nat /\ DOMAIN q = 1..Len(q)
  BY DEF Buffers
<1>2. \A k \in 1..Len(q) : q[k] \in Symbols \X Nat
  BY <1>1
<1> DEFINE u == [k \in 1..m |-> q[k]]
           v == [k \in 1..(Len(q) - m) |-> q[m + k]]
<1>3. SubSeq(q, 1, m) = u
  BY <1>1
<1>4. SubSeq(q, m + 1, Len(q)) = v
  BY <1>1
<1>5. u \in Seq(Symbols \X Nat) /\ Len(u) = m /\ \A k \in 1..m : u[k] = q[k]
  BY <1>1, <1>2
<1>6. \A k \in 1..(Len(q) - m) : m + k \in 1..Len(q)
  BY <1>1
<1>7. /\ v \in Seq(Symbols \X Nat) /\ Len(v) = Len(q) - m
      /\ \A k \in 1..(Len(q) - m) : v[k] = q[m + k]
  <2>1. Len(q) - m \in Nat
    BY <1>1
  <2>2. \A k \in 1..(Len(q) - m) : q[m + k] \in Symbols \X Nat
    BY <1>2, <1>6
  <2> DEFINE n == Len(q) - m
  <2>3. v = [k \in 1..n |-> q[m + k]] /\ n \in Nat
    BY <2>1
  <2> HIDE DEF n
  <2>4. v \in Seq(Symbols \X Nat) /\ Len(v) = n
    BY <2>2, <2>3 DEF n
  <2> QED BY <2>3, <2>4 DEF n
<1> HIDE DEF u, v
<1> QED BY <1>3, <1>4, <1>5, <1>7 DEF Buffers

(* What is held back starts inside the buffer or just after it.             *)
LEMMA HoldRange ==
    ASSUME NEW q \in Buffers, NEW valueTail \in BOOLEAN
    PROVE  HoldFrom(q, valueTail) \in 1..(Len(q) + 1)
<1> DEFINE heads == {i \in DOMAIN q : \A j \in i..Len(q) : q[j][1] = "d"}
<1>1. Len(q) \in Nat /\ DOMAIN q = 1..Len(q) /\ (q # <<>> => Len(q) # 0)
  BY DEF Buffers
<1>2. heads # {} => Min(heads) \in heads
  <2>1. heads \in SUBSET Nat
    BY <1>1
  <2> HIDE DEF heads
  <2> QED BY <2>1, MinIs
<1>3. heads # {} => Min(heads) \in 1..Len(q)
  BY <1>1, <1>2
<1> HIDE DEF heads
<1> QED BY <1>1, <1>3 DEF HoldFrom, heads

(* What can be written now is a prefix of the buffer.                       *)
LEMMA ReadyRange ==
    ASSUME NEW q \in Buffers
    PROVE  Ready(q) \in 0..Len(q)
<1> DEFINE ends  == {0} \cup {i \in DOMAIN q : q[i][1] = "n"}
           lines == Max(ends)
           rest  == SubSeq(q, lines + 1, Len(q))
<1>1. Len(q) \in Nat /\ DOMAIN q = 1..Len(q)
  BY DEF Buffers
<1>2. lines \in 0..Len(q)
  <2>1. ends \in SUBSET (0..Len(q)) /\ ends # {}
    BY <1>1
  <2>2. Max(ends) \in ends
    <3> HIDE DEF ends
    <3> QED BY <1>1, <2>1, MaxIs
  <2> QED BY <2>1, <2>2
<1> HIDE DEF lines
<1>3. rest \in Buffers /\ Len(rest) = Len(q) - lines
  BY <1>1, <1>2, CutInTwo
<1> DEFINE h == HoldFrom(rest, TRUE)
<1>4. h \in 1..(Len(q) - lines + 1)
  BY <1>3, HoldRange
<1>5. Ready(q) = IF Len(rest) > FlushAt \/ Candidate(rest)
                 THEN lines + h - 1 ELSE lines
  BY DEF Ready, lines
<1> HIDE DEF rest, h
<1>6. CASE Ready(q) = lines
  BY <1>1, <1>2, <1>6
<1>7. CASE Ready(q) = lines + h - 1
  BY <1>1, <1>2, <1>4, <1>7
<1> QED BY <1>5, <1>6, <1>7

(* What is emitted of a piece of text.                                      *)
Renders(items, tx, lo, hi) ==
    items \in Seq(Item) /\ Spell(items, lo, hi) /\ Covers(items, tx, lo, hi)

(* Emit writes its piece of the text in order and leaves nothing of it out. *)
LEMMA EmitRenders ==
    ASSUME NEW q \in Buffers, NEW tx \in Seq(Symbols), NEW lo \in Nat, Piece(q, tx, lo)
    PROVE  /\ Renders(Emit(q), tx, lo, lo + Len(q))
           /\ \A k \in DOMAIN Emit(q) : Emit(q)[k][1] \in TextKinds
<1> DEFINE S == Kept(q)
           c == Cardinality(S)
           kept == Increasing(S)
           E == Emit(q)
<1>1. Len(q) \in Nat /\ DOMAIN q = 1..Len(q)
  BY DEF Buffers
<1>2. S \in SUBSET (1..Len(q))
  BY <1>1 DEF Kept
<1>3. /\ c \in Nat
      /\ kept \in [1..c -> S]
      /\ \A i, j \in 1..c : i < j => kept[i] < kept[j]
      /\ \A x \in S : \E i \in 1..c : kept[i] = x
  BY <1>1, <1>2, IncreasingIs
<1>4. E = [k \in 1..c |-> <<IF Opens(q, kept[k]) THEN "S" ELSE q[kept[k]][1], q[kept[k]][2]>>]
  BY <1>3 DEF Emit
<1>5. \A k \in 1..c : kept[k] \in S /\ kept[k] \in DOMAIN q /\ kept[k] \in Nat
  BY <1>1, <1>2, <1>3
<1> HIDE DEF kept, c, E
<1>6. ASSUME NEW k \in 1..c
      PROVE  /\ E[k] = <<E[k][1], E[k][2]>>
             /\ E[k][1] \in TextKinds /\ E[k][1] # "a"
             /\ E[k][2] = lo + kept[k]
  <2> DEFINE i == kept[k]
  <2>1. i \in S /\ i \in DOMAIN q
    BY <1>5
  <2> HIDE DEF i
  <2>2. q[i][1] \in Symbols
    BY <2>1, BufferAtom
  <2>3. q[i][2] = lo + i
    BY <2>1 DEF Piece
  <2>4. E[k] = <<IF Opens(q, i) THEN "S" ELSE q[i][1], q[i][2]>>
    BY <1>4 DEF i
  <2>5. q[i][1] = "a" => Opens(q, i)
    BY <2>1 DEF Kept
  <2> QED BY <2>2, <2>3, <2>4, <2>5 DEF Symbols, Atoms, TextKinds, i
<1>7. E \in Seq(Item)
  <2>1. \A k \in 1..c : E[k] \in Item
    <3> TAKE k \in 1..c
    <3>1. E[k][2] \in Nat
      BY <1>5, <1>6
    <3>2. E[k][1] \in ItemKinds
      BY <1>6 DEF ItemKinds
    <3>3. <<E[k][1], E[k][2]>> \in Item
      BY <3>1, <3>2 DEF Item
    <3> QED BY <1>6, <3>3
  <2>2. DOMAIN E = 1..c /\ E = [k \in 1..c |-> E[k]]
    BY <1>4
  <2> QED BY <1>3, <2>1, <2>2
<1>8. DOMAIN E = 1..c
  BY <1>4
<1>9. Spell(E, lo, lo + Len(q))
  <2>1. ASSUME NEW k \in TextAt(E) PROVE E[k][1] # "a" /\ E[k][2] \in (lo + 1)..(lo + Len(q))
    <3>1. k \in 1..c
      BY <1>8 DEF TextAt
    <3>2. kept[k] \in 1..Len(q)
      BY <1>1, <1>5, <3>1
    <3> QED BY <1>1, <1>6, <3>1, <3>2
  <2>2. ASSUME NEW k \in TextAt(E), NEW j \in TextAt(E), j < k PROVE E[j][2] < E[k][2]
    <3>1. k \in 1..c /\ j \in 1..c
      BY <1>8 DEF TextAt
    <3>2. kept[j] < kept[k] /\ kept[j] \in Nat /\ kept[k] \in Nat
      BY <1>3, <1>5, <2>2, <3>1
    <3> QED BY <1>6, <3>1, <3>2
  <2> QED BY <2>1, <2>2 DEF Spell
<1>10. Covers(E, tx, lo, lo + Len(q))
  <2> SUFFICES ASSUME NEW i \in (lo + 1)..(lo + Len(q)), tx[i] \in {"w", "n"}
               PROVE  \E j \in TextAt(E) : E[j][2] = i
    BY DEF Covers
  <2>1. i - lo \in DOMAIN q
    BY <1>1
  <2>2. q[i - lo][1] = tx[i]
    <3>1. lo + (i - lo) = i
      BY <1>1
    <3> QED BY <2>1, <3>1 DEF Piece
  <2>3. i - lo \in S
    BY <2>1, <2>2, <1>1 DEF Kept, Closes, Opens
  <2>4. PICK j \in 1..c : kept[j] = i - lo
    BY <1>3, <2>3
  <2>5. j \in TextAt(E) /\ E[j][2] = lo + (i - lo)
    BY <1>6, <1>8, <2>4 DEF TextAt
  <2> QED BY <2>5
<1> QED BY <1>6, <1>7, <1>8, <1>9, <1>10 DEF Renders, E

(* A first half alone is not emitted.                                       *)
LEMMA EmitLoneHalf ==
    ASSUME NEW q \in Buffers, Len(q) <= 1, \A k \in DOMAIN q : q[k][1] = "a"
    PROVE  Emit(q) = <<>>
<1>1. Len(q) \in Nat /\ DOMAIN q = 1..Len(q)
  BY DEF Buffers
<1>2. Kept(q) = {}
  BY <1>1 DEF Kept, Opens
<1>3. Cardinality(Kept(q)) = 0
  BY <1>2, FS_EmptySet
<1>4. {} \in SUBSET (1..0)
  OBVIOUS
<1>5. Increasing({}) \in [1..0 -> {}]
  BY <1>2, <1>3, <1>4, IncreasingIs
<1>6. DOMAIN Increasing(Kept(q)) = 1..0
  BY <1>2, <1>5
<1> HIDE DEF Kept, Increasing
<1> QED BY <1>6 DEF Emit

(* A piece of text cut in two: what is emitted of its first part.           *)
LEMMA CutRenders ==
    ASSUME NEW q \in Buffers, NEW tx \in Seq(Symbols), NEW lo \in Nat, Piece(q, tx, lo),
           NEW m \in 0..Len(q)
    PROVE  /\ Renders(Emit(SubSeq(q, 1, m)), tx, lo, lo + m)
           /\ \A k \in DOMAIN Emit(SubSeq(q, 1, m)) : Emit(SubSeq(q, 1, m))[k][1] \in TextKinds
           /\ SubSeq(q, m + 1, Len(q)) \in Buffers
           /\ Len(SubSeq(q, m + 1, Len(q))) = Len(q) - m
           /\ Piece(SubSeq(q, m + 1, Len(q)), tx, lo + m)
<1> DEFINE u == SubSeq(q, 1, m)
           v == SubSeq(q, m + 1, Len(q))
<1>1. /\ u \in Buffers /\ Len(u) = m /\ \A k \in 1..m : u[k] = q[k]
      /\ v \in Buffers /\ Len(v) = Len(q) - m
      /\ \A k \in 1..(Len(q) - m) : v[k] = q[m + k]
  BY CutInTwo
<1>2. Len(q) \in Nat /\ DOMAIN q = 1..Len(q) /\ DOMAIN u = 1..Len(u) /\ DOMAIN v = 1..Len(v)
  BY <1>1 DEF Buffers
<1> HIDE DEF u, v
<1>3. Piece(u, tx, lo)
  BY <1>1, <1>2 DEF Piece
<1>4. Piece(v, tx, lo + m)
  <2>1. lo + m + Len(v) <= Len(tx)
    BY <1>1, <1>2 DEF Piece
  <2>2. ASSUME NEW k \in DOMAIN v PROVE v[k] = <<tx[lo + m + k], lo + m + k>>
    <3>1. v[k] = q[m + k] /\ m + k \in DOMAIN q /\ k \in Nat
      BY <1>1, <1>2
    <3>2. q[m + k] = <<tx[lo + (m + k)], lo + (m + k)>>
      BY <3>1 DEF Piece
    <3>3. lo + (m + k) = lo + m + k
      BY <3>1
    <3> QED BY <3>1, <3>2, <3>3
  <2> QED BY <2>1, <2>2 DEF Piece
<1>5. /\ Renders(Emit(u), tx, lo, lo + m)
      /\ \A k \in DOMAIN Emit(u) : Emit(u)[k][1] \in TextKinds
  BY <1>1, <1>3, EmitRenders
<1> QED BY <1>1, <1>4, <1>5 DEF u, v

(* The elements of two sequences of items, one after the other.             *)
LEMMA Joined ==
    ASSUME NEW u \in Seq(Item), NEW v \in Seq(Item)
    PROVE  /\ u \o v \in Seq(Item)
           /\ Len(u \o v) = Len(u) + Len(v)
           /\ \A k \in DOMAIN (u \o v) :
                 \/ k \in DOMAIN u /\ (u \o v)[k] = u[k]
                 \/ k - Len(u) \in DOMAIN v /\ (u \o v)[k] = v[k - Len(u)]
           /\ \A k \in DOMAIN u : k \in DOMAIN (u \o v) /\ (u \o v)[k] = u[k]
           /\ \A k \in DOMAIN v :
                 k + Len(u) \in DOMAIN (u \o v) /\ (u \o v)[k + Len(u)] = v[k]
<1>1. /\ Len(u) \in Nat /\ DOMAIN u = 1..Len(u)
      /\ Len(v) \in Nat /\ DOMAIN v = 1..Len(v)
  OBVIOUS
<1>2. /\ u \o v \in Seq(Item)
      /\ Len(u \o v) = Len(u) + Len(v)
      /\ DOMAIN (u \o v) = 1..(Len(u) + Len(v))
      /\ \A k \in 1..(Len(u) + Len(v)) :
            (u \o v)[k] = IF k <= Len(u) THEN u[k] ELSE v[k - Len(u)]
  BY <1>1
<1> DEFINE w == u \o v
<1> HIDE DEF w
<1>3. ASSUME NEW k \in DOMAIN w
      PROVE  \/ k \in DOMAIN u /\ w[k] = u[k]
             \/ k - Len(u) \in DOMAIN v /\ w[k] = v[k - Len(u)]
  BY <1>1, <1>2 DEF w
<1>4. ASSUME NEW k \in DOMAIN u PROVE k \in DOMAIN w /\ w[k] = u[k]
  BY <1>1, <1>2 DEF w
<1>5. ASSUME NEW k \in DOMAIN v
      PROVE  k + Len(u) \in DOMAIN w /\ w[k + Len(u)] = v[k]
  <2>1. k + Len(u) \in 1..(Len(u) + Len(v)) /\ ~(k + Len(u) <= Len(u))
        /\ k + Len(u) - Len(u) = k
    BY <1>1
  <2> QED BY <1>2, <2>1 DEF w
<1> QED BY <1>2, <1>3, <1>4, <1>5 DEF w

(* Two lists that spell neighbouring pieces in order spell the whole in     *)
(* order.                                                                   *)
LEMMA SpellJoin ==
    ASSUME NEW u \in Seq(Item), NEW v \in Seq(Item),
           NEW lo \in Nat, NEW mid \in Nat, NEW hi \in Nat, lo <= mid, mid <= hi,
           Spell(u, lo, mid), Spell(v, mid, hi)
    PROVE  Spell(u \o v, lo, hi)
<1> DEFINE w == u \o v
<1>1. /\ \A k \in DOMAIN w :
            \/ k \in DOMAIN u /\ w[k] = u[k]
            \/ k - Len(u) \in DOMAIN v /\ w[k] = v[k - Len(u)]
  BY Joined
<1>2. Len(u) \in Nat /\ DOMAIN u = 1..Len(u) /\ DOMAIN v = 1..Len(v) /\ DOMAIN w \subseteq Nat
  BY Joined
<1> HIDE DEF w
<1>3. ASSUME NEW k \in TextAt(w)
      PROVE  \/ k \in TextAt(u) /\ w[k] = u[k]
             \/ k - Len(u) \in TextAt(v) /\ w[k] = v[k - Len(u)]
  BY <1>1 DEF TextAt
<1>4. ASSUME NEW k \in TextAt(u) PROVE u[k][1] # "a" /\ u[k][2] \in (lo + 1)..mid
  BY DEF Spell
<1>5. ASSUME NEW k \in TextAt(v) PROVE v[k][1] # "a" /\ v[k][2] \in (mid + 1)..hi
  BY DEF Spell
<1>6. ASSUME NEW k \in TextAt(w) PROVE w[k][1] # "a" /\ w[k][2] \in (lo + 1)..hi
  BY <1>3, <1>4, <1>5
<1>7. ASSUME NEW k \in TextAt(w), NEW j \in TextAt(w), j < k PROVE w[j][2] < w[k][2]
  <2>1. k \in Nat /\ j \in Nat
    BY <1>2 DEF TextAt
  <2>2. CASE k \in TextAt(u) /\ w[k] = u[k] /\ j \in TextAt(u) /\ w[j] = u[j]
    BY <1>7, <2>2 DEF Spell
  <2>3. CASE /\ k - Len(u) \in TextAt(v) /\ w[k] = v[k - Len(u)]
             /\ j \in TextAt(u) /\ w[j] = u[j]
    BY <2>3, <1>4, <1>5
  <2>4. CASE /\ k - Len(u) \in TextAt(v) /\ w[k] = v[k - Len(u)]
             /\ j - Len(u) \in TextAt(v) /\ w[j] = v[j - Len(u)]
    <3>1. j - Len(u) < k - Len(u)
      BY <1>2, <1>7, <2>1
    <3> QED BY <2>4, <3>1 DEF Spell
  <2>5. CASE /\ k \in TextAt(u) /\ w[k] = u[k]
             /\ j - Len(u) \in TextAt(v) /\ w[j] = v[j - Len(u)]
    <3>1. k <= Len(u) /\ j - Len(u) >= 1
      BY <1>2, <2>5 DEF TextAt
    <3> QED BY <1>2, <1>7, <2>1, <3>1
  <2> QED BY <1>3, <2>2, <2>3, <2>4, <2>5
<1> QED BY <1>6, <1>7 DEF Spell, w

(* Two lists that cover neighbouring pieces cover the whole.                *)
LEMMA CoversJoin ==
    ASSUME NEW u \in Seq(Item), NEW v \in Seq(Item), NEW tx,
           NEW lo \in Nat, NEW mid \in Nat, NEW hi \in Nat, lo <= mid, mid <= hi,
           Covers(u, tx, lo, mid), Covers(v, tx, mid, hi)
    PROVE  Covers(u \o v, tx, lo, hi)
<1> DEFINE w == u \o v
<1>1. /\ \A k \in DOMAIN u : k \in DOMAIN w /\ w[k] = u[k]
      /\ \A k \in DOMAIN v : k + Len(u) \in DOMAIN w /\ w[k + Len(u)] = v[k]
  BY Joined
<1> HIDE DEF w
<1> SUFFICES ASSUME NEW i \in (lo + 1)..hi, tx[i] \in {"w", "n"}
             PROVE  \E j \in TextAt(w) : w[j][2] = i
  BY DEF Covers, w
<1>2. CASE i \in (lo + 1)..mid
  <2>1. PICK j \in TextAt(u) : u[j][2] = i
    BY <1>2 DEF Covers
  <2>2. j \in TextAt(w) /\ w[j][2] = i
    BY <1>1, <2>1 DEF TextAt
  <2> QED BY <2>2
<1>3. CASE i \in (mid + 1)..hi
  <2>1. PICK j \in TextAt(v) : v[j][2] = i
    BY <1>3 DEF Covers
  <2>2. j + Len(u) \in TextAt(w) /\ w[j + Len(u)][2] = i
    BY <1>1, <2>1 DEF TextAt
  <2> QED BY <2>2
<1> QED BY <1>2, <1>3

----------------------------------------------------------------------------
(* What a step writes                                                       *)

(* Arguments no audit has let through, on a streamed answer that is audited. *)
Open(item) ==
    /\ dialog /\ audit /\ chain # "whole"
    /\ item[1] \in {"call", "full"} /\ item[2] \notin passed'

(* Items that stand for atoms lo + 1 to hi and may be written by this step, *)
(* right before item x; refused: behind a refusal.  The ends of an answer   *)
(* are looked at on their own.                                              *)
Loose(items, lo, hi, x, refused) ==
    /\ Renders(items, text', lo, hi)
    /\ \A k \in DOMAIN items :
          /\ items[k][1] \notin {"finish", "done", "failed"}
          /\ items[k][1] = "block" => parts' > 0
          /\ Open(items[k]) =>
                \/ items[k][1] = "call" /\ chain \in Events /\ x = Done
                \/ items[k][1] = "full" /\ (x = Finish \/ refused)

(* Items that may be written anywhere.                                      *)
Fit(items, lo, hi) == Loose(items, lo, hi, Other, FALSE)

(* What may be written anywhere may be written here.                        *)
LEMMA FitIsLoose ==
    ASSUME NEW items, NEW lo, NEW hi, NEW x, NEW refused, Fit(items, lo, hi)
    PROVE  Loose(items, lo, hi, x, refused)
BY DEF Fit, Loose, Other, Done, Finish

(* Two such lists for neighbouring pieces join to one.                      *)
LEMMA LooseJoin ==
    ASSUME NEW u, NEW v, NEW lo \in Nat, NEW mid \in Nat, NEW hi \in Nat, NEW x, NEW refused,
           lo <= mid, mid <= hi, Loose(u, lo, mid, x, refused), Loose(v, mid, hi, x, refused)
    PROVE  Loose(u \o v, lo, hi, x, refused)
<1>1. u \in Seq(Item) /\ v \in Seq(Item)
  BY DEF Loose, Renders
<1>2. Renders(u \o v, text', lo, hi)
  BY <1>1, Joined, SpellJoin, CoversJoin DEF Loose, Renders
<1> DEFINE Good(item) ==
               /\ item[1] \notin {"finish", "done", "failed"}
               /\ item[1] = "block" => parts' > 0
               /\ Open(item) =>
                     \/ item[1] = "call" /\ chain \in Events /\ x = Done
                     \/ item[1] = "full" /\ (x = Finish \/ refused)
<1>3. (\A k \in DOMAIN u : Good(u[k])) /\ (\A k \in DOMAIN v : Good(v[k]))
  BY DEF Loose
<1> HIDE DEF Good
<1>4. ASSUME NEW k \in DOMAIN (u \o v) PROVE Good((u \o v)[k])
  <2>1. \/ k \in DOMAIN u /\ (u \o v)[k] = u[k]
        \/ k - Len(u) \in DOMAIN v /\ (u \o v)[k] = v[k - Len(u)]
    BY <1>1, Joined
  <2> QED BY <1>3, <2>1
<1> QED BY <1>2, <1>4 DEF Loose, Good

LEMMA FitJoin ==
    ASSUME NEW u, NEW v, NEW lo \in Nat, NEW mid \in Nat, NEW hi \in Nat,
           lo <= mid, mid <= hi, Fit(u, lo, mid), Fit(v, mid, hi)
    PROVE  Fit(u \o v, lo, hi)
BY LooseJoin DEF Fit

(* Items without text.                                                      *)
LEMMA LoosePlain ==
    ASSUME NEW u \in Seq(Item), NEW lo \in Nat, NEW x, NEW refused,
           \A k \in DOMAIN u :
              /\ u[k][1] \notin TextKinds \cup {"finish", "done", "failed"}
              /\ u[k][1] = "block" => parts' > 0
              /\ Open(u[k]) =>
                    \/ u[k][1] = "call" /\ chain \in Events /\ x = Done
                    \/ u[k][1] = "full" /\ (x = Finish \/ refused)
    PROVE  Loose(u, lo, lo, x, refused)
<1>1. TextAt(u) = {}
  BY DEF TextAt
<1>2. Spell(u, lo, lo)
  BY <1>1 DEF Spell
<1>3. Covers(u, text', lo, lo)
  BY DEF Covers
<1> QED BY <1>2, <1>3 DEF Loose, Renders

(* Writing nothing fits the empty piece.                                    *)
LEMMA FitNone ==
    ASSUME NEW lo \in Nat
    PROVE  Fit(<<>>, lo, lo)
<1> DEFINE u == <<>>
<1>1. u \in Seq(Item) /\ DOMAIN u = {}
  OBVIOUS
<1> HIDE DEF u
<1>2. Fit(u, lo, lo)
  BY <1>1, LoosePlain DEF Fit
<1> QED BY <1>2 DEF u

(* An item that is no text and no end fits: a call if it was audited, a     *)
(* refusal if there was a call.                                             *)
LEMMA FitItem ==
    ASSUME NEW kind \in ItemKinds \ (TextKinds \cup {"finish", "done", "failed"}),
           NEW n \in Nat, NEW lo \in Nat,
           kind = "block" => parts' > 0, ~Open(<<kind, n>>)
    PROVE  Fit(<<<<kind, n>>>>, lo, lo)
<1> DEFINE u == <<<<kind, n>>>>
<1>1. u \in Seq(Item) /\ DOMAIN u = {1} /\ u[1] = <<kind, n>>
  BY DEF Item
<1> HIDE DEF u
<1>2. \A k \in DOMAIN u : u[k] = <<kind, n>> /\ u[k][1] = kind
  BY <1>1
<1>3. Fit(u, lo, lo)
  BY <1>1, <1>2, LoosePlain DEF Fit
<1> QED BY <1>3 DEF u

(* The single items.                                                        *)
LEMMA FitKinds ==
    ASSUME NEW lo \in Nat
    PROVE  /\ Fit(<<Other>>, lo, lo) /\ Fit(<<Stop>>, lo, lo) /\ Fit(<<<<"error", 0>>>>, lo, lo)
           /\ parts' > 0 => Fit(<<Block>>, lo, lo)
BY FitItem DEF Open, Block, Other, Stop, ItemKinds, TextKinds

(* The fragments in a list, as items.                                       *)
LEMMA ItemsAre ==
    ASSUME NEW q \in Seq(Nat)
    PROVE  /\ Items(q) \in Seq(Item) /\ DOMAIN Items(q) = DOMAIN q
           /\ \A k \in DOMAIN q : Items(q)[k][1] = "call" /\ Items(q)[k][2] = q[k]
<1> DEFINE u == Items(q)
<1>1. u = [k \in DOMAIN q |-> <<"call", q[k]>>]
  BY DEF Items, Call
<1>2. \A k \in DOMAIN q : <<"call", q[k]>> \in Item
  BY DEF Item, ItemKinds
<1>3. DOMAIN q = 1..Len(q) /\ Len(q) \in Nat
  OBVIOUS
<1>4. u \in Seq(Item) /\ DOMAIN u = DOMAIN q
  BY <1>1, <1>2, <1>3
<1> HIDE DEF u
<1>5. \A k \in DOMAIN q : u[k][1] = "call" /\ u[k][2] = q[k]
  BY <1>1
<1> QED BY <1>4, <1>5 DEF u

(* Audited calls fit, in any number.                                        *)
LEMMA FitCalls ==
    ASSUME NEW q \in Seq(Nat), NEW lo \in Nat, \A k \in DOMAIN q : q[k] \in passed'
    PROVE  Fit(Items(q), lo, lo)
<1> DEFINE u == Items(q)
<1>1. /\ u \in Seq(Item) /\ DOMAIN u = DOMAIN q
      /\ \A k \in DOMAIN q : u[k][1] = "call" /\ u[k][2] = q[k]
  BY ItemsAre
<1> HIDE DEF u
<1>2. Fit(u, lo, lo)
  BY <1>1, LoosePlain DEF Fit, Open, TextKinds
<1> QED BY <1>2 DEF u

(* Before the [DONE] of a gateway calls may be written that were not.       *)
LEMMA LooseCalls ==
    ASSUME NEW q \in Seq(Nat), NEW lo \in Nat, chain \in Events, NEW refused
    PROVE  Loose(Items(q), lo, lo, Done, refused)
<1> DEFINE u == Items(q)
<1>1. /\ u \in Seq(Item) /\ DOMAIN u = DOMAIN q
      /\ \A k \in DOMAIN q : u[k][1] = "call"
  BY ItemsAre
<1> HIDE DEF u
<1>2. Loose(u, lo, lo, Done, refused)
  BY <1>1, LoosePlain DEF TextKinds
<1> QED BY <1>2 DEF u

(* Repeated arguments may be written if they were audited, before the event *)
(* that ends the answer, and behind a refusal.                              *)
LEMMA LooseArguments ==
    ASSUME NEW lo \in Nat, NEW n \in Nat, parts \in Nat, n <= parts, NEW x, NEW refused,
           x = Finish \/ refused \/ \A m \in 1..parts : ~Open(Full(m))
    PROVE  Loose(Arguments(n), lo, lo, x, refused)
<1> DEFINE u == Arguments(n)
           c == parts - n
<1>1. c \in Nat
  OBVIOUS
<1>2. u = [k \in 1..c |-> <<"full", n + k>>]
  BY DEF Arguments, Full
<1>3. \A k \in 1..c : n + k \in 1..parts
  OBVIOUS
<1> HIDE DEF c
<1>4. \A k \in 1..c : <<"full", n + k>> \in Item
  BY <1>3 DEF Item, ItemKinds
<1>5. u \in Seq(Item) /\ DOMAIN u = 1..c
  <2>1. DOMAIN u = 1..c /\ u = [k \in 1..c |-> u[k]]
    BY <1>2
  <2>2. \A k \in 1..c : u[k] \in Item
    BY <1>2, <1>4
  <2> QED BY <1>1, <2>1, <2>2
<1> HIDE DEF u
<1>6. \A k \in DOMAIN u : u[k] = Full(n + k) /\ n + k \in 1..parts /\ u[k][1] = "full"
  BY <1>2, <1>3, <1>5 DEF Full
<1>7. Loose(u, lo, lo, x, refused)
  BY <1>5, <1>6, LoosePlain DEF TextKinds
<1> QED BY <1>7 DEF u

(* The line that ends a call, with its arguments or without.                *)
LEMMA LooseStop ==
    ASSUME TypeInv, NEW lo \in Nat, NEW refused,
           refused \/ \A m \in 1..parts : ~Open(Full(m))
    PROVE  Loose(StopLine, lo, lo, Other, refused)
<1>1. Loose(Arguments(start), lo, lo, Other, refused)
  BY LooseArguments DEF TypeInv
<1>2. Loose(<<>>, lo, lo, Other, refused) /\ Loose(<<Stop>>, lo, lo, Other, refused)
  BY FitNone, FitKinds, FitIsLoose
<1> DEFINE u == IF chain = "responses" THEN Arguments(start) ELSE <<>>
<1>3. Loose(u, lo, lo, Other, refused)
  BY <1>1, <1>2
<1> HIDE DEF u
<1>4. Loose(u \o <<Stop>>, lo, lo, Other, refused)
  BY <1>2, <1>3, LooseJoin
<1> QED BY <1>4 DEF StopLine, u

(* Emitted text.                                                            *)
LEMMA FitText ==
    ASSUME NEW u, NEW lo, NEW hi, Renders(u, text', lo, hi),
           \A k \in DOMAIN u : u[k][1] \in TextKinds
    PROVE  Fit(u, lo, hi)
BY DEF Fit, Loose, Open, TextKinds

(* How the text and the buffer move: forward.                               *)
TextMoves ==
    /\ text' \in Seq(Symbols) /\ buf' \in Buffers
    /\ Flushed \in Nat /\ Flushed' \in Nat /\ Flushed <= Flushed'
    /\ Piece(buf', text', Flushed')
    /\ Len(text) <= Len(text') /\ \A i \in DOMAIN text : text'[i] = text[i]

(* How the rest of what the answer depends on moves.                        *)
Moves ==
    /\ TextMoves
    /\ pc # "closed"
    /\ dialog' = dialog /\ audit' = audit /\ chain' = chain /\ gone' = gone
    /\ text' = text \/ ended = "no"
    /\ ended # "no" => ended' # "no"
    /\ ended = "done" => ended' = "done"
    /\ passed \subseteq passed' \/ out = <<>>

(* What never goes back.                                                    *)
Ahead == (parts > 0 => parts' > 0) /\ (seenEnd => seenEnd')

(* Does item x end the answer, as the upstream ended it.                    *)
Ends(x) ==
    /\ x \in Terminals /\ ended' # "no" /\ seenEnd'
    /\ chain \in Slow =>
          /\ x = Done => pc' = "closed" \/ ended' = "done"
          /\ \A k \in DOMAIN buf' : buf'[k][1] \notin {"w", "n"}

(* Items around one that ends the answer.                                   *)
Around(items, u, x, v) ==
    /\ items = (u \o <<x>>) \o v
    /\ Loose(u, Flushed, Flushed', x, Refused)
    /\ Loose(v, Flushed', Flushed', Other, Refused \/ x = Block)
    /\ \/ Ends(x) /\ v = <<>>
       \/ x = Failed /\ ~seenEnd /\ pc' = "closed"
       \/ x = Block /\ parts' > 0
       \/ x = Block /\ out = <<>> /\ u = <<>> /\ v = <<>> /\ pc' = "closed"

(* What an action may write.                                                *)
Good(items) ==
    /\ chain \in Slow /\ ended = "done" /\ out # <<>> =>
          \A k \in DOMAIN items : chain \in Events /\ items[k] = Block
    /\ \/ Loose(items, Flushed, Flushed', Other, Refused)
       \/ \E u, x, v : Around(items, u, x, v)

Answer(items) == Write(items) /\ Good(items)

(* The same, position by position.                                          *)
Written(items, k) ==
    /\ items[k][1] \in {"finish", "done"} =>
          /\ k = Len(items) /\ ended' # "no" /\ seenEnd'
          /\ chain \in Slow =>
                /\ items[k][1] = "done" => pc' = "closed" \/ ended' = "done"
                /\ \A i \in DOMAIN buf' : buf'[i][1] \notin {"w", "n"}
    /\ items[k][1] = "failed" =>
          /\ ~seenEnd /\ pc' = "closed"
          /\ \A j \in DOMAIN items : items[j][1] \notin {"finish", "done"}
    /\ items[k][1] = "block" =>
          parts' > 0 \/ (out = <<>> /\ items = <<Block>> /\ pc' = "closed")
    /\ Open(items[k]) =>
          \/ /\ items[k][1] = "call" /\ chain \in Events
             /\ \E j \in DOMAIN items : k < j /\ items[j] = Done
          \/ /\ items[k][1] = "full"
             /\ \/ Refused
                \/ \E j \in DOMAIN items : j < k /\ items[j] = Block
                \/ \E j \in DOMAIN items : k < j /\ items[j] = Finish

(* What an action writes renders the text it takes from the buffer, with    *)
(* calls and ends in their places.                                          *)
LEMMA AroundIs ==
    ASSUME NEW items, NEW u, NEW x, NEW v, Around(items, u, x, v), Moves
    PROVE  /\ Renders(items, text', Flushed, Flushed')
           /\ \A k \in DOMAIN items : Written(items, k)
<1> DEFINE z == <<x>>
           n == Len(u) + 1
<1>1. u \in Seq(Item) /\ v \in Seq(Item)
  BY DEF Around, Loose, Renders
<1>2. x \in {Finish, Done, Failed, Block}
  BY DEF Around, Ends, Terminals
<1>3. x[1] \in {"finish", "done", "failed", "block"} /\ x \in Item
  BY <1>2 DEF Finish, Done, Failed, Block, Item, ItemKinds
<1>4. z \in Seq(Item) /\ z[1] = x /\ DOMAIN z = {1} /\ Len(z) = 1
  BY <1>3
<1>5. items = (u \o z) \o v
  BY DEF Around
<1> HIDE DEF z
<1>6. u \o z \in Seq(Item) /\ Len(u \o z) = n /\ n \in Nat /\ Len(u) \in Nat
  BY <1>1, <1>4, Joined
<1>7. ASSUME NEW k \in DOMAIN (u \o z)
      PROVE  \/ k \in DOMAIN u /\ (u \o z)[k] = u[k]
             \/ k = n /\ (u \o z)[k] = x
  <2>1. \/ k \in DOMAIN u /\ (u \o z)[k] = u[k]
        \/ k - Len(u) \in DOMAIN z /\ (u \o z)[k] = z[k - Len(u)]
    BY <1>1, <1>4, Joined
  <2>2. k \in Nat
    BY <1>6
  <2>3. k - Len(u) \in DOMAIN z => k - Len(u) = 1
    BY <1>4
  <2>4. k - Len(u) = 1 => k = n
    BY <1>6, <2>2
  <2> QED BY <1>4, <2>1, <2>3, <2>4
<1>8. n \in DOMAIN (u \o z) /\ (u \o z)[n] = x
  <2>1. 1 + Len(u) \in DOMAIN (u \o z) /\ (u \o z)[1 + Len(u)] = z[1]
    BY <1>1, <1>4, Joined
  <2>2. 1 + Len(u) = n
    BY <1>6
  <2> QED BY <1>4, <2>1, <2>2
<1>9. \A k \in DOMAIN u : k \in DOMAIN (u \o z) /\ (u \o z)[k] = u[k]
  BY <1>1, <1>4, Joined
<1>10. /\ items \in Seq(Item) /\ Len(items) = n + Len(v) /\ Len(v) \in Nat
       /\ DOMAIN items = 1..Len(items)
  <2> DEFINE w == u \o z
  <2>1. w \in Seq(Item) /\ Len(w) = n /\ items = w \o v
    BY <1>5, <1>6
  <2> HIDE DEF w, n
  <2>2. items \in Seq(Item) /\ Len(items) = Len(w) + Len(v)
    BY <1>1, <2>1, Joined
  <2> QED BY <1>1, <2>1, <2>2
<1>11. n \in DOMAIN items /\ items[n] = x
  BY <1>1, <1>5, <1>6, <1>8, Joined
<1>12. ASSUME NEW k \in DOMAIN items
       PROVE  \/ k \in DOMAIN u /\ items[k] = u[k] /\ k < n
              \/ k = n /\ items[k] = x
              \/ k - n \in DOMAIN v /\ items[k] = v[k - n] /\ n < k
  <2>1. \/ k \in DOMAIN (u \o z) /\ items[k] = (u \o z)[k]
        \/ k - n \in DOMAIN v /\ items[k] = v[k - n]
    BY <1>1, <1>5, <1>6, Joined
  <2>2. k \in Nat /\ (k \in DOMAIN u => k < n) /\ (k - n \in DOMAIN v => n < k)
    <3>1. DOMAIN u = 1..Len(u) /\ DOMAIN v = 1..Len(v)
      BY <1>1
    <3> QED BY <1>6, <1>10, <3>1
  <2> QED BY <1>7, <2>1, <2>2
<1>13. Renders(items, text', Flushed, Flushed')
  <2>1. PICK lo \in Nat, hi \in Nat : lo = Flushed /\ hi = Flushed' /\ lo <= hi
    BY DEF Moves, TextMoves
  <2>2. TextAt(z) = {}
    BY <1>3, <1>4 DEF TextAt, TextKinds
  <2>3. Spell(z, hi, hi) /\ Covers(z, text', hi, hi)
    <3>1. Spell(z, hi, hi)
      BY <2>2 DEF Spell
    <3>2. Covers(z, text', hi, hi)
      BY DEF Covers
    <3> QED BY <3>1, <3>2
  <2>4. Renders(u, text', lo, hi) /\ Renders(v, text', hi, hi)
    BY <2>1 DEF Around, Loose
  <2>5. Spell(u \o z, lo, hi) /\ Covers(u \o z, text', lo, hi)
    BY <1>1, <1>4, <2>1, <2>3, <2>4, SpellJoin, CoversJoin DEF Renders
  <2>6. Spell(items, lo, hi) /\ Covers(items, text', lo, hi)
    <3> DEFINE w == u \o z
    <3>1. w \in Seq(Item) /\ items = w \o v /\ Spell(w, lo, hi) /\ Covers(w, text', lo, hi)
      BY <1>5, <1>6, <2>5
    <3> HIDE DEF w
    <3>2. Spell(v, hi, hi) /\ Covers(v, text', hi, hi) /\ hi <= hi
      BY <2>4 DEF Renders
    <3>3. Spell(w \o v, lo, hi)
      BY <1>1, <2>1, <3>1, <3>2, SpellJoin
    <3>4. Covers(w \o v, text', lo, hi)
      BY <1>1, <2>1, <3>1, <3>2, CoversJoin
    <3> QED BY <3>1, <3>3, <3>4
  <2> QED BY <1>10, <2>1, <2>6 DEF Renders
<1>14. ASSUME NEW k \in DOMAIN u
       PROVE  /\ u[k][1] \notin {"finish", "done", "failed"}
              /\ u[k][1] = "block" => parts' > 0
              /\ Open(u[k]) =>
                    \/ u[k][1] = "call" /\ chain \in Events /\ x = Done
                    \/ u[k][1] = "full" /\ (x = Finish \/ Refused)
  BY DEF Around, Loose
<1>15. ASSUME NEW k \in DOMAIN v
       PROVE  /\ v[k][1] \notin {"finish", "done", "failed"}
              /\ v[k][1] = "block" => parts' > 0
              /\ Open(v[k]) => v[k][1] = "full" /\ (Refused \/ x = Block)
  BY DEF Around, Loose, Other, Done, Finish
<1>16. ASSUME NEW k \in DOMAIN items, items[k][1] \in {"finish", "done"}
       PROVE  k = n /\ items[k] = x /\ Ends(x) /\ v = <<>> /\ k = Len(items)
  <2>1. k = n /\ items[k] = x
    BY <1>12, <1>14, <1>15, <1>16
  <2>2. x \notin {Failed, Block}
    BY <1>16, <2>1 DEF Failed, Block
  <2>3. Ends(x) /\ v = <<>>
    BY <2>2 DEF Around
  <2>4. Len(v) = 0
    BY <2>3
  <2> QED BY <1>6, <1>10, <2>1, <2>3, <2>4
<1>17. ASSUME NEW k \in DOMAIN items, items[k][1] = "failed"
       PROVE  x = Failed /\ ~seenEnd /\ pc' = "closed"
  <2>1. k = n /\ items[k] = x
    BY <1>12, <1>14, <1>15, <1>17
  <2>2. x = Failed
    BY <1>2, <1>17, <2>1 DEF Finish, Done, Block
  <2> QED BY <2>2 DEF Around, Ends, Terminals, Failed, Finish, Done, Block
<1>18. ASSUME NEW k \in DOMAIN items, items[k][1] = "block"
       PROVE  parts' > 0 \/ (out = <<>> /\ items = <<Block>> /\ pc' = "closed")
  <2>1. CASE k = n /\ items[k] = x
    <3>1. x = Block
      BY <1>2, <1>18, <2>1 DEF Finish, Done, Failed
    <3>2. \/ parts' > 0
          \/ out = <<>> /\ u = <<>> /\ v = <<>> /\ pc' = "closed"
      BY <3>1 DEF Around, Ends, Terminals, Failed, Finish, Done, Block
    <3>3. u = <<>> /\ v = <<>> => items = <<Block>>
      BY <1>4, <1>5, <3>1 DEF z
    <3> QED BY <3>2, <3>3
  <2> QED BY <1>12, <1>14, <1>15, <1>18, <2>1
<1>19. ASSUME NEW k \in DOMAIN items, Open(items[k])
       PROVE  \/ /\ items[k][1] = "call" /\ chain \in Events
                 /\ \E j \in DOMAIN items : k < j /\ items[j] = Done
              \/ /\ items[k][1] = "full"
                 /\ \/ Refused
                    \/ \E j \in DOMAIN items : j < k /\ items[j] = Block
                    \/ \E j \in DOMAIN items : k < j /\ items[j] = Finish
  <2>1. CASE k \in DOMAIN u /\ items[k] = u[k] /\ k < n
    BY <1>11, <1>14, <1>19, <2>1
  <2>2. CASE k = n /\ items[k] = x
    BY <1>3, <1>19, <2>2 DEF Open
  <2>3. CASE k - n \in DOMAIN v /\ items[k] = v[k - n] /\ n < k
    BY <1>11, <1>15, <1>19, <2>3
  <2> QED BY <1>12, <2>1, <2>2, <2>3
<1>20. ASSUME NEW k \in DOMAIN items PROVE Written(items, k)
  <2>1. ASSUME items[k][1] \in {"finish", "done"}
        PROVE  /\ k = Len(items) /\ ended' # "no" /\ seenEnd'
               /\ chain \in Slow =>
                     /\ items[k][1] = "done" => pc' = "closed" \/ ended' = "done"
                     /\ \A i \in DOMAIN buf' : buf'[i][1] \notin {"w", "n"}
    <3>1. items[k] = x /\ Ends(x) /\ k = Len(items)
      BY <1>16, <2>1
    <3>2. x[1] = "done" => x = Done
      BY <1>2 DEF Finish, Failed, Block
    <3> QED BY <3>1, <3>2 DEF Ends
  <2>2. ASSUME items[k][1] = "failed"
        PROVE  /\ ~seenEnd /\ pc' = "closed"
               /\ \A j \in DOMAIN items : items[j][1] \notin {"finish", "done"}
    <3>1. x = Failed /\ ~seenEnd /\ pc' = "closed"
      BY <1>17, <2>2
    <3>2. ~Ends(x)
      BY <3>1 DEF Ends, Terminals, Failed, Finish, Done
    <3> QED BY <1>16, <3>1, <3>2
  <2> QED BY <1>18, <1>19, <2>1, <2>2 DEF Written
<1> QED BY <1>13, <1>20

LEMMA GoodIs ==
    ASSUME NEW items, Good(items), Moves
    PROVE  /\ Renders(items, text', Flushed, Flushed')
           /\ \A k \in DOMAIN items : Written(items, k)
<1>1. CASE Loose(items, Flushed, Flushed', Other, Refused)
  BY <1>1 DEF Loose, Written, Other, Done, Finish
<1>2. CASE \E u, x, v : Around(items, u, x, v)
  BY <1>2, AroundIs
<1> QED BY <1>1, <1>2 DEF Good

(* What the client has received after a step.                               *)
LEMMA Appended ==
    ASSUME TypeInv, Moves, NEW items, Answer(items)
    PROVE  /\ out' \in Seq(Item) /\ DOMAIN out' = 1..Len(out') /\ Len(out) \in Nat
           /\ \A k \in DOMAIN out : k \in DOMAIN out' /\ out'[k] = out[k] /\ k <= Len(out)
           /\ \A k \in DOMAIN out' :
                 \/ k \in DOMAIN out /\ out'[k] = out[k]
                 \/ /\ ~gone /\ Len(out) < k
                    /\ k - Len(out) \in DOMAIN items /\ out'[k] = items[k - Len(out)]
           /\ gone => out' = out
           /\ ~gone =>
                 /\ out' = out \o items
                 /\ Len(out') = Len(out) + Len(items) /\ Len(items) \in Nat
                 /\ \A k \in DOMAIN items :
                       k + Len(out) \in DOMAIN out' /\ out'[k + Len(out)] = items[k]
<1>1. out \in Seq(Item) /\ items \in Seq(Item)
  BY GoodIs DEF TypeInv, Answer, Renders
<1>2. Len(out) \in Nat /\ DOMAIN out = 1..Len(out) /\ Len(items) \in Nat /\ DOMAIN items = 1..Len(items)
  BY <1>1
<1>3. CASE gone
  BY <1>1, <1>2, <1>3 DEF Answer, Write
<1>4. CASE ~gone
  <2>1. out' = out \o items
    BY <1>4 DEF Answer, Write
  <2>2. /\ out' \in Seq(Item) /\ Len(out') = Len(out) + Len(items)
        /\ \A k \in DOMAIN out' :
              \/ k \in DOMAIN out /\ out'[k] = out[k]
              \/ k - Len(out) \in DOMAIN items /\ out'[k] = items[k - Len(out)]
        /\ \A k \in DOMAIN out : k \in DOMAIN out' /\ out'[k] = out[k]
        /\ \A k \in DOMAIN items :
              k + Len(out) \in DOMAIN out' /\ out'[k + Len(out)] = items[k]
    BY <1>1, <2>1, Joined
  <2>3. DOMAIN out' = 1..Len(out')
    BY <2>2
  <2>4. \A k \in DOMAIN out' : k - Len(out) \in DOMAIN items => Len(out) < k
    BY <1>2, <2>3
  <2>5. \A k \in DOMAIN out : k <= Len(out)
    BY <1>2
  <2>6. \A k \in DOMAIN out' :
           \/ k \in DOMAIN out /\ out'[k] = out[k]
           \/ /\ ~gone /\ Len(out) < k
              /\ k - Len(out) \in DOMAIN items /\ out'[k] = items[k - Len(out)]
    BY <1>4, <2>2, <2>4
  <2> QED BY <1>2, <1>4, <2>1, <2>2, <2>3, <2>5, <2>6
<1> QED BY <1>3, <1>4

(* A step that writes such an answer keeps the text in order.               *)
LEMMA TextStep ==
    ASSUME TypeInv, OutInv, Moves, NEW items, Answer(items)
    PROVE  TextInv' /\ (~gone => Covers(out', text', 0, Flushed'))
<1>1. /\ items \in Seq(Item) /\ out \in Seq(Item)
      /\ Spell(items, Flushed, Flushed') /\ Covers(items, text', Flushed, Flushed')
  BY GoodIs DEF Renders, TypeInv, Answer
<1>2. Flushed \in Nat /\ Flushed' \in Nat /\ Flushed <= Flushed' /\ 0 \in Nat /\ 0 <= Flushed
  BY DEF Moves, TextMoves
<1>3. Covers(out, text', 0, Flushed) \/ gone
  <2>1. \A i \in 1..Flushed : i \in DOMAIN text /\ text'[i] = text[i]
    <3>1. DOMAIN text = 1..Len(text) /\ Len(text) \in Nat /\ Len(buf) \in Nat
      BY DEF TypeInv
    <3>2. \A i \in 1..Flushed : i \in DOMAIN text
      BY <1>2, <3>1 DEF Flushed
    <3> QED BY <3>2 DEF Moves, TextMoves
  <2>2. gone \/ Covers(out, text, 0, Flushed)
    BY DEF OutInv, TextInv
  <2> QED BY <2>1, <2>2, <1>2 DEF Covers
<1>4. CASE gone
  <2>1. out' = out /\ gone' = gone
    BY <1>4, Appended DEF Moves
  <2>2. Spell(out, 0, Flushed')
    BY <1>2 DEF OutInv, TextInv, Spell
  <2> QED BY <1>4, <2>1, <2>2 DEF TextInv, Moves, TextMoves
<1>5. CASE ~gone
  <2>1. out' = out \o items /\ gone' = gone
    BY <1>5, Appended DEF Moves
  <2>2. Spell(out', 0, Flushed') /\ Covers(out', text', 0, Flushed')
    BY <1>1, <1>2, <1>3, <1>5, <2>1, SpellJoin, CoversJoin DEF OutInv, TextInv
  <2> QED BY <2>2 DEF TextInv, Moves, TextMoves
<1> QED BY <1>4, <1>5

(* It keeps the calls where they may be.                                    *)
LEMMA CallStep ==
    ASSUME TypeInv, OutInv, Moves, NEW items, Answer(items)
    PROVE  OnlyAuditedCalls'
<1> SUFFICES ASSUME dialog, audit, chain # "whole", NEW k \in DOMAIN out',
                    out'[k][1] \in {"call", "full"}, out'[k][2] \notin passed'
             PROVE  \/ /\ out'[k][1] = "call" /\ chain \in Events
                       /\ \E j \in DOMAIN out' : k < j /\ out'[j] = Done
                    \/ /\ out'[k][1] = "full"
                       /\ \/ \E j \in DOMAIN out' : j < k /\ out'[j] = Block
                          \/ \E j \in DOMAIN out' : k < j /\ out'[j] = Finish
  BY DEF OnlyAuditedCalls, Unaudited, Moves
<1>1. /\ \A j \in DOMAIN out : j \in DOMAIN out' /\ out'[j] = out[j] /\ j <= Len(out)
      /\ Len(out) \in Nat /\ DOMAIN out' = 1..Len(out')
  BY Appended
<1>2. CASE k \in DOMAIN out /\ out'[k] = out[k]
  <2>1. passed \subseteq passed'
    <3>1. out # <<>>
      BY <1>2
    <3> QED BY <3>1 DEF Moves
  <2>2. Unaudited(out[k])
    BY <1>2, <2>1 DEF Unaudited
  <2>3. \/ /\ out[k][1] = "call" /\ chain \in Events
           /\ \E j \in DOMAIN out : k < j /\ out[j] = Done
        \/ /\ out[k][1] = "full"
           /\ \/ \E j \in DOMAIN out : j < k /\ out[j] = Block
              \/ \E j \in DOMAIN out : k < j /\ out[j] = Finish
    BY <1>2, <2>2 DEF OutInv, OnlyAuditedCalls
  <2> QED BY <1>1, <1>2, <2>3
<1>3. CASE /\ ~gone /\ Len(out) < k
           /\ k - Len(out) \in DOMAIN items /\ out'[k] = items[k - Len(out)]
  <2> DEFINE i == k - Len(out)
  <2>1. k = i + Len(out) /\ i \in DOMAIN items /\ out'[k] = items[i] /\ i \in Nat
    BY <1>1, <1>3
  <2>2. Open(items[i])
    BY <2>1 DEF Open
  <2> HIDE DEF i
  <2>3. \/ /\ items[i][1] = "call" /\ chain \in Events
           /\ \E j \in DOMAIN items : i < j /\ items[j] = Done
        \/ /\ items[i][1] = "full"
           /\ \/ Refused
              \/ \E j \in DOMAIN items : j < i /\ items[j] = Block
              \/ \E j \in DOMAIN items : i < j /\ items[j] = Finish
    BY <2>1, <2>2, GoodIs DEF Answer, Written
  <2>4. ASSUME NEW j \in DOMAIN items
        PROVE  /\ j + Len(out) \in DOMAIN out' /\ out'[j + Len(out)] = items[j]
               /\ i < j => k < j + Len(out)
               /\ j < i => j + Len(out) < k
    <3>1. items \in Seq(Item)
      BY GoodIs DEF Answer, Renders
    <3>2. j \in Nat
      BY <3>1
    <3>3. j + Len(out) \in DOMAIN out' /\ out'[j + Len(out)] = items[j]
      BY <1>3, Appended
    <3> QED BY <1>1, <2>1, <3>2, <3>3
  <2>5. Refused => \E j \in DOMAIN out' : j < k /\ out'[j] = Block
    <3>1. \A j \in DOMAIN out : j < k
      BY <1>1, <1>3
    <3> QED BY <1>1, <3>1 DEF Refused
  <2> QED BY <2>1, <2>3, <2>4, <2>5
<1> QED BY <1>2, <1>3, Appended

(* The kinds of the items that end an answer.                               *)
LEMMA EndKinds ==
    /\ \A x \in Terminals : x[1] \in {"finish", "done"}
    /\ Done[1] = "done" /\ Failed[1] = "failed" /\ Block[1] = "block"
    /\ Done \in Terminals
BY DEF Terminals, Finish, Done, Failed, Block

(* It keeps the ends of the answer honest.                                  *)
LEMMA EndStep ==
    ASSUME TypeInv, OutInv, Moves, Ahead, NEW items, Answer(items)
    PROVE  EndIsHonest' /\ SentInv'
<1> DEFINE Old(k) == k \in DOMAIN out /\ out'[k] = out[k]
           Fresh(k) == /\ ~gone /\ Len(out) < k
                       /\ k - Len(out) \in DOMAIN items /\ out'[k] = items[k - Len(out)]
<1>1. /\ \A j \in DOMAIN out : j \in DOMAIN out' /\ out'[j] = out[j] /\ j <= Len(out)
      /\ Len(out) \in Nat /\ DOMAIN out' = 1..Len(out')
      /\ \A k \in DOMAIN out' : Old(k) \/ Fresh(k)
  BY Appended
<1> HIDE DEF Old, Fresh
<1>2. ASSUME NEW k, Fresh(k)
      PROVE  /\ k - Len(out) \in DOMAIN items /\ out'[k] = items[k - Len(out)] /\ ~gone
             /\ Written(items, k - Len(out))
  BY <1>2, GoodIs DEF Fresh, Answer
<1>3. ASSUME NEW k, Old(k) PROVE k \in DOMAIN out /\ out'[k] = out[k] /\ out # <<>>
  BY <1>3 DEF Old
<1>4. pc # "closed" /\ chain' = chain
  BY DEF Moves
<1>5. ASSUME NEW k \in DOMAIN out', Fresh(k), out'[k] \in Terminals
      PROVE  /\ k = Len(out') /\ ended' # "no" /\ seenEnd'
             /\ (chain \in Slow => \A i \in DOMAIN buf' : buf'[i][1] \notin {"w", "n"})
  <2>1. items[k - Len(out)][1] \in {"finish", "done"}
    BY <1>2, <1>5, EndKinds
  <2>2. /\ k - Len(out) = Len(items) /\ ended' # "no" /\ seenEnd'
        /\ (chain \in Slow => \A i \in DOMAIN buf' : buf'[i][1] \notin {"w", "n"})
    BY <1>2, <1>5, <2>1 DEF Written
  <2>3. Len(out') = Len(out) + Len(items) /\ Len(items) \in Nat
    BY <1>2, <1>5, Appended
  <2>4. k \in Nat
    BY <1>1
  <2>5. k = Len(out')
    BY <1>1, <2>2, <2>3, <2>4
  <2> QED BY <2>2, <2>5
<1>6. EndsWereSent'
  <2> SUFFICES ASSUME NEW k \in DOMAIN out', out'[k] \in Terminals PROVE ended' # "no"
    BY DEF EndsWereSent, Terminals, Finish, Done
  <2>1. CASE Old(k)
    BY <1>3, <2>1 DEF OutInv, EndIsHonest, EndsWereSent, Moves
  <2> QED BY <1>1, <1>5, <2>1
<1>7. EndsFollowText'
  <2> SUFFICES ASSUME NEW k \in DOMAIN out', out'[k] \in Terminals, chain \in Slow,
                      NEW i \in DOMAIN text', text'[i] \in {"w", "n"}
               PROVE  \E j \in TextAt(out') : j < k /\ out'[j][2] = i
    BY <1>4 DEF EndsFollowText, Terminals, Finish, Done
  <2>1. CASE Old(k)
    <3>1. out[k] \in Terminals /\ k \in DOMAIN out
      BY <1>3, <2>1
    <3>2. ended # "no"
      BY <3>1 DEF OutInv, EndIsHonest, EndsWereSent
    <3>3. text' = text
      BY <3>2 DEF Moves
    <3>4. PICK j \in TextAt(out) : j < k /\ out[j][2] = i
      BY <3>1, <3>3 DEF OutInv, EndIsHonest, EndsFollowText
    <3>5. j \in TextAt(out') /\ out'[j] = out[j]
      BY <1>1, <3>4 DEF TextAt
    <3> QED BY <3>4, <3>5
  <2>2. CASE Fresh(k)
    <3>1. k = Len(out') /\ \A m \in DOMAIN buf' : buf'[m][1] \notin {"w", "n"}
      BY <1>5, <2>2
    <3>2. Covers(out', text', 0, Flushed')
      BY <1>2, <2>2, TextStep
    <3>3. /\ Len(text') \in Nat /\ DOMAIN text' = 1..Len(text')
          /\ Len(buf') \in Nat /\ DOMAIN buf' = 1..Len(buf')
          /\ Flushed' = Len(text') - Len(buf') /\ Flushed' \in Nat
      BY DEF Moves, TextMoves, Buffers, Flushed
    <3>4. ASSUME i > Flushed' PROVE FALSE
      <4>1. i - Flushed' \in DOMAIN buf' /\ Flushed' + (i - Flushed') = i
        <5>1. PICK f \in Nat : f = Flushed'
          BY <3>3
        <5>2. i - f \in 1..Len(buf') /\ f + (i - f) = i
          BY <3>3, <3>4, <5>1
        <5> QED BY <3>3, <5>1, <5>2
      <4>2. buf'[i - Flushed'][1] = text'[i]
        BY <4>1 DEF Moves, TextMoves, Piece
      <4> QED BY <3>1, <4>1, <4>2
    <3>5. i \in (0 + 1)..Flushed'
      BY <3>3, <3>4
    <3>6. PICK j \in TextAt(out') : out'[j][2] = i
      BY <3>2, <3>5 DEF Covers
    <3>7. j # k
      BY EndKinds, <3>6 DEF TextAt, TextKinds
    <3>8. j < k
      BY <1>1, <3>1, <3>6, <3>7 DEF TextAt
    <3> QED BY <3>6, <3>8
  <2> QED BY <1>1, <2>1, <2>2
<1>8. DoneIsFinal'
  <2> SUFFICES ASSUME NEW j \in DOMAIN out', NEW k \in DOMAIN out', k < j,
                      out'[k] = Done, chain \in Slow
               PROVE  chain \in Events /\ out'[j] = Block
    BY <1>4 DEF DoneIsFinal, Done, Block
  <2>1. CASE Fresh(k)
    BY <1>1, <1>5, <2>1, EndKinds
  <2>2. CASE Old(k) /\ Old(j)
    BY <1>3, <2>2 DEF OutInv, EndIsHonest, DoneIsFinal
  <2>3. CASE Old(k) /\ Fresh(j)
    <3>1. ended = "done" /\ out # <<>>
      BY <1>3, <1>4, <2>3 DEF OutInv, SentInv
    <3>2. chain \in Events /\ items[j - Len(out)] = Block
      BY <1>2, <2>3, <3>1 DEF Answer, Good
    <3> QED BY <1>2, <2>3, <3>2
  <2> QED BY <1>1, <2>1, <2>2, <2>3
<1>9. FailedIsUnended'
  <2> SUFFICES ASSUME NEW j \in DOMAIN out', NEW k \in DOMAIN out', out'[k] = Failed,
                      out'[j] \in Terminals
               PROVE  FALSE
    BY DEF FailedIsUnended, Terminals, Finish, Done, Failed
  <2>1. CASE Old(k)
    BY <1>3, <1>4, <2>1 DEF OutInv, SentInv
  <2>2. CASE Fresh(k)
    <3>1. ~seenEnd /\ \A i \in DOMAIN items : items[i][1] \notin {"finish", "done"}
      BY <1>2, <2>2, EndKinds DEF Written
    <3>2. CASE Old(j)
      BY <1>3, <3>1, <3>2 DEF OutInv, SentInv
    <3>3. CASE Fresh(j)
      BY <1>2, <3>1, <3>3, EndKinds
    <3> QED BY <1>1, <3>2, <3>3
  <2> QED BY <1>1, <2>1, <2>2
<1>10. BlockHasCause'
  <2> SUFFICES ASSUME NEW k \in DOMAIN out', out'[k] = Block
               PROVE  parts' > 0 \/ out' = <<Block>>
    BY DEF BlockHasCause, Block
  <2>1. CASE Old(k)
    BY <1>3, <1>4, <2>1 DEF OutInv, SentInv, Ahead
  <2>2. CASE Fresh(k)
    <3>1. parts' > 0 \/ (out = <<>> /\ items = <<Block>>)
      BY <1>2, <2>2, EndKinds DEF Written
    <3>2. out = <<>> /\ items = <<Block>> => out' = <<Block>>
      <4>1. out' = out \o items
        BY <1>2, <2>2, Appended
      <4>2. items \in Seq(Item)
        BY GoodIs DEF Answer, Renders
      <4> QED BY <4>1, <4>2
    <3> QED BY <3>1, <3>2
  <2> QED BY <1>1, <2>1, <2>2
<1>11. SentInv'
  <2> SUFFICES ASSUME NEW k \in DOMAIN out'
               PROVE  /\ out'[k] \in Terminals => seenEnd'
                      /\ pc' # "closed" =>
                            /\ out'[k] = Done /\ chain \in Slow => ended' = "done"
                            /\ out'[k] # Failed
                            /\ out'[k] = Block => parts' > 0
    BY <1>4 DEF SentInv, Terminals, Finish, Done, Failed, Block
  <2>1. CASE Old(k)
    BY <1>3, <1>4, <2>1 DEF OutInv, SentInv, Ahead, Moves
  <2>2. CASE Fresh(k)
    <3>1. out'[k] \in Terminals => seenEnd'
      BY <1>5, <2>2
    <3>2. /\ out'[k] = Done /\ chain \in Slow => pc' = "closed" \/ ended' = "done"
          /\ out'[k] = Failed => pc' = "closed"
          /\ out'[k] = Block => parts' > 0 \/ pc' = "closed"
      BY <1>2, <2>2, EndKinds DEF Written
    <3> QED BY <3>1, <3>2
  <2> QED BY <1>1, <2>1, <2>2
<1> QED BY <1>6, <1>7, <1>8, <1>9, <1>10, <1>11 DEF EndIsHonest

LEMMA OutStep ==
    ASSUME TypeInv, OutInv, Moves, Ahead, NEW items, Answer(items)
    PROVE  OutInv' /\ out' \in Seq(Item)
BY TextStep, CallStep, EndStep, Appended DEF OutInv

----------------------------------------------------------------------------
(* The ways the text and the buffer move                                    *)

(* The buffer is the part of the text that was not written yet.             *)
LEMMA BufferIs ==
    ASSUME TypeInv, TextInv
    PROVE  /\ text \in Seq(Symbols) /\ Len(text) \in Nat /\ DOMAIN text = 1..Len(text)
           /\ buf \in Buffers /\ Len(buf) \in Nat /\ DOMAIN buf = 1..Len(buf)
           /\ Flushed \in Nat /\ Flushed + Len(buf) = Len(text)
           /\ Piece(buf, text, Flushed)
BY DEF TypeInv, TextInv, Buffers, Flushed

(* An empty buffer stands at the end of the text.                           *)
LEMMA EmptyBuffer ==
    ASSUME NEW tx \in Seq(Symbols)
    PROVE  /\ <<>> \in Buffers /\ Len(<<>>) = 0
           /\ Piece(<<>>, tx, Len(tx))
BY DEF Buffers, Piece

(* A step that empties the buffer has written the whole text.               *)
LEMMA EmptyMoves ==
    ASSUME TypeInv, TextInv, text' \in Seq(Symbols), Len(text) <= Len(text'),
           \A i \in DOMAIN text : text'[i] = text[i], buf' = <<>>
    PROVE  TextMoves /\ Flushed' = Len(text')
<1>1. Flushed' = Len(text') /\ Len(text') \in Nat
  BY EmptyBuffer DEF Flushed
<1>2. Piece(buf', text', Flushed') /\ buf' \in Buffers
  BY <1>1, EmptyBuffer
<1>3. Flushed <= Flushed'
  BY <1>1, BufferIs
<1> QED BY <1>1, <1>2, <1>3, BufferIs DEF TextMoves

(* Neither changes.                                                         *)
LEMMA Still ==
    ASSUME TypeInv, TextInv, UNCHANGED <<text, buf>>
    PROVE  TextMoves /\ Flushed' = Flushed
<1>1. Flushed' = Flushed
  BY DEF Flushed
<1> QED BY <1>1, BufferIs DEF TextMoves

(* The whole buffer is written.                                             *)
LEMMA FlushAll ==
    ASSUME TypeInv, TextInv, text' = text, buf' = <<>>
    PROVE  TextMoves /\ Fit(Emit(buf), Flushed, Flushed')
<1>1. Flushed' = Len(text)
  BY BufferIs DEF Flushed
<1>2. TextMoves
  BY <1>1, BufferIs, EmptyBuffer DEF TextMoves
<1>3. Renders(Emit(buf), text', Flushed, Flushed + Len(buf))
  BY BufferIs, EmitRenders
<1>4. \A k \in DOMAIN Emit(buf) : Emit(buf)[k][1] \in TextKinds
  BY BufferIs, EmitRenders
<1> QED BY <1>1, <1>2, <1>3, <1>4, BufferIs, FitText

(* The first m atoms of the buffer are written.                             *)
LEMMA CutOff ==
    ASSUME TypeInv, TextInv, NEW m \in 0..Len(buf), text' = text,
           buf' = SubSeq(buf, m + 1, Len(buf))
    PROVE  /\ TextMoves
           /\ Fit(Emit(SubSeq(buf, 1, m)), Flushed, Flushed')
<1> DEFINE v == SubSeq(buf, m + 1, Len(buf))
           e == Emit(SubSeq(buf, 1, m))
<1>1. /\ Renders(e, text, Flushed, Flushed + m)
      /\ \A k \in DOMAIN e : e[k][1] \in TextKinds
      /\ v \in Buffers /\ Len(v) = Len(buf) - m /\ Piece(v, text, Flushed + m)
  BY BufferIs, CutRenders
<1> HIDE DEF v, e
<1>2. Flushed' = Flushed + m
  <2>1. Len(buf') = Len(buf) - m
    BY <1>1 DEF v
  <2>2. Len(buf) \in Nat /\ Len(text) \in Nat
    BY BufferIs
  <2>3. Flushed' = Len(text) - Len(buf')
    BY DEF Flushed
  <2>4. Flushed = Len(text) - Len(buf)
    BY DEF Flushed
  <2>5. m \in Nat
    BY <2>2
  <2> QED BY <2>1, <2>2, <2>3, <2>4, <2>5
<1>3. TextMoves
  BY <1>1, <1>2, BufferIs DEF TextMoves, v
<1>4. Fit(e, Flushed, Flushed')
  BY <1>1, <1>2, FitText
<1> QED BY <1>3, <1>4 DEF e

(* The atoms of an event.                                                   *)
LEMMA TextsAre ==
    ASSUME TypeInv, FastInv, NEW t \in Texts
    PROVE  t \in Seq(Symbols) /\ (chain = "fast" => \A k \in DOMAIN t : t[k] # "a")
<1> DEFINE last == IF text = <<>> THEN "n" ELSE Last(text)
<1>1. last \in Symbols /\ (chain = "fast" => last # "a")
  BY DEF TypeInv, FastInv, Last, Symbols, Atoms
<1>2. \A x : \A y \in Follows(x) :
          y \in Symbols /\ (chain = "fast" /\ x # "a" => y # "a")
  BY DEF Follows, Symbols, Atoms
<1>3. \/ \E x \in Follows(last) : t = <<x>>
      \/ \E x \in Follows(last) : \E y \in Follows(x) : t = <<x, y>>
  BY DEF Texts
<1> HIDE DEF last
<1>4. CASE \E x \in Follows(last) : t = <<x>>
  <2>1. PICK x \in Follows(last) : t = <<x>>
    BY <1>4
  <2>2. x \in Symbols /\ (chain = "fast" => x # "a")
    BY <1>1, <1>2
  <2> QED BY <2>1, <2>2
<1>5. CASE \E x \in Follows(last) : \E y \in Follows(x) : t = <<x, y>>
  <2>1. PICK x \in Follows(last) : \E y \in Follows(x) : t = <<x, y>>
    BY <1>5
  <2>2. PICK y \in Follows(x) : t = <<x, y>>
    BY <2>1
  <2>3. x \in Symbols /\ (chain = "fast" => x # "a")
    BY <1>1, <1>2
  <2>4. y \in Symbols /\ (chain = "fast" => y # "a")
    BY <1>2, <2>3
  <2> QED BY <2>2, <2>3, <2>4
<1> QED BY <1>3, <1>4, <1>5

(* Text is added: what enters the buffer.                                   *)
LEMMA Grown ==
    ASSUME TypeInv, TextInv, NEW t \in Seq(Symbols), text' = text \o t
    PROVE  /\ text' \in Seq(Symbols) /\ Len(text') = Len(text) + Len(t) /\ Len(t) \in Nat
           /\ DOMAIN text' = 1..Len(text')
           /\ \A i \in DOMAIN text : text'[i] = text[i]
           /\ New(t) \in Buffers /\ Len(New(t)) = Len(t) /\ DOMAIN New(t) = DOMAIN t
           /\ \A k \in DOMAIN t : New(t)[k] = <<t[k], Len(text) + k>>
           /\ Piece(New(t), text', Len(text))
           /\ buf \o New(t) \in Buffers
           /\ Len(buf \o New(t)) = Len(buf) + Len(t)
           /\ Piece(buf \o New(t), text', Flushed)
<1> DEFINE n == New(t)
           q == buf \o n
<1>1. /\ Len(t) \in Nat /\ DOMAIN t = 1..Len(t)
      /\ \A k \in 1..Len(t) : t[k] \in Symbols
  OBVIOUS
<1>2. /\ text' \in Seq(Symbols) /\ Len(text') = Len(text) + Len(t)
      /\ DOMAIN text' = 1..Len(text')
      /\ \A i \in DOMAIN text : text'[i] = text[i]
      /\ \A k \in 1..Len(t) : text'[Len(text) + k] = t[k]
  BY <1>1, BufferIs
<1>3. n = [k \in 1..Len(t) |-> <<t[k], Len(text) + k>>]
  BY <1>1 DEF New
<1>4. \A k \in 1..Len(t) : <<t[k], Len(text) + k>> \in Symbols \X Nat
  <2> TAKE k \in 1..Len(t)
  <2>1. t[k] \in Symbols /\ Len(text) + k \in Nat
    BY <1>1, BufferIs
  <2> QED BY <2>1
<1>5. n \in Seq(Symbols \X Nat) /\ Len(n) = Len(t) /\ DOMAIN n = 1..Len(t)
  BY <1>1, <1>3, <1>4
<1>6. \A k \in 1..Len(t) : n[k] = <<t[k], Len(text) + k>>
  BY <1>3
<1> HIDE DEF n
<1>7. Piece(n, text', Len(text))
  BY <1>1, <1>2, <1>5, <1>6 DEF Piece
<1>8. buf \in Seq(Symbols \X Nat)
  BY BufferIs DEF Buffers
<1>9. /\ q \in Seq(Symbols \X Nat) /\ Len(q) = Len(buf) + Len(t)
      /\ DOMAIN q = 1..(Len(buf) + Len(t))
      /\ \A k \in 1..(Len(buf) + Len(t)) :
            q[k] = IF k <= Len(buf) THEN buf[k] ELSE n[k - Len(buf)]
  <2> DEFINE A == Symbols \X Nat
  <2>1. buf \in Seq(A) /\ n \in Seq(A)
    BY <1>5, <1>8
  <2> HIDE DEF A
  <2>2. /\ q \in Seq(A) /\ Len(q) = Len(buf) + Len(n)
        /\ DOMAIN q = 1..(Len(buf) + Len(n))
        /\ \A k \in 1..(Len(buf) + Len(n)) :
              q[k] = IF k <= Len(buf) THEN buf[k] ELSE n[k - Len(buf)]
    BY <2>1
  <2> QED BY <1>5, <2>2 DEF A
<1> HIDE DEF q
<1>10. ASSUME NEW k \in DOMAIN q PROVE q[k] = <<text'[Flushed + k], Flushed + k>>
  <2>1. k \in Nat /\ k \in 1..(Len(buf) + Len(t))
    BY <1>1, <1>9, BufferIs
  <2>2. CASE k <= Len(buf)
    <3>1. k \in DOMAIN buf /\ q[k] = buf[k]
      BY <1>9, <2>1, <2>2, BufferIs
    <3>2. buf[k] = <<text[Flushed + k], Flushed + k>>
      BY <3>1, BufferIs DEF Piece
    <3>3. Flushed + k \in DOMAIN text
      BY <2>1, <2>2, BufferIs
    <3> QED BY <1>2, <3>1, <3>2, <3>3
  <2>3. CASE ~(k <= Len(buf))
    <3>1. k - Len(buf) \in 1..Len(t) /\ q[k] = n[k - Len(buf)]
      BY <1>1, <1>9, <2>1, <2>3, BufferIs
    <3>2. Len(text) + (k - Len(buf)) = Flushed + k
      BY <2>1, BufferIs
    <3> QED BY <1>2, <1>6, <3>1, <3>2
  <2> QED BY <2>2, <2>3
<1>11. Flushed + Len(q) <= Len(text')
  BY <1>1, <1>2, <1>9, BufferIs
<1>12. Piece(q, text', Flushed)
  BY <1>10, <1>11 DEF Piece
<1> QED BY <1>1, <1>2, <1>5, <1>6, <1>7, <1>9, <1>12 DEF n, q, Buffers

(* Text is added and what is ready is written.                              *)
LEMMA GrownSent ==
    ASSUME TypeInv, TextInv, NEW t \in Seq(Symbols), text' = text \o t,
           buf' = Left(buf \o New(t))
    PROVE  TextMoves /\ Fit(Sent(buf \o New(t)), Flushed, Flushed')
<1> DEFINE q == buf \o New(t)
           m == Ready(q)
           v == SubSeq(q, m + 1, Len(q))
           e == Emit(SubSeq(q, 1, m))
<1>1. /\ text' \in Seq(Symbols) /\ Len(text') = Len(text) + Len(t) /\ Len(t) \in Nat
      /\ \A i \in DOMAIN text : text'[i] = text[i]
      /\ q \in Buffers /\ Len(q) = Len(buf) + Len(t) /\ Piece(q, text', Flushed)
  BY Grown
<1> HIDE DEF q
<1>2. m \in 0..Len(q)
  BY <1>1, ReadyRange
<1> HIDE DEF m
<1>3. /\ Renders(e, text', Flushed, Flushed + m)
      /\ \A k \in DOMAIN e : e[k][1] \in TextKinds
      /\ v \in Buffers /\ Len(v) = Len(q) - m /\ Piece(v, text', Flushed + m)
  BY <1>1, <1>2, BufferIs, CutRenders
<1> HIDE DEF v, e
<1>4. buf' = v
  BY DEF Left, v, m, q
<1>5. Flushed' = Flushed + m /\ m \in Nat
  <2>1. Flushed' = Len(text') - Len(v)
    BY <1>4 DEF Flushed
  <2> QED BY <1>1, <1>2, <1>3, <2>1, BufferIs
<1>6. TextMoves
  BY <1>1, <1>3, <1>4, <1>5, BufferIs DEF TextMoves
<1>7. Fit(e, Flushed, Flushed')
  BY <1>3, <1>5, FitText
<1> QED BY <1>6, <1>7 DEF Sent, e, m, q

(* Text is added and everything is written.                                 *)
LEMMA GrownAll ==
    ASSUME TypeInv, TextInv, NEW t \in Seq(Symbols), text' = text \o t, buf' = <<>>
    PROVE  /\ TextMoves
           /\ Fit(Sent(buf \o New(t)) \o Emit(Left(buf \o New(t))), Flushed, Flushed')
<1> DEFINE q == buf \o New(t)
           m == Ready(q)
           v == SubSeq(q, m + 1, Len(q))
           e == Emit(SubSeq(q, 1, m))
           f == Emit(v)
<1>1. /\ text' \in Seq(Symbols) /\ Len(text') = Len(text) + Len(t) /\ Len(t) \in Nat
      /\ \A i \in DOMAIN text : text'[i] = text[i]
      /\ q \in Buffers /\ Len(q) = Len(buf) + Len(t) /\ Piece(q, text', Flushed)
  BY Grown
<1> HIDE DEF q
<1>2. m \in 0..Len(q)
  BY <1>1, ReadyRange
<1> HIDE DEF m
<1>3. /\ Renders(e, text', Flushed, Flushed + m)
      /\ \A k \in DOMAIN e : e[k][1] \in TextKinds
      /\ v \in Buffers /\ Len(v) = Len(q) - m /\ Piece(v, text', Flushed + m)
  BY <1>1, <1>2, BufferIs, CutRenders
<1> HIDE DEF v, e
<1>4. m \in Nat /\ Flushed + m \in Nat
  BY <1>1, <1>2, BufferIs
<1>5. /\ Renders(f, text', Flushed + m, Flushed + m + Len(v))
      /\ \A k \in DOMAIN f : f[k][1] \in TextKinds
  BY <1>1, <1>3, <1>4, EmitRenders
<1> HIDE DEF f
<1>6. Flushed' = Len(text') /\ Flushed + m + Len(v) = Len(text')
  BY <1>1, <1>3, <1>4, BufferIs, EmptyBuffer DEF Flushed
<1>7. TextMoves
  <2>1. Len(text) <= Len(text')
    BY <1>1, BufferIs
  <2> QED BY <1>1, <2>1, EmptyMoves
<1>8. Fit(e, Flushed, Flushed + m) /\ Fit(f, Flushed + m, Flushed')
  BY <1>3, <1>5, <1>6, FitText
<1>9. Flushed <= Flushed + m /\ Flushed + m <= Flushed' /\ Flushed' \in Nat
  BY <1>1, <1>2, <1>3, <1>4, <1>6, BufferIs
<1>10. Fit(e \o f, Flushed, Flushed')
  BY <1>4, <1>8, <1>9, BufferIs, FitJoin
<1> QED BY <1>7, <1>10 DEF Sent, Left, e, f, v, m, q

(* Text without tokens passes as it came, nothing being buffered.           *)
LEMMA GrownPass ==
    ASSUME TypeInv, TextInv, NEW t \in Seq(Symbols), text' = text \o t,
           \A k \in DOMAIN t : t[k] # "a", buf = <<>>, buf' = buf
    PROVE  TextMoves /\ Fit(New(t), Flushed, Flushed')
<1> DEFINE n == New(t)
<1>1. /\ text' \in Seq(Symbols) /\ Len(text') = Len(text) + Len(t) /\ Len(t) \in Nat
      /\ DOMAIN text' = 1..Len(text')
      /\ \A i \in DOMAIN text : text'[i] = text[i]
      /\ n \in Buffers /\ DOMAIN n = DOMAIN t /\ Len(n) = Len(t)
      /\ \A k \in DOMAIN t : n[k] = <<t[k], Len(text) + k>>
      /\ Piece(n, text', Len(text))
  BY Grown
<1> HIDE DEF n
<1>2. Flushed = Len(text) /\ Flushed' = Len(text')
  BY <1>1, BufferIs, EmptyBuffer DEF Flushed
<1>3. TextMoves
  <2>1. Len(text) <= Len(text')
    BY <1>1, BufferIs
  <2> QED BY <1>1, <2>1, EmptyMoves
<1>4. DOMAIN t = 1..Len(t) /\ \A k \in DOMAIN t : t[k] \in Symbols
  OBVIOUS
<1>5. \A k \in DOMAIN n : n[k][1] = t[k] /\ n[k][2] = Len(text) + k /\ n[k][1] \in TextKinds
  BY <1>1, <1>4 DEF Symbols, Atoms, TextKinds
<1>6. n \in Seq(Item)
  <2>1. \A k \in DOMAIN n : n[k] \in Item
    <3> TAKE k \in DOMAIN n
    <3>1. t[k] \in ItemKinds /\ Len(text) + k \in Nat /\ n[k] = <<t[k], Len(text) + k>>
      BY <1>1, <1>4, BufferIs DEF Symbols, Atoms, ItemKinds, TextKinds
    <3> QED BY <3>1 DEF Item
  <2>2. DOMAIN n = 1..Len(n) /\ n = [k \in 1..Len(n) |-> n[k]] /\ Len(n) \in Nat
    BY <1>1 DEF Buffers
  <2> QED BY <2>1, <2>2
<1>7. Spell(n, Flushed, Flushed')
  <2>1. ASSUME NEW k \in TextAt(n)
        PROVE  n[k][1] # "a" /\ n[k][2] \in (Flushed + 1)..Flushed'
    <3>1. k \in 1..Len(t)
      BY <1>1, <1>4 DEF TextAt
    <3>2. n[k][1] = t[k] /\ n[k][2] = Len(text) + k /\ t[k] # "a"
      BY <1>1, <1>4, <1>5, <3>1
    <3>3. Len(text) \in Nat /\ Len(t) \in Nat /\ Flushed' = Len(text) + Len(t)
      BY <1>1, <1>2, BufferIs
    <3>4. Len(text) + k \in (Flushed + 1)..Flushed'
      BY <1>2, <3>1, <3>3
    <3> QED BY <3>2, <3>4
  <2>2. ASSUME NEW k \in TextAt(n), NEW j \in TextAt(n), j < k PROVE n[j][2] < n[k][2]
    <3>1. k \in 1..Len(t) /\ j \in 1..Len(t)
      BY <1>1, <1>4 DEF TextAt
    <3>2. n[j][2] = Len(text) + j /\ n[k][2] = Len(text) + k
      BY <1>1, <1>4, <1>5, <3>1
    <3>3. Len(text) \in Nat
      BY BufferIs
    <3> QED BY <1>1, <2>2, <3>1, <3>2, <3>3
  <2> QED BY <2>1, <2>2 DEF Spell
<1>8. Covers(n, text', Flushed, Flushed')
  <2> SUFFICES ASSUME NEW i \in (Flushed + 1)..Flushed'
               PROVE  \E j \in TextAt(n) : n[j][2] = i
    BY DEF Covers
  <2>1. i - Len(text) \in 1..Len(t) /\ Len(text) + (i - Len(text)) = i
    BY <1>1, <1>2, BufferIs
  <2>2. i - Len(text) \in TextAt(n)
    BY <1>1, <1>4, <1>5, <2>1 DEF TextAt
  <2> QED BY <1>1, <1>4, <1>5, <2>1, <2>2
<1>9. Fit(n, Flushed, Flushed')
  BY <1>5, <1>6, <1>7, <1>8, FitText DEF Renders
<1> QED BY <1>3, <1>9 DEF n

(* What may be written anywhere is a good answer before [DONE].             *)
LEMMA FitGood ==
    ASSUME NEW items, Fit(items, Flushed, Flushed'),
           chain \in Slow /\ items # <<>> /\ out # <<>> => ended # "done"
    PROVE  Good(items)
<1>1. Loose(items, Flushed, Flushed', Other, Refused)
  BY FitIsLoose
<1>2. items = <<>> => DOMAIN items = {}
  OBVIOUS
<1> QED BY <1>1, <1>2 DEF Good

(* So is what ends with an end of the answer.                               *)
LEMMA EndGood ==
    ASSUME NEW u, NEW x, Moves, Loose(u, Flushed, Flushed', x, Refused), Ends(x),
           chain \in Slow /\ out # <<>> => ended # "done"
    PROVE  Good(u \o <<x>>)
<1>1. u \in Seq(Item)
  BY DEF Loose, Renders
<1>2. <<x>> \in Seq(Item)
  BY DEF Ends, Terminals, Finish, Done, Item, ItemKinds
<1>3. u \o <<x>> = (u \o <<x>>) \o <<>>
  <2>1. u \o <<x>> \in Seq(Item)
    BY <1>1, <1>2
  <2> QED BY <2>1
<1>4. Loose(<<>>, Flushed', Flushed', Other, Refused \/ x = Block)
  <2>1. PICK hi \in Nat : hi = Flushed'
    BY DEF Moves, TextMoves
  <2>2. Fit(<<>>, hi, hi)
    BY FitNone
  <2>3. Loose(<<>>, hi, hi, Other, Refused \/ x = Block)
    BY <2>2, FitIsLoose
  <2> QED BY <2>1, <2>3
<1>5. Around(u \o <<x>>, u, x, <<>>)
  BY <1>3, <1>4 DEF Around
<1> QED BY <1>5 DEF Good

(* The guard against an empty answer.                                       *)
LEMMA SilentRefusal ==
    ASSUME TypeInv, Moves, pc' = "closed", NEW items, Good(items), Write(RefusalIfSilent(items))
    PROVE  \E x : Answer(x)
<1>1. items \in Seq(Item) /\ out \in Seq(Item) /\ Renders(items, text', Flushed, Flushed')
  BY GoodIs DEF Renders, TypeInv
<1>2. CASE out \o items = <<>> /\ ok
  <2>1. items = <<>> /\ out = <<>>
    <3>1. Len(out \o items) = Len(out) + Len(items) /\ Len(out) \in Nat /\ Len(items) \in Nat
      BY <1>1
    <3>2. Len(out) = 0 /\ Len(items) = 0
      BY <1>2, <3>1
    <3> QED BY <1>1, <3>2
  <2> DEFINE e == <<>>
  <2>2. Renders(e, text', Flushed, Flushed') /\ DOMAIN e = {}
    BY <1>1, <2>1
  <2>3. Loose(e, Flushed, Flushed', Block, Refused)
    <3> HIDE DEF e
    <3> QED BY <2>2 DEF Loose
  <2>4. Loose(e, Flushed', Flushed', Other, Refused \/ Block = Block)
    <3>1. PICK hi \in Nat : hi = Flushed'
      BY DEF Moves, TextMoves
    <3>2. Fit(e, hi, hi)
      BY FitNone
    <3> HIDE DEF e
    <3>3. Loose(e, hi, hi, Other, Refused \/ Block = Block)
      BY <3>2, FitIsLoose
    <3> QED BY <3>1, <3>3
  <2>5. <<Block>> = (e \o <<Block>>) \o e
    BY DEF Block
  <2>6. e = <<>>
    OBVIOUS
  <2> HIDE DEF e
  <2>7. Around(<<Block>>, e, Block, e)
    BY <2>1, <2>3, <2>4, <2>5, <2>6 DEF Around
  <2>8. Good(<<Block>>)
    BY <2>1, <2>7 DEF Good
  <2>9. Write(<<Block>>)
    BY <1>2 DEF RefusalIfSilent
  <2> QED BY <2>8, <2>9 DEF Answer
<1>3. CASE ~(out \o items = <<>> /\ ok)
  <2>1. Write(items)
    BY <1>3 DEF RefusalIfSilent
  <2> QED BY <2>1 DEF Answer
<1> QED BY <1>2, <1>3

----------------------------------------------------------------------------
(* The chat chain                                                           *)

(* An audit at the end of a call, and what it writes.                       *)
LEMMA AuditFits ==
    ASSUME TypeInv, CallInv, parts' = parts, NEW due \in BOOLEAN, NEW written,
           AuditIf(due, written), NEW lo \in Nat
    PROVE  /\ Fit(written, lo, lo)
           /\ passed \subseteq passed'
           /\ args' \in Seq(Nat) /\ audited' \in BOOLEAN /\ blocked' \in BOOLEAN
           /\ due => args' = <<>> \/ audited'
           /\ args = <<>> \/ audited => written = <<>> /\ args' = args /\ audited' = audited
<1> USE DEF TypeInv
<1>1. CASE due /\ args # <<>> /\ ~audited
  <2>1. Audit(written)
    BY <1>1 DEF AuditIf
  <2>2. CASE audit /\ blocked' = TRUE /\ written = <<Block>> /\ passed' = passed
    <3>1. parts' > 0
      BY <1>1 DEF CallInv
    <3>2. Fit(<<Block>>, lo, lo)
      BY <3>1, FitKinds
    <3> QED BY <1>1, <2>1, <2>2, <3>2 DEF Audit
  <2>3. CASE /\ passed' = passed \cup Range(args) /\ written = Items(args)
             /\ blocked' = blocked
    <3>1. \A k \in DOMAIN args : args[k] \in passed'
      BY <2>3 DEF Range
    <3>2. Fit(Items(args), lo, lo)
      BY <3>1, FitCalls
    <3>3. passed \subseteq passed'
      BY <2>3
    <3>4. args' = <<>> /\ audited' = TRUE
      BY <2>1 DEF Audit
    <3>5. args' \in Seq(Nat) /\ audited' \in BOOLEAN /\ blocked' \in BOOLEAN
      BY <2>3, <3>4
    <3> HIDE DEF TypeInv
    <3> QED BY <1>1, <2>3, <3>2, <3>3, <3>4, <3>5
  <2> QED BY <2>1, <2>2, <2>3 DEF Audit
<1>2. CASE ~(due /\ args # <<>> /\ ~audited)
  <2>1. written = <<>> /\ UNCHANGED <<args, audited, blocked, passed>>
    BY <1>2 DEF AuditIf
  <2>2. Fit(<<>>, lo, lo)
    BY FitNone
  <2> QED BY <1>2, <2>1, <2>2
<1> QED BY <1>1, <1>2

(* Every step of the chat chain answers with a fitting list.                *)
LEMMA ChatWrites ==
    ASSUME StreamInv, ChatNext
    PROVE  Moves /\ \E items : Answer(items)
<1> USE DEF StreamInv, ControlInv, OutInv
<1>1. ASSUME NEW t \in Texts, NEW fin \in BOOLEAN, ChatText(t, fin)
      PROVE  Moves /\ \E items : Answer(items)
  <2> DEFINE q == buf \o New(t)
  <2>1. t \in Seq(Symbols) /\ text' = text \o t /\ ended = "no"
    BY <1>1, TextsAre DEF ChatText, UpText
  <2>2. CASE fin
    <3>1. /\ buf' = <<>> /\ ended' = "finish"
          /\ Write((Sent(q) \o Emit(Left(q))) \o <<Finish>>)
      BY <1>1, <2>2 DEF ChatText, UpText
    <3>2. TextMoves /\ Fit(Sent(q) \o Emit(Left(q)), Flushed, Flushed')
      BY <2>1, <3>1, GrownAll
    <3>3. Moves
      BY <1>1, <2>1, <3>2 DEF Moves, ChatText, Chat, fixedVars, callVars
    <3>4. Ends(Finish)
      BY <1>1, <2>2, <3>1 DEF Ends, Terminals, Finish, Done, ChatText
    <3>5. Good((Sent(q) \o Emit(Left(q))) \o <<Finish>>)
      BY <2>1, <3>2, <3>3, <3>4, FitIsLoose, EndGood
    <3> QED BY <3>1, <3>3, <3>5 DEF Answer
  <2>3. CASE ~fin
    <3>1. buf' = Left(q) /\ Write(Sent(q)) /\ ended' = ended
      BY <1>1, <2>3 DEF ChatText, UpText
    <3>2. TextMoves /\ Fit(Sent(q), Flushed, Flushed')
      BY <2>1, <3>1, GrownSent
    <3>3. Moves
      BY <1>1, <2>1, <3>1, <3>2 DEF Moves, ChatText, Chat, fixedVars, callVars
    <3> QED BY <2>1, <3>1, <3>2, <3>3, FitGood DEF Answer
  <2> QED BY <2>2, <2>3
<1>2. ASSUME NEW over \in BOOLEAN, ChatPart(over)
      PROVE  Moves /\ \E items : Answer(items)
  <2>1. /\ text' = text /\ ended = "no" /\ ended' = ended /\ passed' = passed /\ ~gone
        /\ parts' > 0
    BY <1>2 DEF ChatPart, UpPart, Chat, TypeInv
  <2>2. CASE over
    <3>1. buf' = <<>> /\ Write(<<Block>> \o Emit(buf))
      BY <1>2, <2>2 DEF ChatPart
    <3>2. TextMoves /\ Fit(Emit(buf), Flushed, Flushed')
      BY <2>1, <3>1, FlushAll
    <3>3. Moves
      BY <1>2, <2>1, <3>2 DEF Moves, ChatPart, Chat, fixedVars
    <3>4. Flushed \in Nat /\ Flushed' \in Nat /\ Flushed <= Flushed'
      BY <3>2 DEF TextMoves
    <3>5. Fit(<<Block>>, Flushed, Flushed) /\ Flushed <= Flushed
      BY <2>1, <3>4, FitKinds
    <3>6. Fit(<<Block>> \o Emit(buf), Flushed, Flushed')
      BY <3>2, <3>4, <3>5, FitJoin
    <3> QED BY <2>1, <3>1, <3>3, <3>6, FitGood DEF Answer
  <2>3. CASE ~over
    <3>1. buf' = buf /\ out' = out
      BY <1>2, <2>3 DEF ChatPart
    <3>2. TextMoves /\ Flushed' = Flushed
      BY <2>1, <3>1, Still
    <3>3. Moves
      BY <1>2, <2>1, <3>2 DEF Moves, ChatPart, Chat, fixedVars
    <3>4. Write(<<>>)
      BY <3>1 DEF Write, TypeInv
    <3>5. Fit(<<>>, Flushed, Flushed')
      BY <3>2, FitNone DEF TextMoves
    <3> QED BY <2>1, <3>3, <3>4, <3>5, FitGood DEF Answer
  <2> QED BY <2>2, <2>3
<1>3. ASSUME ChatOther PROVE Moves /\ \E items : Answer(items)
  <2>1. /\ text' = text /\ ended # "done" /\ ended' = ended /\ buf' = <<>>
        /\ Write(Emit(buf) \o <<Other>>)
    BY <1>3 DEF ChatOther, UpOther
  <2>2. TextMoves /\ Fit(Emit(buf), Flushed, Flushed')
    BY <2>1, FlushAll
  <2>3. Moves
    BY <1>3, <2>1, <2>2 DEF Moves, ChatOther, Chat, fixedVars, callVars
  <2>4. Flushed \in Nat /\ Flushed' \in Nat /\ Flushed <= Flushed' /\ Flushed' <= Flushed'
    BY <2>2 DEF TextMoves
  <2>5. Fit(Emit(buf) \o <<Other>>, Flushed, Flushed')
    BY <2>2, <2>4, FitKinds, FitJoin
  <2> QED BY <2>1, <2>3, <2>5, FitGood DEF Answer
<1>4. ASSUME NEW kind \in {"stop", "tool_calls"}, ChatFinish(kind)
      PROVE  Moves /\ \E items : Answer(items)
  <2>1. /\ text' = text /\ ended = "no" /\ ended' = "finish" /\ seenEnd' = TRUE
        /\ parts' = parts
    BY <1>4 DEF ChatFinish, UpEnd
  <2>2. PICK written \in Writings :
          /\ AuditIf(kind = "tool_calls", written)
          /\ IF blocked' /\ kind = "tool_calls"
             THEN /\ Write(written)
                  /\ UNCHANGED buf
             ELSE /\ Write(written \o Emit(buf) \o <<Finish>>)
                  /\ buf' = <<>>
    BY <1>4 DEF ChatFinish
  <2>3. Flushed \in Nat
    BY BufferIs
  <2>4. Fit(written, Flushed, Flushed) /\ passed \subseteq passed'
    BY <2>1, <2>2, <2>3, AuditFits
  <2>5. CASE blocked' /\ kind = "tool_calls"
    <3>1. TextMoves /\ Flushed' = Flushed
      BY <2>1, <2>2, <2>5, Still
    <3>2. Moves
      BY <1>4, <2>1, <2>4, <3>1 DEF Moves, ChatFinish, Chat, fixedVars
    <3> QED BY <2>1, <2>2, <2>4, <2>5, <3>1, <3>2, FitGood DEF Answer
  <2>6. CASE ~(blocked' /\ kind = "tool_calls")
    <3>1. buf' = <<>> /\ Write((written \o Emit(buf)) \o <<Finish>>)
      BY <2>2, <2>6
    <3>2. TextMoves /\ Fit(Emit(buf), Flushed, Flushed')
      BY <2>1, <3>1, FlushAll
    <3>3. Moves
      BY <1>4, <2>1, <2>4, <3>2 DEF Moves, ChatFinish, Chat, fixedVars
    <3>4. /\ Flushed \in Nat /\ Flushed' \in Nat
          /\ Flushed <= Flushed' /\ Flushed' <= Flushed' /\ Flushed <= Flushed
      BY <3>2 DEF TextMoves
    <3>5. Fit(written \o Emit(buf), Flushed, Flushed')
      BY <2>4, <3>2, <3>4, FitJoin
    <3>6. Ends(Finish)
      BY <2>1, <3>1 DEF Ends, Terminals, Finish, Done
    <3>7. Good((written \o Emit(buf)) \o <<Finish>>)
      BY <2>1, <3>3, <3>5, <3>6, FitIsLoose, EndGood
    <3> QED BY <3>1, <3>3, <3>7 DEF Answer
  <2> QED BY <2>5, <2>6
<1>5. ASSUME ChatDone PROVE Moves /\ \E items : Answer(items)
  <2>1. /\ text' = text /\ ended # "done" /\ ended' = "done" /\ buf' = <<>>
        /\ seenEnd' = TRUE /\ parts' = parts
    BY <1>5 DEF ChatDone, UpEnd
  <2>2. PICK written \in Writings :
          AuditIf(TRUE, written) /\ Write((written \o Emit(buf)) \o <<Done>>)
    BY <1>5 DEF ChatDone
  <2>3. Flushed \in Nat
    BY BufferIs
  <2>4. Fit(written, Flushed, Flushed) /\ passed \subseteq passed'
    BY <2>1, <2>2, <2>3, AuditFits
  <2>5. TextMoves /\ Fit(Emit(buf), Flushed, Flushed')
    BY <2>1, FlushAll
  <2>6. Moves
    BY <1>5, <2>1, <2>4, <2>5 DEF Moves, ChatDone, Chat, fixedVars
  <2>7. /\ Flushed \in Nat /\ Flushed' \in Nat
        /\ Flushed <= Flushed' /\ Flushed <= Flushed
    BY <2>5 DEF TextMoves
  <2>8. Fit(written \o Emit(buf), Flushed, Flushed')
    BY <2>4, <2>5, <2>7, FitJoin
  <2>9. Ends(Done)
    BY <2>1 DEF Ends, Terminals
  <2>10. Good((written \o Emit(buf)) \o <<Done>>)
    BY <2>1, <2>6, <2>8, <2>9, FitIsLoose, EndGood
  <2> QED BY <2>2, <2>6, <2>10 DEF Answer
<1>6. ASSUME ChatEof PROVE Moves /\ \E items : Answer(items)
  <2>1. /\ text' = text /\ ended' = ended /\ buf' = buf /\ pc = "eof" /\ parts' = parts
        /\ UNCHANGED fixedVars /\ gone' = gone /\ chain = "chat"
    BY <1>6 DEF ChatEof, upVars
  <2>2. PICK written \in Writings : AuditIf(audit, written) /\ Write(written)
    BY <1>6 DEF ChatEof
  <2>3. TextMoves /\ Flushed' = Flushed /\ Flushed \in Nat
    BY <2>1, Still, BufferIs
  <2>4. audit \in BOOLEAN
    BY DEF TypeInv
  <2>5. /\ Fit(written, Flushed, Flushed) /\ passed \subseteq passed'
        /\ args = <<>> \/ audited => written = <<>>
    BY <2>1, <2>2, <2>3, <2>4, AuditFits
  <2>6. Moves
    BY <2>1, <2>3, <2>5 DEF Moves, fixedVars
  <2>7. written # <<>> => ended # "done"
    BY <2>1, <2>5 DEF EndInv
  <2> QED BY <2>2, <2>3, <2>5, <2>6, <2>7, FitGood DEF Answer
<1>7. ASSUME ChatTail PROVE Moves /\ \E items : Answer(items)
  <2> DEFINE e == Emit(buf)
  <2>1. /\ text' = text /\ ended' = ended /\ buf' = <<>> /\ pc = "tail" /\ pc' = "closed"
        /\ UNCHANGED fixedVars /\ gone' = gone /\ chain = "chat" /\ passed' = passed
        /\ seenEnd' = seenEnd
        /\ Write(RefusalIfSilent(e \o IF LacksDone THEN <<Done>> ELSE <<>>))
    BY <1>7 DEF ChatTail, upVars, callVars, Close
  <2>2. TextMoves /\ Fit(e, Flushed, Flushed')
    BY <2>1, FlushAll
  <2>3. Moves
    BY <2>1, <2>2 DEF Moves, fixedVars
  <2>4. Flushed \in Nat /\ Flushed' \in Nat /\ Flushed <= Flushed'
    BY <2>2 DEF TextMoves
  <2>5. e \in Seq(Item) /\ out \in Seq(Item)
    BY <2>2 DEF Fit, Loose, Renders, TypeInv
  <2>6. ended = "done" => e = <<>> /\ ~LacksDone
    <3>1. ended = "done" => buf = <<>> /\ doneSent
      BY <2>1 DEF EndInv
    <3>2. buf = <<>> => e = <<>>
      <4>1. buf = <<>> => Len(buf) <= 1 /\ \A k \in DOMAIN buf : buf[k][1] = "a"
        OBVIOUS
      <4> QED BY <4>1, BufferIs, EmitLoneHalf
    <3> QED BY <3>1, <3>2 DEF LacksDone
  <2> HIDE DEF e
  <2>7. CASE LacksDone
    <3>1. Ends(Done)
      BY <2>1, <2>7, EndKinds DEF Ends, LacksDone, EndInv
    <3>2. Good(e \o <<Done>>)
      BY <2>2, <2>3, <2>6, <2>7, <3>1, FitIsLoose, EndGood
    <3> QED BY <2>1, <2>3, <2>7, <3>2, SilentRefusal
  <2>8. CASE ~LacksDone
    <3>1. Write(RefusalIfSilent(e))
      <4>1. e \o <<>> = e
        BY <2>5
      <4> QED BY <2>1, <2>8, <4>1
    <3>2. Good(e)
      BY <2>2, <2>6, FitGood
    <3> QED BY <2>1, <2>3, <3>1, <3>2, SilentRefusal
  <2> QED BY <2>7, <2>8
<1> QED BY <1>1, <1>2, <1>3, <1>4, <1>5, <1>6, <1>7 DEF ChatNext

----------------------------------------------------------------------------
(* The chains of events                                                     *)

(* The text that goes out before another event.                             *)
LEMMA BeforeFits ==
    ASSUME TypeInv, TextInv, text' = text, buf' = Behind
    PROVE  /\ TextMoves
           /\ Fit(Before, Flushed, Flushed')
           /\ Len(buf') <= 1 /\ \A k \in DOMAIN buf' : buf'[k][1] = "a"
<1> DEFINE h == HoldFrom(buf, FALSE)
           m == h - 1
<1>1. h \in 1..(Len(buf) + 1) /\ Len(buf) \in Nat
  BY BufferIs, HoldRange
<1>2. h = IF buf # <<>> /\ Last(buf)[1] = "a" THEN Len(buf) ELSE Len(buf) + 1
  BY DEF HoldFrom
<1>3. Before = Emit(SubSeq(buf, 1, m)) /\ buf' = SubSeq(buf, h, Len(buf))
  BY DEF Before, Behind
<1> HIDE DEF h
<1>4. m \in 0..Len(buf) /\ m + 1 = h
  BY <1>1
<1>5. buf' = SubSeq(buf, m + 1, Len(buf))
  BY <1>3, <1>4
<1>6. TextMoves /\ Fit(Emit(SubSeq(buf, 1, m)), Flushed, Flushed')
  <2> HIDE DEF m
  <2> QED BY <1>4, <1>5, CutOff
<1>7. /\ Len(buf') = Len(buf) - m
      /\ \A k \in 1..(Len(buf) - m) : buf'[k] = buf[m + k]
      /\ buf' \in Buffers
  <2> HIDE DEF m
  <2> DEFINE v == SubSeq(buf, m + 1, Len(buf))
  <2>1. /\ Len(v) = Len(buf) - m
        /\ \A k \in 1..(Len(buf) - m) : v[k] = buf[m + k]
        /\ v \in Buffers
    BY <1>4, BufferIs, CutInTwo
  <2>2. buf' = v
    BY <1>5
  <2> HIDE DEF v
  <2> QED BY <2>1, <2>2
<1>8. DOMAIN buf' = 1..Len(buf')
  BY <1>7 DEF Buffers
<1>9. CASE buf # <<>> /\ Last(buf)[1] = "a"
  <2>1. m = Len(buf) - 1 /\ m + 1 = Len(buf)
    BY <1>1, <1>2, <1>9
  <2>2. Len(buf') = 1 /\ buf'[1] = buf[Len(buf)]
    <3> HIDE DEF m
    <3> QED BY <1>1, <1>7, <2>1
  <2> HIDE DEF m
  <2>3. buf'[1][1] = "a"
    BY <1>9, <2>2 DEF Last
  <2>4. \A k \in DOMAIN buf' : k = 1
    BY <1>8, <2>2
  <2>5. \A k \in DOMAIN buf' : buf'[k][1] = "a"
    BY <2>3, <2>4
  <2>6. Len(buf') <= 1
    BY <2>2
  <2>7. Fit(Before, Flushed, Flushed')
    BY <1>3, <1>6
  <2> QED BY <1>6, <2>5, <2>6, <2>7
<1>10. CASE ~(buf # <<>> /\ Last(buf)[1] = "a")
  <2>1. m = Len(buf)
    BY <1>1, <1>2, <1>10
  <2>2. Len(buf') = 0
    <3> HIDE DEF m
    <3> QED BY <1>1, <1>7, <2>1
  <2> HIDE DEF m
  <2> QED BY <1>3, <1>6, <1>8, <2>2
<1> QED BY <1>9, <1>10

(* A step that leaves the text and the buffer alone.                        *)
LEMMA StillAnswer ==
    ASSUME StreamInv, UNCHANGED <<text, buf, dialog, audit, chain, gone>>, pc # "closed",
           ended # "no" => ended' # "no", ended = "done" => ended' = "done",
           passed \subseteq passed' \/ out = <<>>,
           NEW items, Write(items), Fit(items, Flushed, Flushed),
           chain \in Slow /\ items # <<>> /\ out # <<>> => ended # "done"
    PROVE  Moves /\ \E x : Answer(x)
<1>1. TextMoves /\ Flushed' = Flushed
  BY Still DEF StreamInv, OutInv
<1>2. Moves
  BY <1>1 DEF Moves
<1>3. Good(items)
  BY <1>1, FitGood
<1> QED BY <1>2, <1>3 DEF Answer

(* A step that writes nothing at all.                                       *)
LEMMA SilentAnswer ==
    ASSUME StreamInv, UNCHANGED <<text, buf, dialog, audit, chain, gone, out>>,
           pc # "closed",
           ended # "no" => ended' # "no", ended = "done" => ended' = "done",
           passed \subseteq passed' \/ out = <<>>
    PROVE  Moves /\ \E x : Answer(x)
<1>1. Write(<<>>)
  BY DEF Write, StreamInv, TypeInv
<1>2. Fit(<<>>, Flushed, Flushed)
  BY FitNone DEF StreamInv, OutInv, TextInv
<1> QED BY <1>1, <1>2, StillAnswer

(* Every step of the event chain answers with a fitting list.               *)
LEMMA EventWrites ==
    ASSUME StreamInv, EventNext
    PROVE  Moves /\ \E items : Answer(items)
<1> USE DEF StreamInv, ControlInv, OutInv
<1>0. Flushed \in Nat /\ Flushed <= Flushed
  BY BufferIs
<1>1. ASSUME NEW t \in Texts, EventText(t) PROVE Moves /\ \E items : Answer(items)
  <2>1. /\ t \in Seq(Symbols) /\ text' = text \o t /\ ended = "no"
        /\ buf' = Left(buf \o New(t)) /\ Write(Sent(buf \o New(t)))
    BY <1>1, TextsAre DEF EventText, UpText
  <2>2. TextMoves /\ Fit(Sent(buf \o New(t)), Flushed, Flushed')
    BY <2>1, GrownSent
  <2>3. Moves
    BY <1>1, <2>1, <2>2 DEF Moves, EventText, Event, fixedVars, callVars
  <2> QED BY <2>1, <2>2, <2>3, FitGood DEF Answer
<1>2. ASSUME EventPass PROVE Moves /\ \E items : Answer(items)
  <2>1. /\ text' = text /\ ended # "done" /\ ended' = ended /\ passed' = passed
        /\ pc # "closed" /\ UNCHANGED <<dialog, audit, chain, gone>>
    BY <1>2 DEF EventPass, UpOther, Event, fixedVars, callVars
  <2>2. CASE Write(<<Other>>) /\ buf' = buf
    <3>1. Fit(<<Other>>, Flushed, Flushed)
      BY <1>0, FitKinds
    <3> QED BY <2>1, <2>2, <3>1, StillAnswer
  <2>3. CASE Write(Before \o <<Other>>) /\ buf' = Behind
    <3>1. TextMoves /\ Fit(Before, Flushed, Flushed')
      BY <2>1, <2>3, BeforeFits
    <3>2. Moves
      BY <2>1, <3>1 DEF Moves
    <3>3. Flushed' \in Nat /\ Flushed <= Flushed' /\ Flushed' <= Flushed'
      BY <3>1 DEF TextMoves
    <3>4. Fit(Before \o <<Other>>, Flushed, Flushed')
      BY <1>0, <3>1, <3>3, FitKinds, FitJoin
    <3> QED BY <2>1, <2>3, <3>2, <3>4, FitGood DEF Answer
  <2> QED BY <1>2, <2>2, <2>3 DEF EventPass
<1>3. ASSUME EventOther PROVE Moves /\ \E items : Answer(items)
  <2>1. /\ text' = text /\ ended # "done" /\ ended' = ended /\ buf' = <<>>
        /\ Write(Emit(buf) \o <<Other>>)
    BY <1>3 DEF EventOther, UpOther
  <2>2. TextMoves /\ Fit(Emit(buf), Flushed, Flushed')
    BY <2>1, FlushAll
  <2>3. Moves
    BY <1>3, <2>1, <2>2 DEF Moves, EventOther, Event, fixedVars, callVars
  <2>4. Flushed' \in Nat /\ Flushed <= Flushed' /\ Flushed' <= Flushed'
    BY <2>2 DEF TextMoves
  <2>5. Fit(Emit(buf) \o <<Other>>, Flushed, Flushed')
    BY <1>0, <2>2, <2>4, FitKinds, FitJoin
  <2> QED BY <2>1, <2>3, <2>5, FitGood DEF Answer
<1>4. ASSUME EventAges PROVE Moves /\ \E items : Answer(items)
  <2>1. /\ text' = text /\ ended' = ended /\ buf' = <<>> /\ Write(Emit(buf))
        /\ chain = "anthropic"
    BY <1>4 DEF EventAges, upVars
  <2>2. TextMoves /\ Fit(Emit(buf), Flushed, Flushed')
    BY <2>1, FlushAll
  <2>3. Moves
    BY <1>4, <2>1, <2>2 DEF Moves, EventAges, Event, fixedVars, callVars
  <2>4. ended = "done" => Emit(buf) = <<>>
    BY <2>1, BufferIs, EmitLoneHalf DEF EndInv, Events
  <2> QED BY <2>1, <2>2, <2>3, <2>4, FitGood DEF Answer
<1>5. ASSUME NEW over \in BOOLEAN, EventPart(over)
      PROVE  Moves /\ \E items : Answer(items)
  <2>1. /\ UNCHANGED <<text, buf, dialog, audit, chain, gone, ended, passed>>
        /\ ended = "no" /\ pc # "closed" /\ parts' > 0
    BY <1>5 DEF EventPart, UpPart, Event, fixedVars, TypeInv
  <2>2. Write(<<Block>>) \/ out' = out
    BY <1>5 DEF EventPart
  <2>3. Fit(<<Block>>, Flushed, Flushed)
    BY <1>0, <2>1, FitKinds
  <2>4. CASE Write(<<Block>>)
    BY <2>1, <2>3, <2>4, StillAnswer
  <2>5. CASE out' = out
    BY <2>1, <2>5, SilentAnswer
  <2> QED BY <2>2, <2>4, <2>5
<1>6. ASSUME HeldPart \/ HeldOther PROVE Moves /\ \E items : Answer(items)
  <2>1. /\ UNCHANGED <<text, buf, dialog, audit, chain, gone, ended, passed>>
        /\ ended # "done" /\ pc # "closed" /\ parts' > 0
    BY <1>6 DEF HeldPart, HeldOther, UpPart, UpOther, Event, fixedVars, TypeInv, CallInv
  <2>2. Write(<<Block>>) \/ out' = out
    BY <1>6 DEF HeldPart, HeldOther, Hold, RejectHold
  <2>3. Fit(<<Block>>, Flushed, Flushed)
    BY <1>0, <2>1, FitKinds
  <2>4. CASE Write(<<Block>>)
    BY <2>1, <2>3, <2>4, StillAnswer
  <2>5. CASE out' = out
    BY <2>1, <2>5, SilentAnswer
  <2> QED BY <2>2, <2>4, <2>5
<1>7. Allowed => /\ passed \subseteq passed'
                 /\ \A k \in DOMAIN args : args[k] \in passed'
  BY DEF Allowed, Range
<1>8. ASSUME NEW n \in 1..parts, pc = "stream", chain \in Events, ended = "no", Allowed, ~Refused
      PROVE  ~Open(Full(n))
  <2>1. audit => n \in Range(args) \cup passed
    BY <1>8 DEF CallInv, Accounted
  <2>2. audit => n \in passed'
    BY <1>8, <2>1 DEF Allowed
  <2> QED BY <2>2 DEF Open, Full
<1>9. ASSUME EventStop PROVE Moves /\ \E items : Answer(items)
  <2>1. /\ UNCHANGED <<text, buf, dialog, audit, chain, gone, ended, parts>>
        /\ ended = "no" /\ pc = "stream" /\ chain \in Events
    BY <1>9 DEF EventStop, CallEnds, CallEndsAgain, UpOther, Event, fixedVars
  <2>2. TextMoves /\ Flushed' = Flushed
    BY <2>1, Still
  <2>3. CASE Allowed /\ Write(Items(args) \o StopLine)
    <3>1. Fit(Items(args), Flushed, Flushed)
      BY <1>0, <1>7, <2>3, FitCalls DEF TypeInv
    <3>2. Loose(Items(args), Flushed, Flushed, Other, Refused)
      BY <3>1, FitIsLoose
    <3>3. Loose(StopLine, Flushed, Flushed, Other, Refused)
      BY <1>0, <1>8, <2>1, <2>3, LooseStop
    <3>4. Loose(Items(args) \o StopLine, Flushed, Flushed, Other, Refused)
      BY <1>0, <3>2, <3>3, LooseJoin
    <3>5. Good(Items(args) \o StopLine)
      BY <2>1, <2>2, <3>4 DEF Good
    <3>6. Moves
      BY <1>7, <2>1, <2>2, <2>3 DEF Moves
    <3> QED BY <2>3, <3>5, <3>6 DEF Answer
  <2>4. CASE args # <<>> /\ Denied /\ Write(<<Block>> \o StopLine)
    <3>1. parts' > 0
      BY <2>1, <2>4 DEF CallInv
    <3>2. Loose(StopLine, Flushed, Flushed, Other, Refused \/ Block = Block)
      BY <1>0, LooseStop
    <3>3. Loose(<<>>, Flushed, Flushed, Block, Refused)
      BY <1>0, FitNone, FitIsLoose
    <3>4. <<Block>> \o StopLine = (<<>> \o <<Block>>) \o StopLine
      BY DEF Block
    <3>5. Around(<<Block>> \o StopLine, <<>>, Block, StopLine)
      BY <2>2, <3>1, <3>2, <3>3, <3>4 DEF Around
    <3>6. Good(<<Block>> \o StopLine)
      BY <2>1, <3>5 DEF Good
    <3>7. Moves
      BY <2>1, <2>2, <2>4 DEF Moves, Denied
    <3> QED BY <2>4, <3>6, <3>7 DEF Answer
  <2> QED BY <1>9, <2>3, <2>4 DEF EventStop
<1>10. ASSUME HeldStop PROVE Moves /\ \E items : Answer(items)
  <2>1. /\ UNCHANGED <<text, buf, dialog, audit, chain, gone, ended, parts>>
        /\ ended = "no" /\ pc = "stream" /\ chain \in Events /\ holding
    BY <1>10 DEF HeldStop, CallEnds, Event, fixedVars
  <2>2. CASE Release
    <3>1. Allowed /\ Write(hold \o StopLine)
      BY <2>2 DEF Release
    <3>2. ASSUME NEW k \in DOMAIN hold
          PROVE  /\ hold[k][1] \in {"other", "call"}
                 /\ hold[k][1] = "call" => hold[k][2] \in passed'
      <4>1. Held(hold[k])
        BY <2>1 DEF CallInv
      <4> QED BY <1>7, <3>1, <4>1 DEF Held, Other, Call
    <3>3. \A k \in DOMAIN hold :
             hold[k][1] \notin TextKinds \cup {"finish", "done", "failed", "block", "full"}
      BY <3>2 DEF TextKinds
    <3>4. \A k \in DOMAIN hold : ~Open(hold[k])
      BY <3>2 DEF Open
    <3>5. Loose(hold, Flushed, Flushed, Other, Refused)
      BY <1>0, <3>3, <3>4, LoosePlain DEF TypeInv
    <3>6. Loose(StopLine, Flushed, Flushed, Other, Refused)
      BY <1>0, <1>8, <2>1, <3>1, LooseStop
    <3>7. Loose(hold \o StopLine, Flushed, Flushed, Other, Refused)
      BY <1>0, <3>5, <3>6, LooseJoin
    <3>8. TextMoves /\ Flushed' = Flushed
      BY <2>1, Still
    <3>9. Good(hold \o StopLine)
      BY <2>1, <3>7, <3>8 DEF Good
    <3>10. Moves
      BY <1>7, <2>1, <3>1, <3>8 DEF Moves
    <3> QED BY <3>1, <3>9, <3>10 DEF Answer
  <2>3. CASE Denied /\ RejectHold
    <3>1. parts' > 0
      BY <2>1 DEF CallInv
    <3>2. Fit(<<Block>>, Flushed, Flushed)
      BY <1>0, <3>1, FitKinds
    <3>3. passed \subseteq passed' /\ Write(<<Block>>)
      BY <2>3 DEF Denied, RejectHold
    <3> QED BY <2>1, <3>2, <3>3, StillAnswer
  <2> QED BY <1>10, <2>2, <2>3 DEF HeldStop
<1>11. ASSUME EventFinish PROVE Moves /\ \E items : Answer(items)
  <2>1. /\ text' = text /\ ended = "no" /\ ended' = "finish" /\ seenEnd' = TRUE
        /\ parts' = parts /\ passed' = passed
        /\ pc = "stream" /\ UNCHANGED <<dialog, audit, chain, gone>> /\ chain \in Events
    BY <1>11 DEF EventFinish, UpEnd, Event, fixedVars
  <2>2. CASE chain = "anthropic" /\ Write(Emit(buf) \o <<Finish>>) /\ buf' = <<>>
    <3>1. TextMoves /\ Fit(Emit(buf), Flushed, Flushed')
      BY <2>1, <2>2, FlushAll
    <3>2. Moves
      BY <2>1, <3>1 DEF Moves
    <3>3. Ends(Finish)
      BY <2>1, <2>2 DEF Ends, Terminals, Finish, Done
    <3>4. Good(Emit(buf) \o <<Finish>>)
      BY <2>1, <3>1, <3>2, <3>3, FitIsLoose, EndGood
    <3> QED BY <2>2, <3>2, <3>4 DEF Answer
  <2>3. CASE Write((Before \o Arguments(0)) \o <<Finish>>) /\ buf' = Behind
    <3>1. /\ TextMoves /\ Fit(Before, Flushed, Flushed')
          /\ \A k \in DOMAIN buf' : buf'[k][1] = "a"
      BY <2>1, <2>3, BeforeFits
    <3>2. Moves
      BY <2>1, <3>1 DEF Moves
    <3>3. Flushed' \in Nat /\ Flushed <= Flushed' /\ Flushed' <= Flushed'
      BY <3>1 DEF TextMoves
    <3>4. Loose(Arguments(0), Flushed', Flushed', Finish, Refused)
      <4>1. PICK hi \in Nat : hi = Flushed'
        BY <3>3
      <4>2. Loose(Arguments(0), hi, hi, Finish, Refused)
        BY LooseArguments DEF TypeInv
      <4> QED BY <4>1, <4>2
    <3>5. Loose(Before, Flushed, Flushed', Finish, Refused)
      BY <3>1, FitIsLoose
    <3>6. Loose(Before \o Arguments(0), Flushed, Flushed', Finish, Refused)
      BY <1>0, <3>3, <3>4, <3>5, LooseJoin
    <3>7. Ends(Finish)
      BY <2>1, <3>1 DEF Ends, Terminals, Finish, Done
    <3>8. Good((Before \o Arguments(0)) \o <<Finish>>)
      BY <2>1, <3>2, <3>6, <3>7, EndGood
    <3> QED BY <2>3, <3>2, <3>8 DEF Answer
  <2>4. CASE holding /\ Write(<<Block>>) /\ buf' = buf
    <3>1. parts' > 0
      BY <2>1, <2>4 DEF CallInv
    <3>2. Fit(<<Block>>, Flushed, Flushed)
      BY <1>0, <3>1, FitKinds
    <3> QED BY <2>1, <2>4, <3>2, StillAnswer
  <2>5. CASE out' = out /\ buf' = buf
    BY <2>1, <2>5, SilentAnswer
  <2> QED BY <1>11, <2>2, <2>3, <2>4, <2>5 DEF EventFinish, Hold, RejectHold
<1>12. ASSUME EventGatewayDone PROVE Moves /\ \E items : Answer(items)
  <2>1. /\ text' = text /\ ended # "done" /\ ended' = "done" /\ seenEnd' = TRUE
        /\ passed' = passed /\ buf' = Behind
        /\ pc = "stream" /\ UNCHANGED <<dialog, audit, chain, gone>> /\ chain \in Events
        /\ Write((Before \o Items(args)) \o <<Done>>)
    BY <1>12 DEF EventGatewayDone, UpEnd, Event, fixedVars
  <2>2. /\ TextMoves /\ Fit(Before, Flushed, Flushed')
        /\ \A k \in DOMAIN buf' : buf'[k][1] = "a"
    BY <2>1, BeforeFits
  <2>3. Moves
    BY <2>1, <2>2 DEF Moves
  <2>4. Flushed' \in Nat /\ Flushed <= Flushed' /\ Flushed' <= Flushed'
    BY <2>2 DEF TextMoves
  <2>5. Loose(Items(args), Flushed', Flushed', Done, Refused)
    <3>1. PICK hi \in Nat : hi = Flushed'
      BY <2>4
    <3>2. Loose(Items(args), hi, hi, Done, Refused)
      BY <2>1, LooseCalls DEF TypeInv
    <3> QED BY <3>1, <3>2
  <2>6. Loose(Before, Flushed, Flushed', Done, Refused)
    BY <2>2, FitIsLoose
  <2>7. Loose(Before \o Items(args), Flushed, Flushed', Done, Refused)
    BY <1>0, <2>4, <2>5, <2>6, LooseJoin
  <2>8. Ends(Done)
    BY <2>1, <2>2 DEF Ends, Terminals
  <2>9. Good((Before \o Items(args)) \o <<Done>>)
    BY <2>1, <2>3, <2>7, <2>8, EndGood
  <2> QED BY <2>1, <2>3, <2>9 DEF Answer
<1>13. ASSUME EventEof PROVE Moves /\ \E items : Answer(items)
  <2>1. /\ UNCHANGED <<text, buf, dialog, audit, chain, gone, ended, parts>>
        /\ pc # "closed" /\ chain \in Events
    BY <1>13 DEF EventEof, upVars, fixedVars
  <2>2. CASE Allowed /\ out' = out
    BY <1>7, <2>1, <2>2, SilentAnswer
  <2>3. CASE args # <<>> /\ Denied /\ Write(<<Block>>)
    <3>1. TextMoves /\ Flushed' = Flushed
      BY <2>1, Still
    <3>2. Moves
      BY <2>1, <2>3, <3>1 DEF Moves, Denied
    <3>3. parts' > 0
      BY <2>1, <2>3 DEF CallInv
    <3>4. Fit(<<Block>>, Flushed, Flushed)
      BY <1>0, <3>3, FitKinds
    <3>5. Loose(<<Block>>, Flushed, Flushed', Other, Refused)
      BY <3>1, <3>4, FitIsLoose
    <3>6. \A k \in DOMAIN <<Block>> : <<Block>>[k] = Block
      BY DEF Block
    <3>7. Good(<<Block>>)
      BY <2>1, <3>5, <3>6 DEF Good
    <3> QED BY <2>3, <3>2, <3>7 DEF Answer
  <2> QED BY <1>13, <2>2, <2>3 DEF EventEof
<1>14. ASSUME EventTail PROVE Moves /\ \E items : Answer(items)
  <2>1. /\ text' = text /\ ended' = ended /\ buf' = <<>> /\ pc = "tail" /\ pc' = "closed"
        /\ UNCHANGED <<dialog, audit, chain, gone, passed, parts>> /\ chain \in Events
    BY <1>14 DEF EventTail, upVars, fixedVars, Close
  <2>2. PICK torn \in BOOLEAN :
          LET fails == chain = "responses" /\ Truncated(torn, out \o Residue) IN
          Write(RefusalIfSilent(
              Residue \o (IF fails THEN <<Failed>> ELSE <<>>)
                  \o (IF holding THEN <<Block>> ELSE <<>>)))
    BY <1>14 DEF EventTail
  <2> DEFINE e == Emit(buf)
             c == IF doneSent THEN <<>> ELSE Items(args)
             fails == chain = "responses" /\ Truncated(torn, out \o Residue)
             f == IF fails THEN <<Failed>> ELSE <<>>
             b == IF holding THEN <<Block>> ELSE <<>>
             u == ((e \o c) \o f) \o b
  <2>3. Write(RefusalIfSilent(u))
    BY <2>2 DEF Residue
  <2>4. TextMoves /\ Fit(e, Flushed, Flushed')
    BY <2>1, FlushAll
  <2>5. Moves
    BY <2>1, <2>4 DEF Moves
  <2>6. PICK hi \in Nat : hi = Flushed' /\ Flushed <= hi /\ hi <= hi
    BY <2>4 DEF TextMoves
  <2>7. Fit(c, hi, hi)
    <3>1. \A k \in DOMAIN args : args[k] \in passed'
      BY <2>1 DEF CallInv
    <3>2. args \in Seq(Nat)
      BY DEF TypeInv
    <3> QED BY <3>1, <3>2, FitCalls, FitNone
  <2>8. Fit(b, hi, hi)
    <3>1. holding => parts' > 0
      BY <2>1 DEF CallInv
    <3> QED BY <3>1, FitKinds, FitNone
  <2>9. ended = "done" => e = <<>> /\ c = <<>> /\ ~fails
    <3> SUFFICES ASSUME ended = "done" PROVE e = <<>> /\ c = <<>> /\ ~fails
      OBVIOUS
    <3>1. seenEnd /\ doneSent /\ Len(buf) <= 1 /\ \A k \in DOMAIN buf : buf[k][1] = "a"
      BY <2>1 DEF EndInv
    <3>2. e = <<>>
      BY <3>1, BufferIs, EmitLoneHalf
    <3> QED BY <3>1, <3>2 DEF Truncated
  <2>10. fails => ~seenEnd
    BY DEF Truncated
  <2>11. b = <<>> \/ b = <<Block>>
    OBVIOUS
  <2> HIDE DEF e, c, fails, b
  <2>12. Fit(e \o c, Flushed, Flushed')
    BY <1>0, <2>4, <2>6, <2>7, FitJoin
  <2>13. Good(u)
    <3>1. CASE fails
      <4>1. Loose(e \o c, Flushed, Flushed', Failed, Refused)
        BY <2>12, FitIsLoose
      <4>2. Loose(b, Flushed', Flushed', Other, Refused \/ Failed = Block)
        BY <2>6, <2>8, FitIsLoose
      <4>3. Around(u, e \o c, Failed, b)
        BY <2>1, <2>10, <3>1, <4>1, <4>2 DEF Around
      <4> HIDE DEF u
      <4> QED BY <2>9, <3>1, <4>3 DEF Good
    <3>2. CASE ~fails
      <4>1. f = <<>> /\ Fit(f, hi, hi)
        BY <3>2, FitNone
      <4> HIDE DEF f
      <4>2. Fit((e \o c) \o f, Flushed, Flushed')
        BY <1>0, <2>6, <2>12, <4>1, FitJoin
      <4>3. Fit(u, Flushed, Flushed')
        BY <1>0, <2>6, <2>8, <4>2, FitJoin
      <4>4. ended = "done" => u = b
        <5>1. b \in Seq(Item)
          BY <2>8 DEF Fit, Loose, Renders
        <5> QED BY <2>9, <4>1, <5>1
      <4>5. ended = "done" => \A k \in DOMAIN u : u[k] = Block
        BY <2>11, <4>4 DEF Block
      <4>6. Loose(u, Flushed, Flushed', Other, Refused)
        BY <4>3, FitIsLoose
      <4> HIDE DEF u
      <4> QED BY <2>1, <4>5, <4>6 DEF Good
    <3> QED BY <3>1, <3>2
  <2> HIDE DEF u
  <2> QED BY <2>1, <2>3, <2>5, <2>13, SilentRefusal
<1> QED BY <1>1, <1>2, <1>3, <1>4, <1>5, <1>6, <1>9, <1>10, <1>11, <1>12, <1>13, <1>14
        DEF EventNext

----------------------------------------------------------------------------
(* The fast chain, and answers that are no stream                           *)

(* Every step of the fast chain answers with a fitting list.                *)
LEMMA FastWrites ==
    ASSUME StreamInv, FastNext
    PROVE  Moves /\ \E items : Answer(items)
<1> USE DEF StreamInv, ControlInv, OutInv
<1>0. Flushed \in Nat /\ Flushed <= Flushed
  BY BufferIs
<1>1. chain = "fast" /\ chain \notin Slow
  BY DEF FastNext, FastText, FastPart, FastOther, FastEnd, FastEof, FastTail, Fast, Slow
<1>2. ASSUME NEW t \in Texts, NEW fin \in BOOLEAN, NEW short \in BOOLEAN,
             FastText(t, fin, short)
      PROVE  Moves /\ \E items : Answer(items)
  <2> DEFINE q   == buf \o New(t)
             end == IF fin THEN <<Finish>> ELSE <<>>
  <2>1. /\ t \in Seq(Symbols) /\ \A k \in DOMAIN t : t[k] # "a"
        /\ text' = text \o t /\ ended = "no"
        /\ fin => seenEnd' /\ ended' # "no"
    BY <1>1, <1>2, TextsAre DEF FastText, UpText
  <2>2. ASSUME TextMoves, NEW u, Fit(u, Flushed, Flushed'),
               Write(u \o end) \/ Write(u)
        PROVE  Moves /\ \E items : Answer(items)
    <3>1. Moves
      BY <1>2, <2>1, <2>2 DEF Moves, FastText, Fast, fixedVars, callVars
    <3>2. Good(u)
      BY <1>1, <2>2, FitGood
    <3>3. CASE Write(u)
      BY <3>1, <3>2, <3>3 DEF Answer
    <3>4. CASE Write(u \o end) /\ fin
      <4>1. Ends(Finish)
        BY <1>1, <2>1, <3>4 DEF Ends, Terminals
      <4>2. Good(u \o <<Finish>>)
        BY <1>1, <2>2, <3>1, <4>1, FitIsLoose, EndGood
      <4> QED BY <3>1, <3>4, <4>2 DEF Answer
    <3>5. CASE Write(u \o end) /\ ~fin
      <4>1. u \in Seq(Item)
        BY <2>2 DEF Fit, Loose, Renders
      <4>2. u \o end = u
        BY <3>5, <4>1
      <4> QED BY <3>1, <3>2, <3>5, <4>2 DEF Answer
    <3> QED BY <2>2, <3>3, <3>4, <3>5
  <2>3. CASE Passes(t, short)
    <3>1. Write(New(t) \o end) /\ buf' = buf
      BY <1>2, <2>3 DEF FastText
    <3>2. buf = <<>>
      BY <1>1, <2>3 DEF Passes, FastInv
    <3>3. TextMoves /\ Fit(New(t), Flushed, Flushed')
      BY <2>1, <3>1, <3>2, GrownPass
    <3> QED BY <2>2, <3>1, <3>3
  <2>4. CASE ~Passes(t, short)
    <3>1. /\ Write(IF Sent(q) = <<>> THEN <<>> ELSE Sent(q) \o end)
          /\ buf' = Left(q)
      BY <1>2, <2>4 DEF FastText
    <3>2. TextMoves /\ Fit(Sent(q), Flushed, Flushed')
      BY <2>1, <3>1, GrownSent
    <3>3. Write(Sent(q) \o end) \/ Write(Sent(q))
      BY <3>1
    <3> QED BY <2>2, <3>2, <3>3
  <2> QED BY <2>3, <2>4
<1>3. ASSUME FastPart PROVE Moves /\ \E items : Answer(items)
  <2>1. /\ UNCHANGED <<text, buf, dialog, audit, chain, gone, ended, passed>>
        /\ pc # "closed" /\ Write(<<<<"call", parts'>>>>) /\ parts' = parts + 1
    BY <1>3 DEF FastPart, UpPart, Fast, fixedVars, callVars, Call
  <2>2. parts' \in Nat /\ ~(dialog /\ audit)
    BY <1>1, <2>1 DEF TypeInv, CallInv
  <2>3. ~Open(<<"call", parts'>>)
    BY <2>2 DEF Open
  <2>4. PICK n \in Nat : n = parts'
    BY <2>2
  <2>5. Fit(<<<<"call", n>>>>, Flushed, Flushed)
    BY <1>0, <2>3, <2>4, FitItem DEF ItemKinds, TextKinds
  <2> QED BY <1>1, <2>1, <2>4, <2>5, StillAnswer
<1>4. ASSUME FastOther PROVE Moves /\ \E items : Answer(items)
  <2>1. /\ UNCHANGED <<text, buf, dialog, audit, chain, gone, ended, passed>>
        /\ pc # "closed" /\ Write(<<Other>>)
    BY <1>4 DEF FastOther, UpOther, Fast, fixedVars, callVars
  <2>2. Fit(<<Other>>, Flushed, Flushed)
    BY <1>0, FitKinds
  <2> QED BY <1>1, <2>1, <2>2, StillAnswer
<1>5. ASSUME NEW item \in {Finish, Done}, FastEnd(item)
      PROVE  Moves /\ \E items : Answer(items)
  <2>1. /\ UNCHANGED <<text, buf, dialog, audit, chain, gone, passed>>
        /\ pc # "closed" /\ Write(<<item>>) /\ ended # "done"
        /\ ended' = item[1] /\ ended' # "no" /\ seenEnd' = TRUE
        /\ ended = "done" => ended' = "done"
    BY <1>5 DEF FastEnd, UpEnd, Fast, fixedVars, callVars, Finish, Done
  <2>2. TextMoves /\ Flushed' = Flushed
    BY <2>1, Still
  <2>3. Moves
    BY <2>1, <2>2 DEF Moves
  <2>4. Ends(item)
    BY <1>1, <2>1 DEF Ends, Terminals
  <2> DEFINE u == <<>>
  <2>5. Loose(u, Flushed, Flushed', item, Refused)
    <3>1. Fit(u, Flushed, Flushed')
      BY <1>0, <2>2, FitNone
    <3> HIDE DEF u
    <3> QED BY <3>1, FitIsLoose
  <2>6. <<item>> = u \o <<item>>
    OBVIOUS
  <2> HIDE DEF u
  <2>7. Good(<<item>>)
    BY <1>1, <2>3, <2>4, <2>5, <2>6, EndGood
  <2> QED BY <2>1, <2>3, <2>7 DEF Answer
<1>6. ASSUME FastEof PROVE Moves /\ \E items : Answer(items)
  <2>1. /\ UNCHANGED <<text, dialog, audit, chain, gone, ended, passed>>
        /\ pc # "closed" /\ Write(Emit(buf)) /\ buf' = <<>>
    BY <1>6 DEF FastEof, upVars, fixedVars, callVars
  <2>2. TextMoves /\ Fit(Emit(buf), Flushed, Flushed')
    BY <2>1, FlushAll
  <2>3. Moves
    BY <2>1, <2>2 DEF Moves
  <2> QED BY <1>1, <2>1, <2>2, <2>3, FitGood DEF Answer
<1>7. ASSUME FastTail PROVE Moves /\ \E items : Answer(items)
  <2>1. /\ UNCHANGED <<text, buf, dialog, audit, chain, gone, ended, passed>>
        /\ pc # "closed" /\ pc' = "closed"
    BY <1>7 DEF FastTail, upVars, fixedVars, callVars, Close
  <2>2. PICK torn \in BOOLEAN, responses \in BOOLEAN :
          Write(RefusalIfSilent(
              IF responses /\ Truncated(torn, out) THEN <<Failed>> ELSE <<>>))
    BY <1>7 DEF FastTail
  <2>3. TextMoves /\ Flushed' = Flushed
    BY <2>1, Still
  <2>4. Moves
    BY <2>1, <2>3 DEF Moves
  <2> DEFINE e == <<>>
  <2>5. Fit(e, Flushed, Flushed')
    BY <1>0, <2>3, FitNone
  <2>6. <<Failed>> = (e \o <<Failed>>) \o e
    BY DEF Failed
  <2>7. e = <<>>
    OBVIOUS
  <2> HIDE DEF e
  <2>8. CASE responses /\ Truncated(torn, out)
    <3>1. Loose(e, Flushed, Flushed', Failed, Refused)
      BY <2>5, FitIsLoose
    <3>2. Loose(e, Flushed', Flushed', Other, Refused \/ Failed = Block)
      BY <2>3, <2>5, FitIsLoose
    <3>3. Around(<<Failed>>, e, Failed, e)
      BY <2>1, <2>6, <2>8, <3>1, <3>2 DEF Around, Truncated
    <3>4. Good(<<Failed>>)
      BY <1>1, <3>3 DEF Good
    <3> QED BY <2>1, <2>2, <2>4, <2>8, <3>4, SilentRefusal
  <2>9. CASE ~(responses /\ Truncated(torn, out))
    <3>1. Good(e)
      BY <1>1, <2>5, FitGood
    <3>2. Write(RefusalIfSilent(e))
      BY <2>2, <2>7, <2>9
    <3> QED BY <2>1, <2>4, <3>1, <3>2, SilentRefusal
  <2> QED BY <2>8, <2>9
<1> QED BY <1>2, <1>3, <1>4, <1>5, <1>6, <1>7 DEF FastNext

(* So does every answer that is no stream.                                  *)
LEMMA WholeWrites ==
    ASSUME StreamInv, WholeRefused \/ WholePassed \/ WholeCall
    PROVE  Moves /\ \E items : Answer(items)
<1> USE DEF StreamInv, ControlInv, OutInv
<1>0. Flushed \in Nat
  BY BufferIs
<1>1. /\ UNCHANGED <<text, buf, dialog, audit, chain, gone, ended>>
      /\ pc # "closed" /\ chain = "whole" /\ out = <<>>
  BY DEF WholeRefused, WholePassed, WholeCall, WholeVars, Whole, fixedVars, FreshInv
<1>2. \/ Write(<<<<"error", 0>>>>) \/ Write(<<Other>>) \/ Write(<<>>)
      \/ Write(<<Block>>) /\ parts' = 1
      \/ Write(<<<<"call", 1>>>>)
  BY DEF WholeRefused, WholePassed, WholeCall, Call
<1>3. /\ Fit(<<<<"error", 0>>>>, Flushed, Flushed) /\ Fit(<<Other>>, Flushed, Flushed)
      /\ Fit(<<>>, Flushed, Flushed)
      /\ parts' = 1 => Fit(<<Block>>, Flushed, Flushed)
  BY <1>0, FitKinds, FitNone
<1>4. Fit(<<<<"call", 1>>>>, Flushed, Flushed)
  <2>1. ~Open(<<"call", 1>>)
    BY <1>1 DEF Open
  <2> QED BY <1>0, <2>1, FitItem DEF ItemKinds, TextKinds
<1>5. PICK items : Write(items) /\ Fit(items, Flushed, Flushed)
  BY <1>2, <1>3, <1>4
<1>6. chain \notin Slow
  BY <1>1 DEF Slow
<1> QED BY <1>1, <1>5, <1>6, StillAnswer

----------------------------------------------------------------------------
(* The steps keep the invariant                                             *)

(* What a step leaves to show once the text and what was written are known  *)
(* to be in order.                                                          *)
Rest ==
    /\ pc \in {"connect", "stream", "eof", "tail", "closed"}
    /\ parts \in Nat /\ start \in Nat /\ start <= parts
    /\ ended \in {"no", "finish", "done"}
    /\ args \in Seq(Nat)
    /\ hold \in Seq(Item)
    /\ {ok, calling, holding, audited, blocked, seenEnd, doneSent} \subseteq BOOLEAN
    /\ ControlInv

(* The lists the actions build.                                             *)
LEMMA Lists ==
    ASSUME NEW S
    PROVE  /\ <<>> \in Seq(S)
           /\ \A x \in S : <<x>> \in Seq(S)
           /\ \A s \in Seq(S), x \in S : Append(s, x) \in Seq(S)
OBVIOUS

(* Every step of the chat chain keeps types and control.                    *)
LEMMA ChatControl ==
    ASSUME StreamInv, ChatNext
    PROVE  Rest'
<1> USE DEF StreamInv, ControlInv, FreshInv, CallInv, FastInv, EndInv, TypeInv, Rest, Events,
            fixedVars, callVars, endVars, upVars
<1>1. ASSUME NEW t \in Texts, NEW fin \in BOOLEAN, ChatText(t, fin) PROVE Rest'
  BY <1>1 DEF ChatText, Chat, UpText
<1>2. ASSUME NEW over \in BOOLEAN, ChatPart(over) PROVE Rest'
  <2>1. /\ parts' \in Nat /\ parts' > 0 /\ start' \in Nat /\ start' <= parts'
        /\ args' \in Seq(Nat)
    <3>1. parts' \in Nat /\ parts' > 0 /\ start' \in Nat /\ start' <= parts'
      BY <1>2 DEF ChatPart, UpPart
    <3>2. args' = <<>> \/ args' = Append(args, parts')
      BY <1>2 DEF ChatPart
    <3> QED BY <3>1, <3>2, Lists
  <2>2. ended = "no" /\ ended' = "no" /\ calling' = TRUE /\ chain = "chat" /\ pc = "stream"
    BY <1>2 DEF ChatPart, Chat, UpPart
  <2>3. blocked' \in BOOLEAN /\ audited' \in BOOLEAN
    BY <1>2 DEF ChatPart
  <2> QED BY <1>2, <2>1, <2>2, <2>3 DEF ChatPart
<1>3. ASSUME ChatOther PROVE Rest'
  BY <1>3 DEF ChatOther, Chat, UpOther
<1>4. ASSUME NEW kind \in {"stop", "tool_calls"}, ChatFinish(kind) PROVE Rest'
  <2>1. PICK written \in Writings : AuditIf(kind = "tool_calls", written)
    BY <1>4 DEF ChatFinish
  <2>2. /\ args' \in Seq(Nat) /\ audited' \in BOOLEAN /\ blocked' \in BOOLEAN
        /\ args = <<>> => args' = <<>>
    BY <1>4, <2>1, AuditFits DEF ChatFinish, UpEnd
  <2> QED BY <1>4, <2>2 DEF ChatFinish, Chat, UpEnd
<1>5. ASSUME ChatDone PROVE Rest'
  <2>1. PICK written \in Writings : AuditIf(TRUE, written)
    BY <1>5 DEF ChatDone
  <2>2. /\ args' \in Seq(Nat) /\ audited' \in BOOLEAN /\ blocked' \in BOOLEAN
        /\ args' = <<>> \/ audited'
        /\ args = <<>> => args' = <<>>
    BY <1>5, <2>1, AuditFits DEF ChatDone, UpEnd
  <2> QED BY <1>5, <2>2 DEF ChatDone, Chat, UpEnd
<1>6. ASSUME ChatEof PROVE Rest'
  <2>1. PICK written \in Writings : AuditIf(audit, written)
    BY <1>6 DEF ChatEof
  <2>2. /\ args' \in Seq(Nat) /\ audited' \in BOOLEAN /\ blocked' \in BOOLEAN
        /\ args = <<>> \/ audited => args' = args /\ audited' = audited
    BY <1>6, <2>1, AuditFits DEF ChatEof
  <2> QED BY <1>6, <2>2 DEF ChatEof
<1>7. ASSUME ChatTail PROVE Rest'
  BY <1>7 DEF ChatTail, Close, LacksDone
<1> QED BY <1>1, <1>2, <1>3, <1>4, <1>5, <1>6, <1>7 DEF ChatNext

(* Every step of the fast chain keeps types and control.                    *)
LEMMA FastControl ==
    ASSUME StreamInv, FastNext
    PROVE  Rest'
<1> USE DEF StreamInv, ControlInv, FreshInv, CallInv, FastInv, EndInv, TypeInv, Rest, Events,
            Slow, fixedVars, callVars, endVars, upVars
<1>1. ASSUME NEW t \in Texts, NEW fin \in BOOLEAN, NEW short \in BOOLEAN,
             FastText(t, fin, short)
      PROVE  Rest'
  <2>1. /\ t \in Seq(Symbols) /\ \A k \in DOMAIN t : t[k] # "a"
        /\ text' = text \o t
    BY <1>1, TextsAre DEF FastText, UpText, Fast
  <2>2. \A i \in DOMAIN text' : text'[i] # "a"
    BY <1>1, <2>1 DEF FastText, Fast
  <2>3. ~dialog => buf' = <<>>
    BY <1>1 DEF FastText, Fast, Passes
  <2> QED BY <1>1, <2>2, <2>3 DEF FastText, Fast, UpText
<1>2. ASSUME FastPart PROVE Rest'
  BY <1>2 DEF FastPart, Fast, UpPart
<1>3. ASSUME FastOther PROVE Rest'
  BY <1>3 DEF FastOther, Fast, UpOther
<1>4. ASSUME NEW item \in {Finish, Done}, FastEnd(item) PROVE Rest'
  <2>1. item[1] \in {"finish", "done"}
    BY DEF Finish, Done
  <2>2. /\ ended' \in {"finish", "done"} /\ seenEnd' = TRUE /\ calling' = FALSE
        /\ UNCHANGED <<pc, text, parts, start, fixedVars, buf, callVars, doneSent>>
        /\ pc = "stream" /\ chain = "fast"
    BY <1>4, <2>1 DEF FastEnd, Fast, UpEnd
  <2> QED BY <2>2
<1>5. ASSUME FastEof PROVE Rest'
  BY <1>5 DEF FastEof, Close
<1>6. ASSUME FastTail PROVE Rest'
  BY <1>6 DEF FastTail, Close
<1> QED BY <1>1, <1>2, <1>3, <1>4, <1>5, <1>6 DEF FastNext

(* So does every answer that is no stream.                                  *)
LEMMA WholeControl ==
    ASSUME StreamInv, WholeRefused \/ WholePassed \/ WholeCall
    PROVE  Rest'
BY DEF StreamInv, ControlInv, FreshInv, CallInv, FastInv, EndInv, TypeInv, Rest, Events, Slow,
       fixedVars, callVars, endVars, WholeVars, Whole, WholeRefused, WholePassed, WholeCall, Close

(* A refusal the client received is not taken back.                          *)
LEMMA RefusedStays ==
    ASSUME TypeInv, Moves, NEW items, Answer(items)
    PROVE  Refused => Refused'
<1>1. items \in Seq(Item) /\ out \in Seq(Item)
  BY GoodIs DEF Answer, Renders, TypeInv
<1>2. \A k \in DOMAIN out : k \in DOMAIN (out \o items) /\ (out \o items)[k] = out[k]
  BY <1>1, Joined
<1>3. out' = out \/ out' = out \o items
  BY DEF Answer, Write
<1> QED BY <1>2, <1>3 DEF Refused

(* And one that is written is received.                                     *)
LEMMA RefusedNow ==
    ASSUME TypeInv, ~gone, NEW items \in Seq(Item), Write(items),
           \E k \in DOMAIN items : items[k] = Block
    PROVE  Refused'
<1>1. out \in Seq(Item) /\ out' = out \o items
  BY DEF TypeInv, Write
<1>2. PICK k \in DOMAIN items : items[k] = Block
  OBVIOUS
<1>3. Len(out) + k \in DOMAIN (out \o items) /\ (out \o items)[Len(out) + k] = items[k]
  BY <1>1, Joined
<1> QED BY <1>1, <1>2, <1>3 DEF Refused

(* A refusal as a list.                                                     *)
LEMMA OneBlock == <<Block>> \in Seq(Item) /\ 1 \in DOMAIN <<Block>> /\ <<Block>>[1] = Block
<1>1. Block \in Item
  BY DEF Block, Item, ItemKinds
<1> QED BY <1>1

(* No fragment is lost on the way.                                          *)
LEMMA AccountedStays ==
    ASSUME StreamInv, EventNext, pc = "stream", chain \in Events, ended = "no",
           \A n \in 1..parts' : n \in 1..parts \/ n \in Range(args'),
           Range(args) \subseteq Range(args') \cup passed', passed \subseteq passed'
    PROVE  Accounted'
<1>1. Moves /\ \E items : Answer(items)
  BY EventWrites
<1>2. Refused => Refused'
  BY <1>1, RefusedStays DEF StreamInv
<1>3. audit' = audit
  BY <1>1 DEF Moves
<1>4. Accounted
  BY DEF StreamInv, ControlInv, CallInv
<1> QED BY <1>2, <1>3, <1>4 DEF Accounted

(* A longer list has one element more.                                      *)
LEMMA AppendIs ==
    ASSUME NEW S, NEW q \in Seq(S), NEW x \in S
    PROVE  \A k \in DOMAIN Append(q, x) :
              (k \in DOMAIN q /\ Append(q, x)[k] = q[k]) \/ Append(q, x)[k] = x
OBVIOUS

LEMMA RangeAppend ==
    ASSUME NEW q \in Seq(Nat), NEW n \in Nat
    PROVE  Range(Append(q, n)) = Range(q) \cup {n}
<1>1. \A k \in DOMAIN q : k \in DOMAIN Append(q, n) /\ Append(q, n)[k] = q[k]
  OBVIOUS
<1>2. Len(q) + 1 \in DOMAIN Append(q, n) /\ Append(q, n)[Len(q) + 1] = n
  OBVIOUS
<1>3. \A k \in DOMAIN Append(q, n) : k \in DOMAIN q \/ k = Len(q) + 1
  OBVIOUS
<1> QED BY <1>1, <1>2, <1>3 DEF Range

(* Every step of the event chain keeps types and control.                   *)
LEMMA EventControl ==
    ASSUME StreamInv, EventNext
    PROVE  Rest'
<1> USE DEF StreamInv, ControlInv, FreshInv, CallInv, FastInv, EndInv, TypeInv, Rest, Events,
            Slow, fixedVars, callVars, endVars, upVars, Held
<1>0. ASSUME EventNext, pc = "stream", ended = "no", UNCHANGED <<args, parts, passed>>
      PROVE  Accounted'
  <2>1. chain \in Events
    BY <1>0 DEF EventNext, EventText, EventPass, EventOther, EventAges, EventPart, HeldPart,
                HeldOther, EventStop, HeldStop, EventFinish, EventGatewayDone, EventEof,
                EventTail, Event
  <2> QED BY <1>0, <2>1, AccountedStays
<1>1. ASSUME NEW t \in Texts, EventText(t) PROVE Rest'
  <2>1. ended = "no" => Accounted'
    BY <1>0, <1>1 DEF EventNext, EventText, Event, UpText
  <2> QED BY <1>1, <2>1 DEF EventText, Event, UpText
<1>2. ASSUME EventPass PROVE Rest'
  <2>1. ended = "no" => Accounted'
    BY <1>0, <1>2 DEF EventNext, EventPass, Event, UpOther
  <2> QED BY <1>2, <2>1 DEF EventPass, Event, UpOther
<1>3. ASSUME EventOther PROVE Rest'
  <2>1. ended = "no" => Accounted'
    BY <1>0, <1>3 DEF EventNext, EventOther, Event, UpOther
  <2> QED BY <1>3, <2>1 DEF EventOther, Event, UpOther
<1>4. ASSUME EventAges PROVE Rest'
  <2>1. ended = "no" => Accounted'
    BY <1>0, <1>4 DEF EventNext, EventAges, Event
  <2> QED BY <1>4, <2>1 DEF EventAges, Event
<1>5. \A n \in Nat : Call(n) \in Item /\ Other \in Item
  BY DEF Call, Other, Item, ItemKinds
<1>6. ASSUME NEW over \in BOOLEAN, EventPart(over) PROVE Rest'
  <2>1. /\ parts' \in Nat /\ parts' > 0 /\ start' \in Nat /\ start' <= parts'
        /\ parts' = parts + 1 /\ ended = "no" /\ ended' = "no" /\ calling' = TRUE
        /\ pc = "stream" /\ pc' = pc /\ chain \in Events /\ ~holding /\ hold = <<>>
        /\ passed' = passed /\ ~gone
        /\ UNCHANGED <<fixedVars, text, buf, audited, blocked, seenEnd, doneSent>>
    BY <1>6 DEF EventPart, Event, UpPart
  <2>2. \/ args' = <<>> /\ holding' = holding /\ hold' = hold /\ Write(<<Block>>)
        \/ args' = Append(args, parts') /\ holding' = holding /\ hold' = hold
        \/ args' = Append(args, parts') /\ holding' = TRUE /\ hold' = <<Call(parts')>>
    BY <1>6 DEF EventPart
  <2>3. args' \in Seq(Nat) /\ hold' \in Seq(Item) /\ holding' \in BOOLEAN
    <3>1. Call(parts') \in Item
      BY <1>5, <2>1
    <3>2. args' \in Seq(Nat)
      BY <2>1, <2>2, Lists
    <3>3. hold' \in Seq(Item)
      BY <2>1, <2>2, <3>1, Lists
    <3> QED BY <2>2, <3>2, <3>3
  <2>4. ~holding' => hold' = <<>>
    BY <2>1, <2>2
  <2>5. \A k \in DOMAIN hold' : Held(hold[k])'
    <3>1. CASE hold' = <<>>
      BY <3>1
    <3>2. CASE args' = Append(args, parts') /\ hold' = <<Call(parts')>>
      <4>1. Len(args) + 1 \in DOMAIN args' /\ args'[Len(args) + 1] = parts'
        BY <2>1, <3>2
      <4>2. \A k \in DOMAIN hold' : hold'[k] = Call(args'[Len(args) + 1])
        BY <3>2, <4>1
      <4> QED BY <4>1, <4>2
    <3> QED BY <2>1, <2>2, <3>1, <3>2
  <2>6. Accounted'
    <3>1. CASE Write(<<Block>>)
      <4>1. Refused'
        <5>1. TypeInv /\ ~gone
          BY <2>1
        <5> HIDE DEF StreamInv, TypeInv
        <5> QED BY <3>1, <5>1, OneBlock, RefusedNow
      <4> QED BY <4>1 DEF Accounted
    <3>2. CASE args' = Append(args, parts')
      <4>1. Range(args') = Range(args) \cup {parts'}
        BY <2>1, <3>2, RangeAppend
      <4>2. \A n \in 1..parts' : n \in 1..parts \/ n = parts'
        BY <2>1
      <4>3. EventNext
        BY <1>6 DEF EventNext
      <4> HIDE DEF StreamInv, TypeInv, ControlInv
      <4> QED BY <2>1, <4>1, <4>2, <4>3, AccountedStays
    <3> QED BY <2>2, <3>1, <3>2
  <2> HIDE DEF Held
  <2> QED BY <2>1, <2>3, <2>4, <2>5, <2>6
<1>7. ASSUME HeldPart PROVE Rest'
  <2>1. /\ parts' \in Nat /\ parts' > 0 /\ start' \in Nat /\ start' <= parts'
        /\ parts' = parts + 1 /\ passed' = passed /\ ended = "no" /\ ended' = "no" /\ calling' = TRUE
        /\ pc = "stream" /\ pc' = pc /\ chain \in Events /\ holding
        /\ UNCHANGED <<fixedVars, text, buf, audited, blocked, seenEnd, doneSent>>
        /\ args' = Append(args, parts')
    BY <1>7 DEF HeldPart, Event, UpPart
  <2>2. \/ holding' = FALSE /\ hold' = <<>>
        \/ holding' = holding /\ hold' = Append(hold, Call(parts'))
    <3>1. hold \o <<Call(parts')>> = Append(hold, Call(parts'))
      BY <1>5, <2>1
    <3> QED BY <1>7, <3>1 DEF HeldPart, Hold, RejectHold
  <2>3. args' \in Seq(Nat) /\ hold' \in Seq(Item) /\ holding' \in BOOLEAN
    <3>1. Call(parts') \in Item
      BY <1>5, <2>1
    <3>2. args' \in Seq(Nat)
      BY <2>1, <2>2, Lists
    <3>3. hold' \in Seq(Item)
      BY <2>1, <2>2, <3>1, Lists
    <3> QED BY <2>2, <3>2, <3>3
  <2>4. ~holding' => hold' = <<>>
    BY <2>1, <2>2
  <2>5. \A k \in DOMAIN hold' : Held(hold[k])'
    <3>1. CASE hold' = <<>>
      BY <3>1
    <3>2. CASE hold' = Append(hold, Call(parts'))
      <4>1. Len(args) + 1 \in DOMAIN args' /\ args'[Len(args) + 1] = parts'
        BY <2>1
      <4>2. \A i \in DOMAIN args : i \in DOMAIN args' /\ args'[i] = args[i]
        BY <2>1
      <4>3. \A k \in DOMAIN hold' : (k \in DOMAIN hold /\ hold'[k] = hold[k])
                                     \/ hold'[k] = Call(parts')
        BY <1>5, <2>1, <3>2, AppendIs
      <4>4. \A k \in DOMAIN hold :
               hold[k] = Other \/ \E i \in DOMAIN args : hold[k] = Call(args[i])
        BY <2>1
      <4> HIDE DEF Other, Call, TypeInv
      <4>5. \A k \in DOMAIN hold' :
               hold'[k] = Other \/ \E i \in DOMAIN args' : hold'[k] = Call(args'[i])
        BY <4>1, <4>2, <4>3, <4>4
      <4> QED BY <4>5
    <3> QED BY <2>2, <3>1, <3>2
  <2>6. Accounted'
    <3>1. Range(args') = Range(args) \cup {parts'}
      BY <2>1, RangeAppend
    <3>2. \A n \in 1..parts' : n \in 1..parts \/ n = parts'
      BY <2>1
    <3>3. EventNext
      BY <1>7 DEF EventNext
    <3> HIDE DEF StreamInv, TypeInv, ControlInv
    <3> QED BY <2>1, <3>1, <3>2, <3>3, AccountedStays
  <2> HIDE DEF Held
  <2> QED BY <2>1, <2>3, <2>4, <2>5, <2>6
<1>8. ASSUME HeldOther PROVE Rest'
  <2>1. /\ UNCHANGED <<pc, fixedVars, text, parts, start, ended, calling, buf, args, audited, blocked,
                       seenEnd, doneSent, passed>>
        /\ pc = "stream" /\ chain \in Events /\ holding /\ ended # "done"
    BY <1>8 DEF HeldOther, Event, UpOther
  <2>2. \/ holding' = FALSE /\ hold' = <<>>
        \/ holding' = holding /\ hold' = Append(hold, Other)
    <3>1. hold \o <<Other>> = Append(hold, Other)
      BY <1>5
    <3> QED BY <1>8, <3>1 DEF HeldOther, Hold, RejectHold
  <2>3. hold' \in Seq(Item) /\ holding' \in BOOLEAN
    <3>1. <<>> \in Seq(Item) /\ Append(hold, Other) \in Seq(Item)
      BY <1>5, Lists
    <3>2. hold' \in Seq(Item)
      BY <2>2, <3>1
    <3>3. holding' \in BOOLEAN
      BY <2>1, <2>2
    <3> QED BY <3>2, <3>3
  <2>4. ~holding' => hold' = <<>>
    BY <2>1, <2>2
  <2>5. ended = "no" => \A k \in DOMAIN hold' : Held(hold[k])'
    <3> HAVE ended = "no"
    <3>1. CASE hold' = <<>>
      BY <3>1
    <3>2. CASE hold' = Append(hold, Other)
      <4>1. \A k \in DOMAIN hold' : (k \in DOMAIN hold /\ hold'[k] = hold[k]) \/ hold'[k] = Other
        <5>1. hold \in Seq(Item) /\ Other \in Item
          BY DEF Other, Item, ItemKinds
        <5> HIDE DEF StreamInv, TypeInv
        <5> QED BY <3>2, <5>1, AppendIs
      <4>2. \A k \in DOMAIN hold :
               hold[k] = Other \/ \E i \in DOMAIN args : hold[k] = Call(args[i])
        BY <2>1
      <4> HIDE DEF Other, Call, TypeInv
      <4>3. \A k \in DOMAIN hold' :
               hold'[k] = Other \/ \E i \in DOMAIN args : hold'[k] = Call(args[i])
        BY <4>1, <4>2
      <4> QED BY <2>1, <4>3
    <3> QED BY <2>2, <3>1, <3>2
  <2>6. ended = "no" => Accounted'
    BY <1>0, <1>8, <2>1 DEF EventNext
  <2> HIDE DEF Held
  <2> QED BY <2>1, <2>3, <2>4, <2>5, <2>6
<1>9. ASSUME EventStop \/ HeldStop PROVE Rest'
  <2>1. /\ UNCHANGED <<pc, fixedVars, text, parts, start, ended, buf, audited, blocked,
                       endVars>>
        /\ pc = "stream" /\ chain \in Events /\ ended = "no" /\ ~gone
        /\ calling' \in BOOLEAN /\ args' = <<>> /\ hold' = <<>> /\ holding' = FALSE
    BY <1>9 DEF EventStop, HeldStop, Event, CallEnds, CallEndsAgain, UpOther, Release, RejectHold
  <2>2. args' \in Seq(Nat) /\ hold' \in Seq(Item)
    BY <2>1, Lists
  <2>3. FreshInv' /\ FastInv'
    BY <2>1
  <2>4. Accounted'
    <3>1. CASE Allowed
      <4>1. passed' = passed \cup Range(args)
        BY <3>1 DEF Allowed
      <4>2. EventNext
        BY <1>9 DEF EventNext
      <4> HIDE DEF StreamInv, TypeInv, ControlInv
      <4> QED BY <2>1, <4>1, <4>2, AccountedStays
    <3>2. CASE Write(<<Block>>) \/ Write(<<Block>> \o StopLine)
      <4>1. StopLine \in Seq(Item)
        <5>1. Loose(StopLine, 0, 0, Other, TRUE)
          BY LooseStop
        <5> QED BY <5>1 DEF Loose, Renders
      <4>2. PICK u : Write(u) /\ (u = <<Block>> \/ u = <<Block>> \o StopLine)
        BY <3>2
      <4>3. TypeInv /\ ~gone
        BY <2>1
      <4> HIDE DEF StreamInv, TypeInv
      <4>4. u \in Seq(Item) /\ 1 \in DOMAIN u /\ u[1] = Block
        <5> DEFINE one == <<Block>>
        <5>1. one \in Seq(Item) /\ 1 \in DOMAIN one /\ one[1] = Block
          BY OneBlock
        <5>2. u = one \/ u = one \o StopLine
          BY <4>2
        <5> HIDE DEF one
        <5>3. /\ one \o StopLine \in Seq(Item) /\ 1 \in DOMAIN (one \o StopLine)
              /\ (one \o StopLine)[1] = Block
          BY <4>1, <5>1, Joined
        <5> QED BY <5>1, <5>2, <5>3
      <4>5. Refused'
        BY <4>2, <4>3, <4>4, RefusedNow
      <4> QED BY <4>5 DEF Accounted
    <3> QED BY <1>9, <3>1, <3>2 DEF EventStop, HeldStop, Release, RejectHold
  <2>5. CallInv'
    BY <2>1, <2>4
  <2>6. EndInv'
    BY <2>1
  <2>7. /\ pc' \in {"connect", "stream", "eof", "tail", "closed"}
        /\ parts' \in Nat /\ start' \in Nat /\ start' <= parts'
        /\ ended' \in {"no", "finish", "done"}
        /\ {ok, calling, holding, audited, blocked, seenEnd, doneSent}' \subseteq BOOLEAN
    BY <2>1
  <2> HIDE DEF FreshInv, FastInv, CallInv, EndInv
  <2> QED BY <2>2, <2>3, <2>5, <2>6, <2>7
<1>10. ASSUME EventFinish PROVE Rest'
  <2>1. /\ UNCHANGED <<pc, fixedVars, text, parts, start, args, audited, blocked, passed,
                       doneSent>>
        /\ pc = "stream" /\ chain \in Events
        /\ calling' = FALSE /\ ended' = "finish" /\ seenEnd' = TRUE
    BY <1>10 DEF EventFinish, Event, UpEnd
  <2> DEFINE u == Arguments(0) \o <<Finish>>
  <2>2. \/ UNCHANGED <<holding, hold>>
        \/ holding' = FALSE /\ hold' = <<>>
        \/ holding /\ holding' = holding /\ hold' = hold \o u
    BY <1>10 DEF EventFinish, Hold, RejectHold
  <2>3. u \in Seq(Item)
    <3>1. Loose(Arguments(0), 0, 0, Finish, TRUE)
      <4>1. parts \in Nat /\ 0 \in Nat /\ 0 <= parts
        OBVIOUS
      <4> HIDE DEF StreamInv, TypeInv
      <4> QED BY <4>1, LooseArguments
    <3>2. Arguments(0) \in Seq(Item)
      BY <3>1 DEF Loose, Renders
    <3>3. Finish \in Item
      BY DEF Finish, Item, ItemKinds
    <3> QED BY <3>2, <3>3
  <2> HIDE DEF u
  <2>4. hold' \in Seq(Item) /\ holding' \in BOOLEAN
    <3>1. hold \in Seq(Item) /\ hold \o u \in Seq(Item) /\ <<>> \in Seq(Item)
      BY <2>3, Joined
    <3>2. hold' \in Seq(Item)
      BY <2>2, <3>1
    <3> QED BY <2>2, <3>2
  <2>5. ~holding' => hold' = <<>>
    BY <2>1, <2>2
  <2>6. holding' => parts' > 0
    BY <2>1, <2>2
  <2> QED BY <2>1, <2>4, <2>5, <2>6
<1>11. ASSUME EventGatewayDone PROVE Rest'
  <2>1. /\ UNCHANGED <<pc, fixedVars, text, parts, start, holding, hold, audited, blocked, passed>>
        /\ pc = "stream" /\ chain \in Events /\ doneSent' = TRUE
        /\ calling' = FALSE /\ ended' = "done" /\ seenEnd' = TRUE
    BY <1>11 DEF EventGatewayDone, Event, UpEnd
  <2>2. Len(buf') <= 1 /\ \A k \in DOMAIN buf' : buf'[k][1] = "a"
    BY <1>11, BeforeFits DEF EventGatewayDone, UpEnd, OutInv
  <2>3. args' = <<>> \/ \E k \in Range(args) : args' = <<k>>
    BY <1>11 DEF EventGatewayDone
  <2>4. args' \in Seq(Nat) /\ (args' # <<>> => args # <<>>)
    <3>1. \A k \in Range(args) : k \in Nat /\ args # <<>>
      BY DEF Range
    <3> QED BY <2>3, <3>1, Lists
  <2> QED BY <2>1, <2>2, <2>4
<1>12. ASSUME EventEof PROVE Rest'
  <2>1. /\ UNCHANGED <<fixedVars, upVars, buf, holding, hold, audited, blocked, endVars>>
        /\ pc' = "tail" /\ chain \in Events
    BY <1>12 DEF EventEof
  <2>2. \/ args' = args /\ \A k \in DOMAIN args : args[k] \in passed'
        \/ args' = <<>>
    BY <1>12 DEF EventEof, Allowed, Range
  <2>3. args' \in Seq(Nat)
    BY <2>2, Lists
  <2>4. \A k \in DOMAIN args' : args'[k] \in passed'
    BY <2>2
  <2>5. args = <<>> => args' = <<>>
    BY <2>2
  <2> QED BY <2>1, <2>3, <2>4, <2>5
<1>13. ASSUME EventTail PROVE Rest'
  <2>1. /\ UNCHANGED <<fixedVars, upVars, audited, blocked, endVars>>
        /\ pc' = "closed" /\ chain \in Events
        /\ buf' = <<>> /\ args' = <<>> /\ hold' = <<>> /\ holding' = FALSE
    BY <1>13 DEF EventTail, Close
  <2>2. args' \in Seq(Nat) /\ hold' \in Seq(Item)
    BY <2>1, Lists
  <2>3. FreshInv' /\ FastInv'
    BY <2>1
  <2>4. CallInv'
    BY <2>1
  <2>5. EndInv'
    BY <2>1
  <2>6. /\ pc' \in {"connect", "stream", "eof", "tail", "closed"}
        /\ parts' \in Nat /\ start' \in Nat /\ start' <= parts'
        /\ ended' \in {"no", "finish", "done"}
        /\ hold' \in Seq(Item)
        /\ {ok, calling, holding, audited, blocked, seenEnd, doneSent}' \subseteq BOOLEAN
    BY <2>1, <2>2
  <2> HIDE DEF FreshInv, FastInv, CallInv, EndInv
  <2> QED BY <2>2, <2>3, <2>4, <2>5, <2>6
<1> QED BY <1>1, <1>2, <1>3, <1>4, <1>6, <1>7, <1>8, <1>9, <1>10, <1>11, <1>12, <1>13
        DEF EventNext

(* What these steps never take back.                                        *)
LEMMA AheadStep ==
    ASSUME StreamInv,
           ChatNext \/ EventNext \/ FastNext \/ WholeRefused \/ WholePassed \/ WholeCall
    PROVE  Ahead
<1> USE DEF Ahead, StreamInv, TypeInv, upVars, endVars, WholeVars, UpText, UpPart, UpOther, UpEnd
<1>1. CASE ChatNext
  <2>1. ASSUME NEW t \in Texts, NEW fin \in BOOLEAN, ChatText(t, fin) PROVE Ahead
    BY <2>1 DEF ChatText
  <2>2. ASSUME NEW over \in BOOLEAN, ChatPart(over) PROVE Ahead
    BY <2>2 DEF ChatPart
  <2>3. ASSUME NEW kind \in {"stop", "tool_calls"}, ChatFinish(kind) PROVE Ahead
    <3>1. seenEnd' = TRUE /\ parts' = parts
      BY <2>3 DEF ChatFinish
    <3> QED BY <3>1
  <2>4. ASSUME ChatDone PROVE Ahead
    <3>1. seenEnd' = TRUE /\ parts' = parts
      BY <2>4 DEF ChatDone
    <3> QED BY <3>1
  <2>5. ASSUME ChatOther \/ ChatEof \/ ChatTail PROVE Ahead
    BY <2>5 DEF ChatOther, ChatEof, ChatTail
  <2> QED BY <1>1, <2>1, <2>2, <2>3, <2>4, <2>5 DEF ChatNext
<1>2. CASE EventNext
  BY <1>2 DEF EventNext, EventText, EventPass, EventOther, EventAges, EventPart, HeldPart,
              HeldOther, EventStop, CallEnds, CallEndsAgain, HeldStop, EventFinish,
              EventGatewayDone, EventEof, EventTail
<1>3. CASE FastNext
  BY <1>3 DEF FastNext, FastText, FastPart, FastOther, FastEnd, FastEof, FastTail
<1>4. CASE WholeRefused \/ WholePassed \/ WholeCall
  BY <1>4 DEF WholeRefused, WholePassed, WholeCall
<1> QED BY <1>1, <1>2, <1>3, <1>4

(* A step of one of the chains.                                             *)
LEMMA ChainStep ==
    ASSUME StreamInv,
           ChatNext \/ EventNext \/ FastNext \/ WholeRefused \/ WholePassed \/ WholeCall
    PROVE  StreamInv'
<1>1. Moves /\ \E items : Answer(items)
  BY ChatWrites, EventWrites, FastWrites, WholeWrites
<1>2. OutInv' /\ out' \in Seq(Item)
  BY <1>1, AheadStep, OutStep DEF StreamInv
<1>3. Rest'
  BY ChatControl, EventControl, FastControl, WholeControl
<1>4. /\ chain' \in Chains /\ {dialog, audit, gone}' \subseteq BOOLEAN
      /\ text' \in Seq(Symbols) /\ buf' \in Seq(Symbols \X Nat)
  BY <1>1 DEF Moves, TextMoves, Buffers, StreamInv, TypeInv
<1>5. TypeInv'
  BY <1>2, <1>3, <1>4 DEF Rest, TypeInv
<1> QED BY <1>2, <1>3, <1>5 DEF StreamInv, Rest

(* A step before, between or after the events writes nothing.               *)
LEMMA QuietStep ==
    ASSUME StreamInv,
           \/ ConnectFails \/ Connected \/ UpstreamCloses \/ UpstreamBreaks \/ ClientLeaves
           \/ UNCHANGED vars
    PROVE  StreamInv'
<1> USE DEF fixedVars, upVars, callVars, endVars
<1>1. /\ UNCHANGED <<dialog, audit, text, parts, start, ended, calling, buf, args, holding, hold,
                     audited, blocked, passed, seenEnd, doneSent, out>>
      /\ chain' = chain \/ pc = "connect"
      /\ pc' = pc \/ (pc # "closed" /\ pc' \in {"stream", "eof", "closed"})
      /\ pc' = "stream" => pc = "stream" \/ pc = "connect"
      /\ pc' = "connect" => pc = "connect"
      /\ pc' = "tail" => pc = "tail"
      /\ gone' = gone \/ gone' = TRUE
      /\ chain' \in Chains /\ ok' \in BOOLEAN
      /\ chain' # chain => (chain' \in Slow => dialog) /\ (chain' = "fast" => ~dialog \/ ~audit)
  <2> USE DEF StreamInv, TypeInv
  <2>1. CASE ConnectFails
    BY <2>1 DEF ConnectFails, Close
  <2>2. CASE Connected
    BY <2>2 DEF Connected, Chains
  <2>3. CASE UpstreamCloses
    BY <2>3 DEF UpstreamCloses
  <2>4. CASE UpstreamBreaks
    BY <2>4 DEF UpstreamBreaks, Close
  <2>5. CASE ClientLeaves
    <3>1. gone' = TRUE /\ gone' \in BOOLEAN
      BY <2>5 DEF ClientLeaves
    <3>2. pc' = pc \/ (pc = "stream" /\ pc' = "eof")
      BY <2>5 DEF ClientLeaves
    <3> QED BY <2>5, <3>1, <3>2 DEF ClientLeaves
  <2>6. CASE UNCHANGED vars
    BY <2>6 DEF vars
  <2> QED BY <2>1, <2>2, <2>3, <2>4, <2>5, <2>6
<1>2. TypeInv'
  BY <1>1 DEF StreamInv, TypeInv
<1>3. pc = "connect" =>
        /\ text = <<>> /\ parts = 0 /\ ended = "no" /\ ~seenEnd
        /\ buf = <<>> /\ args = <<>> /\ hold = <<>> /\ ~holding /\ out = <<>>
  BY DEF StreamInv, ControlInv, FreshInv
<1>4. FreshInv'
  BY <1>1, <1>3 DEF StreamInv, ControlInv, FreshInv
<1>5. CallInv'
  <2>1. (Refused' <=> Refused) /\ (Accounted' <=> Accounted)
    BY <1>1 DEF Refused, Accounted
  <2>2. CASE pc = "connect"
    <3>1. Accounted
      BY <1>3, <2>2 DEF Accounted
    <3> QED BY <1>1, <1>3, <2>1, <2>2, <3>1 DEF StreamInv, ControlInv, CallInv
  <2>3. CASE pc # "connect"
    BY <1>1, <2>1, <2>3 DEF StreamInv, ControlInv, CallInv, Held
  <2> QED BY <2>2, <2>3
<1>6. FastInv' /\ EndInv'
  <2>1. CASE pc = "connect"
    BY <1>1, <1>3, <2>1 DEF FastInv, EndInv
  <2>2. CASE pc # "connect"
    BY <1>1, <2>2 DEF StreamInv, ControlInv, FastInv, EndInv
  <2> QED BY <2>1, <2>2
<1>7. TextInv'
  <2>1. Flushed' = Flushed
    BY <1>1 DEF Flushed
  <2> QED BY <1>1, <2>1 DEF StreamInv, OutInv, TextInv
<1>8. CASE out = <<>>
  <2>1. DOMAIN out' = {}
    BY <1>1, <1>8
  <2>2. OnlyAuditedCalls' /\ SentInv'
    BY <2>1 DEF OnlyAuditedCalls, SentInv
  <2>3. EndIsHonest'
    BY <2>1 DEF EndIsHonest, EndsWereSent, EndsFollowText, DoneIsFinal, FailedIsUnended,
                BlockHasCause
  <2>4. OutInv'
    BY <1>7, <2>2, <2>3 DEF OutInv
  <2> QED BY <1>2, <1>4, <1>5, <1>6, <2>4 DEF StreamInv, ControlInv
<1>9. CASE out # <<>>
  <2>1. chain' = chain /\ (pc' # "closed" => pc # "closed")
    BY <1>1, <1>3, <1>9
  <2>2. OnlyAuditedCalls'
    BY <1>1, <2>1 DEF StreamInv, OutInv, OnlyAuditedCalls, Unaudited
  <2>3. SentInv'
    BY <1>1, <2>1 DEF StreamInv, OutInv, SentInv
  <2>4. EndsWereSent' /\ EndsFollowText'
    BY <1>1, <2>1 DEF StreamInv, OutInv, EndIsHonest, EndsWereSent, EndsFollowText
  <2>5. DoneIsFinal' /\ FailedIsUnended' /\ BlockHasCause'
    BY <1>1, <2>1 DEF StreamInv, OutInv, EndIsHonest, DoneIsFinal, FailedIsUnended, BlockHasCause
  <2>6. OutInv'
    BY <1>7, <2>2, <2>3, <2>4, <2>5 DEF OutInv, EndIsHonest
  <2> QED BY <1>2, <1>4, <1>5, <1>6, <2>6 DEF StreamInv, ControlInv
<1> QED BY <1>8, <1>9

(* The invariant holds of every request.                                    *)
THEOREM StreamInvariant == Spec => []StreamInv
<1>1. Init => StreamInv
  <2> SUFFICES ASSUME Init PROVE StreamInv
    OBVIOUS
  <2>1. TypeInv
    <3>1. text \in Seq(Symbols) /\ buf \in Seq(Symbols \X Nat) /\ args \in Seq(Nat)
      BY Lists DEF Init
    <3>2. hold \in Seq(Item) /\ out \in Seq(Item)
      BY Lists DEF Init
    <3>3. {ok, dialog, audit, calling, holding, audited, blocked, seenEnd, doneSent, gone}
             \subseteq BOOLEAN
      BY DEF Init
    <3>4. /\ pc \in {"connect", "stream", "eof", "tail", "closed"} /\ chain \in Chains
          /\ parts \in Nat /\ start \in Nat /\ start <= parts
          /\ ended \in {"no", "finish", "done"}
      BY DEF Init, Chains
    <3> QED BY <3>1, <3>2, <3>3, <3>4 DEF TypeInv
  <2>2. ControlInv
    BY DEF Init, ControlInv, FreshInv, CallInv, FastInv, EndInv, Events, Slow
  <2>3. Flushed = 0 /\ Piece(buf, text, Flushed)
    BY DEF Init, Flushed, Piece
  <2>4. Spell(out, 0, 0) /\ Covers(out, text, 0, 0)
    BY DEF Init, Spell, Covers, TextAt
  <2>5. TextInv
    BY <2>3, <2>4 DEF Init, TextInv
  <2>6. DOMAIN out = {}
    BY DEF Init
  <2>7. OutInv
    BY <2>5, <2>6 DEF OutInv, OnlyAuditedCalls, SentInv, EndIsHonest, EndsWereSent,
                      EndsFollowText, DoneIsFinal, FailedIsUnended, BlockHasCause
  <2> QED BY <2>1, <2>2, <2>7 DEF StreamInv
<1>2. StreamInv /\ [Next]_vars => StreamInv'
  BY ChainStep, QuietStep DEF Next
<1> QED BY <1>1, <1>2, PTL DEF Spec

(* The client reads the text in the upstream's order, nothing twice and no  *)
(* first half of a token, however the answer is cut into events and the     *)
(* line buffer (_split_safe_hold, _strip_partials) is flushed.              *)
THEOREM TextStaysInOrder == Spec => []TextInOrder
<1>1. StreamInv => TextInOrder
  BY DEF StreamInv, OutInv, TextInv, Spell, TextInOrder
<1> QED BY <1>1, StreamInvariant, PTL

(* On a streamed answer of an audited endpoint, arguments no audit let      *)
(* through reach the client only before the [DONE] of a gateway, repeated   *)
(* behind a refusal, or repeated before the event that ends a Responses     *)
(* answer: no hold that is released (_release_hold), no audit at the end of *)
(* a broken stream and nothing on a chat stream lets them out.              *)
THEOREM CallsAreAudited == Spec => []OnlyAuditedCalls
<1>1. StreamInv => OnlyAuditedCalls
  BY DEF StreamInv, OutInv
<1> QED BY <1>1, StreamInvariant, PTL

(* The upstream's terminals are never made up and, on the slow chains, come *)
(* after all the text; only refusals on a stream of another protocol follow *)
(* [DONE]; response.failed never meets a terminal; and a refusal, which is  *)
(* a terminal of the proxy's own, has a call or an empty answer as its      *)
(* cause (seen_global_terminal, _done_sent and the end of the stream).      *)
THEOREM TheEndIsHonest == Spec => []EndIsHonest
<1>1. StreamInv => EndIsHonest
  BY DEF StreamInv, OutInv
<1> QED BY <1>1, StreamInvariant, PTL

(* A dialog the upstream answered with status 200, and that is recorded as  *)
(* answered, has written something unless its client left: the guards       *)
(* against an empty answer at the end of each chain.                        *)
THEOREM AnswersAreNeverSilent == Spec => []NeverSilent
<1>1. Init => NeverSilent
  BY DEF Init, NeverSilent
<1>2. StreamInv /\ NeverSilent /\ [Next]_vars => NeverSilent'
  <2> SUFFICES ASSUME StreamInv, NeverSilent, [Next]_vars, pc' = "closed",
                      counted' = "status", ok', ~gone'
               PROVE  out' # <<>>
    BY DEF NeverSilent
  <2>1. out \in Seq(Item)
    BY DEF StreamInv, TypeInv
  <2>2. ASSUME NEW u, Write(RefusalIfSilent(u)), ok, ~gone PROVE out' # <<>>
    <3>1. <<Block>> \in Seq(Item) /\ Len(<<Block>>) = 1
      BY DEF Block, Item, ItemKinds
    <3>2. out \o <<Block>> # <<>>
      <4>1. Len(out \o <<Block>>) = Len(out) + 1 /\ Len(out) \in Nat
        BY <2>1, <3>1
      <4> QED BY <4>1
    <3> QED BY <2>2, <3>2 DEF Write, RefusalIfSilent
  <2>3. ASSUME NEW x \in Item, Write(<<x>>), ~gone PROVE out' # <<>>
    <3>1. out' = out \o <<x>> /\ Len(out \o <<x>>) = Len(out) + 1 /\ Len(out) \in Nat
      BY <2>1, <2>3 DEF Write
    <3> QED BY <3>1
  <2>4. CASE ChatTail \/ EventTail \/ FastTail
    <3>1. \E u : Write(RefusalIfSilent(u))
      BY <2>4 DEF ChatTail, EventTail, FastTail
    <3>2. ok' = ok /\ gone' = gone
      BY <2>4 DEF ChatTail, EventTail, FastTail, fixedVars
    <3>3. ok /\ ~gone
      BY <3>2
    <3> QED BY <2>2, <3>1, <3>3
  <2>5. CASE WholeRefused \/ WholePassed \/ WholeCall
    <3>0. UNCHANGED <<ok, gone, dialog>> /\ (dialog \/ counted' = "no")
      BY <2>5 DEF WholeRefused, WholePassed, WholeCall, WholeVars, fixedVars, Close
    <3>1. dialog /\ ok /\ ~gone
      BY <3>0
    <3>2. PICK x \in {<<"error", 0>>, Other, Block, Call(1)} : Write(<<x>>)
      BY <2>5, <3>1 DEF WholeRefused, WholePassed, WholeCall
    <3>3. x \in Item
      BY DEF Other, Block, Call, Item, ItemKinds
    <3> QED BY <2>3, <3>1, <3>2, <3>3
  <2>6. CASE ConnectFails \/ UpstreamBreaks \/ FastEof
    BY <2>6 DEF ConnectFails, UpstreamBreaks, FastEof, Close, NeverSilent
  <2>7. CASE UNCHANGED vars
    <3>1. UNCHANGED <<pc, counted, ok, gone, out>>
      BY <2>7 DEF vars, fixedVars
    <3> QED BY <3>1 DEF NeverSilent
  <2>8. CASE Connected \/ UpstreamCloses \/ ClientLeaves
    BY <2>8 DEF Connected, UpstreamCloses, ClientLeaves
  <2>9. CASE \/ \E t \in Texts, fin \in BOOLEAN : ChatText(t, fin)
             \/ \E over \in BOOLEAN : ChatPart(over)
             \/ ChatOther \/ ChatDone \/ ChatEof
             \/ \E kind \in {"stop", "tool_calls"} : ChatFinish(kind)
    BY <2>9 DEF ChatText, ChatPart, ChatOther, ChatDone, ChatEof, ChatFinish, Chat
  <2>10. CASE \/ \E t \in Texts : EventText(t)
              \/ EventPass \/ EventOther \/ EventAges
              \/ \E over \in BOOLEAN : EventPart(over)
              \/ HeldPart \/ HeldOther \/ EventStop \/ HeldStop
              \/ EventFinish \/ EventGatewayDone \/ EventEof
    BY <2>10 DEF EventText, EventPass, EventOther, EventAges, EventPart, HeldPart, HeldOther,
                 EventStop, HeldStop, EventFinish, EventGatewayDone, EventEof, Event
  <2>11. CASE \/ \E t \in Texts, fin, short \in BOOLEAN : FastText(t, fin, short)
              \/ FastPart \/ FastOther \/ \E item \in {Finish, Done} : FastEnd(item)
    BY <2>11 DEF FastText, FastPart, FastOther, FastEnd, Fast
  <2> QED BY <2>4, <2>5, <2>6, <2>7, <2>8, <2>9, <2>10, <2>11
          DEF Next, ChatNext, EventNext, FastNext
<1> QED BY <1>1, <1>2, StreamInvariant, PTL DEF Spec
============================================================================
