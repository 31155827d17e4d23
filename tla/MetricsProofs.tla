---------------------------- MODULE MetricsProofs ----------------------------
(***************************************************************************)
(* Proofs about Metrics: its types and bounds, NeverCountedTwice,           *)
(* RestartKeepsTotals and CloseLosesNothing, for any number of threads,     *)
(* upstreams, events and restarts.                                          *)
(***************************************************************************)
EXTENDS Metrics, FiniteSetTheorems, TLAPS

(***************************************************************************)
(* The inductive invariant.                                                *)
(***************************************************************************)

Items(q) == {q[i] : i \in 1..Len(q)}

(* The items that are still to be written: those of the queue, and those of *)
(* the snapshots that query threads are storing.                            *)
Pending == Items(queue) \cup UNION {Items(worker[w].rows) : w \in Worker}

Copies == {[row |-> r, n |-> mem[r]] : r \in Row}

LoopState == [at : {"rest", "incr", "flush"}, now : 0..MaxClock, up : Up,
              by : {"timer", "close"}]

WorkerState == [at : {"idle", "flush", "snap", "write", "read"}, now : 0..MaxClock,
                rows : Seq(Item)]

(* TypeOK, with the types of the records.                                   *)
TypeInv ==
    /\ TypeOK
    /\ loop \in LoopState
    /\ worker \in [Worker -> WorkerState]

(* No reading of the clock is ahead of it, and no event is of a later hour  *)
(* or day.                                                                  *)
TimeInv ==
    /\ loop.now <= clock
    /\ \A w \in Worker : worker[w].now <= clock
    /\ \A r \in Row : truth[r] > 0 => r.at <= At(r.by, clock)

(* What is counted in memory, stored, or still to be written did happen.    *)
CountInv ==
    /\ NeverCountedTwice
    /\ \A s \in Pending : s.n <= truth[s.row]

(* The row belongs to a day of this process.                                *)
Since(r) == r.at * BucketLen(r.by) >= At("day", boot) * DayLen

(* What is stored or still to be written, for the days of this process, is  *)
(* at most what memory holds.                                               *)
KeepInv ==
    healthy => \A r \in Row : Since(r) =>
        \/ Expired(r, clock)
        \/ /\ db[r] <= mem[r]
           /\ \A s \in Pending : s.row = r => s.n <= mem[r]

(* How the event loop, close() and the database's state go together.        *)
ControlInv ==
    /\ loop.at = "incr" => closer = "open"
    /\ loop.at = "flush" /\ loop.by = "timer" => closer = "open"
    /\ loop.at = "flush" /\ loop.by = "close" => closer = "flush"
    /\ closer \in {"drain", "done"} => loop.at = "rest"
    /\ healthy => sqliteOk /\ (conn \/ closer = "done")
    /\ closer = "done" => ~conn
    /\ closer = "drain" => jobs > 0 \/ queue = <<>>

(* The last item of the queue for row r has the number n.                   *)
LastIs(r, n) ==
    \E i \in 1..Len(queue) :
        /\ queue[i] = [row |-> r, n |-> n]
        /\ \A j \in 1..Len(queue) : j > i => queue[j].row # r

(* Row r will be, or is, stored as memory has it, when the queue is written.*)
Settled(r) ==
    \/ mem[r] = 0
    \/ Expired(r, clock)
    \/ LastIs(r, mem[r])
    \/ db[r] = mem[r] /\ \A i \in 1..Len(queue) : queue[i].row # r

(* Once closing has begun no thread stores an older snapshot, and once its  *)
(* snapshot is queued, every row is settled.                                *)
CloseInv ==
    /\ closer # "open" /\ quiet =>
          \A w \in Worker : \A s \in Items(worker[w].rows) :
              mem[s.row] = 0 \/ s.n = mem[s.row]
    /\ closer = "drain" /\ healthy /\ quiet => \A r \in Row : Settled(r)
    /\ CloseLosesNothing

MetricsInv == TypeInv /\ TimeInv /\ CountInv /\ KeepInv /\ ControlInv /\ CloseInv

----------------------------------------------------------------------------
(* Lemmas about numbers                                                     *)

(* A bucket's number grows with the time.                                   *)
LEMMA DivGrows ==
    ASSUME NEW a \in Nat, NEW b \in Nat, NEW d \in Nat \ {0}, a <= b
    PROVE  a \div d <= b \div d
  OBVIOUS

(* The next bucket begins after the present time.                           *)
LEMMA NextIsLater ==
    ASSUME NEW t \in Nat, NEW d \in Nat \ {0}
    PROVE  (t \div d + 1) * d \in Nat /\ t <= (t \div d + 1) * d
  OBVIOUS

(* Of two bucket numbers, the one whose bucket begins later is the larger.  *)
LEMMA TimesGrows ==
    ASSUME NEW a \in Nat, NEW b \in Nat, NEW d \in Nat \ {0}, a * d >= b * d
    PROVE  a >= b
  OBVIOUS

(* Division stays among the natural numbers.                                *)
LEMMA DivNat ==
    ASSUME NEW t \in Nat, NEW d \in Nat \ {0}
    PROVE  t \div d \in Nat
  OBVIOUS

----------------------------------------------------------------------------
(* Lemmas about rows and buckets                                            *)

(* A bucket has a positive length.                                          *)
LEMMA BucketLens == \A b : BucketLen(b) \in Nat \ {0}
  BY MetricsAssumption DEF BucketLen

(* Time's bucket is a number that never falls as time passes.               *)
LEMMA BucketGrows ==
    ASSUME NEW b, NEW t \in Nat, NEW u \in Nat, t <= u
    PROVE  At(b, t) \in Nat /\ At(b, u) \in Nat /\ At(b, t) <= At(b, u)
  BY BucketLens, DivGrows, DivNat DEF At

(* The parts of a row.                                                      *)
LEMMA RowParts ==
    ASSUME NEW r \in Row
    PROVE  r.by \in {"day", "hour"} /\ r.at \in Nat /\ r.up \in Up
  <1>1. MaxClock \in Nat
    BY MetricsAssumption
  <1>2. At("day", MaxClock) \in Nat /\ At("hour", MaxClock) \in Nat
    BY <1>1, BucketGrows
  <1>3. PICK b \in {"day", "hour"} : r \in [by : {b}, at : 0..At(b, MaxClock), up : Up]
    BY DEF Row
  <1> QED
    BY <1>2, <1>3

(* What has expired stays expired.                                          *)
LEMMA ExpiredStays ==
    ASSUME NEW r \in Row, NEW t \in Nat, NEW u \in Nat, t <= u, Expired(r, t)
    PROVE  Expired(r, u)
  BY BucketGrows, RowParts, MetricsAssumption DEF Expired

(* There are finitely many rows, so a snapshot can list them.               *)
LEMMA RowFinite == IsFiniteSet(Row)
  <1> DEFINE Rows(b) == [by : {b}, at : 0..At(b, MaxClock), up : Up]
  <1>1. ASSUME NEW b \in {"day", "hour"} PROVE IsFiniteSet(Rows(b))
    <2> DEFINE S == (0..At(b, MaxClock)) \X Up
    <2> DEFINE f == [p \in S |-> [by |-> b, at |-> p[1], up |-> p[2]]]
    <2>1. At(b, MaxClock) \in Nat /\ Ups \in Nat
      BY MetricsAssumption, BucketGrows
    <2>2. IsFiniteSet(0..At(b, MaxClock)) /\ IsFiniteSet(Up)
      BY <2>1, FS_Interval DEF Up
    <2>3. IsFiniteSet(S)
      BY <2>2, FS_Product
    <2>4. f \in [S -> Rows(b)]
      OBVIOUS
    <2>5. ASSUME NEW r \in Rows(b) PROVE \E p \in S : f[p] = r
      <3>1. <<r.at, r.up>> \in S
        OBVIOUS
      <3>2. f[<<r.at, r.up>>] = r
        BY <3>1
      <3> QED
        BY <3>1, <3>2
    <2>6. f \in Surjection(S, Rows(b))
      BY <2>4, <2>5 DEF Surjection
    <2> HIDE DEF S, f, Rows
    <2> QED
      BY <2>3, <2>6, FS_Surjection
  <1>2. Row = Rows("day") \cup Rows("hour")
    BY DEF Row
  <1> HIDE DEF Rows
  <1> QED
    BY <1>1, <1>2, FS_Union

(* A set in some order: each element once.                                  *)
LEMMA SeqOfSet ==
    ASSUME NEW S, IsFiniteSet(S)
    PROVE  /\ Cardinality(S) \in Nat
           /\ SetToSeq(S) \in [1..Cardinality(S) -> S]
           /\ \A i, j \in 1..Cardinality(S) :
                 SetToSeq(S)[i] = SetToSeq(S)[j] => i = j
           /\ \A x \in S : \E i \in 1..Cardinality(S) : SetToSeq(S)[i] = x
  <1> DEFINE n == Cardinality(S)
  <1>1. n \in Nat /\ ExistsBijection(1..n, S)
    BY FS_CardinalityType
  <1>2. PICK g : g \in Bijection(1..n, S)
    BY <1>1 DEF ExistsBijection
  <1>3. g \in [1..n -> S] /\ IsInjective(g)
    BY <1>2 DEF Bijection, Injection, IsInjective
  <1> DEFINE f == SetToSeq(S)
  <1>4. f \in [1..n -> S] /\ IsInjective(f)
    BY <1>3 DEF SetToSeq
  <1>5. f \in Injection(1..n, S)
    BY <1>4 DEF Injection, IsInjective
  <1>6. IsFiniteSet(1..n) /\ Cardinality(1..n) = n
    BY <1>1, FS_Interval
  <1> HIDE DEF f
  <1>7. f \in Surjection(1..n, S)
    BY <1>5, <1>6, FS_Injection
  <1> QED
    BY <1>1, <1>4, <1>7 DEF f, IsInjective, Surjection

----------------------------------------------------------------------------
(* Lemmas about snapshots and the queue                                     *)

(* The first element of a queue and the rest.                               *)
LEMMA Lists ==
    ASSUME NEW S, NEW q \in Seq(S), q # <<>>
    PROVE  /\ Tail(q) \in Seq(S) /\ Len(Tail(q)) = Len(q) - 1 /\ Len(q) \in Nat \ {0}
           /\ Head(q) = q[1] /\ q[1] \in S
           /\ \A i \in 1..Len(q) - 1 : Tail(q)[i] = q[i + 1]
  OBVIOUS

(* Taking the first item of a list leaves no new one.                       *)
LEMMA ItemsOfTail ==
    ASSUME NEW S, NEW q \in Seq(S), q # <<>>
    PROVE  Head(q) \in Items(q) /\ Items(Tail(q)) \subseteq Items(q)
  <1>1. Head(q) = q[1] /\ 1 \in 1..Len(q)
    BY Lists
  <1>2. ASSUME NEW i \in 1..Len(Tail(q)) PROVE Tail(q)[i] \in Items(q)
    <2>1. i + 1 \in 1..Len(q) /\ Tail(q)[i] = q[i + 1]
      BY Lists
    <2> QED
      BY <2>1 DEF Items
  <1> QED
    BY <1>1, <1>2 DEF Items

(* A snapshot holds each row that is present, once, with its total.         *)
LEMMA SnapshotIs ==
    ASSUME mem \in Totals
    PROVE  /\ Snapshot \in Seq(Item)
           /\ Items(Snapshot) \subseteq Copies
           /\ \A r \in Row : mem[r] > 0 =>
                 \E i \in 1..Len(Snapshot) :
                    /\ Snapshot[i] = [row |-> r, n |-> mem[r]]
                    /\ \A j \in 1..Len(Snapshot) : j # i => Snapshot[j].row # r
  <1> DEFINE D == Present("day")
             H == Present("hour")
             d == Cardinality(D)
             h == Cardinality(H)
             ds == SetToSeq(D)
             hs == SetToSeq(H)
             rows == ds \o hs
  <1>1. D \subseteq Row /\ H \subseteq Row /\ D \cap H = {}
    BY DEF Present
  <1>2. IsFiniteSet(D) /\ IsFiniteSet(H)
    BY <1>1, RowFinite, FS_Subset
  <1>3. ASSUME NEW r \in Row, mem[r] > 0 PROVE r \in D \/ r \in H
    BY <1>3, RowParts DEF Present
  <1>4. /\ d \in Nat /\ ds \in [1..d -> D]
        /\ \A i, j \in 1..d : ds[i] = ds[j] => i = j
        /\ \A x \in D : \E i \in 1..d : ds[i] = x
    BY <1>2, SeqOfSet
  <1>5. /\ h \in Nat /\ hs \in [1..h -> H]
        /\ \A i, j \in 1..h : hs[i] = hs[j] => i = j
        /\ \A x \in H : \E i \in 1..h : hs[i] = x
    BY <1>2, SeqOfSet
  <1> HIDE DEF D, H, d, h, ds, hs
  <1>6. ds \in Seq(Row) /\ Len(ds) = d /\ hs \in Seq(Row) /\ Len(hs) = h
    BY <1>1, <1>4, <1>5
  <1>7. /\ rows \in Seq(Row) /\ Len(rows) = d + h
        /\ \A i \in 1..d : rows[i] = ds[i]
        /\ \A i \in 1..h : rows[d + i] = hs[i]
    BY <1>4, <1>5, <1>6
  <1>8. \A i \in 1..(d + h) : i \in 1..d \/ \E k \in 1..h : i = d + k
    <2> SUFFICES ASSUME NEW i \in 1..(d + h), i \notin 1..d
                 PROVE  \E k \in 1..h : i = d + k
      OBVIOUS
    <2>1. i - d \in 1..h /\ i = d + (i - d)
      BY <1>4, <1>5
    <2> QED
      BY <2>1
  <1> HIDE DEF rows
  <1>9. \A i, j \in 1..(d + h) : rows[i] = rows[j] => i = j
    <2> SUFFICES ASSUME NEW i \in 1..(d + h), NEW j \in 1..(d + h), rows[i] = rows[j]
                 PROVE  i = j
      OBVIOUS
    <2>1. CASE i \in 1..d /\ j \in 1..d
      BY <2>1, <1>4, <1>7
    <2>2. CASE i \in 1..d /\ j \notin 1..d
      <3>1. PICK k \in 1..h : j = d + k
        BY <2>2, <1>8
      <3>2. rows[i] = ds[i] /\ ds[i] \in D /\ rows[j] = hs[k] /\ hs[k] \in H
        BY <2>2, <3>1, <1>4, <1>5, <1>7
      <3> QED
        BY <3>2, <1>1
    <2>3. CASE i \notin 1..d /\ j \in 1..d
      <3>1. PICK k \in 1..h : i = d + k
        BY <2>3, <1>8
      <3>2. rows[j] = ds[j] /\ ds[j] \in D /\ rows[i] = hs[k] /\ hs[k] \in H
        BY <2>3, <3>1, <1>4, <1>5, <1>7
      <3> QED
        BY <3>2, <1>1
    <2>4. CASE i \notin 1..d /\ j \notin 1..d
      <3>1. PICK k \in 1..h : i = d + k
        BY <2>4, <1>8
      <3>2. PICK l \in 1..h : j = d + l
        BY <2>4, <1>8
      <3>3. hs[k] = hs[l]
        BY <3>1, <3>2, <1>7
      <3> QED
        BY <3>1, <3>2, <3>3, <1>5
    <2> QED
      BY <2>1, <2>2, <2>3, <2>4
  <1>10. ASSUME NEW r \in Row, mem[r] > 0 PROVE \E i \in 1..(d + h) : rows[i] = r
    <2>1. CASE r \in D
      <3>1. PICK i \in 1..d : ds[i] = r
        BY <2>1, <1>4
      <3>2. i \in 1..(d + h) /\ rows[i] = r
        BY <3>1, <1>4, <1>5, <1>7
      <3> QED
        BY <3>2
    <2>2. CASE r \in H
      <3>1. PICK i \in 1..h : hs[i] = r
        BY <2>2, <1>5
      <3>2. d + i \in 1..(d + h) /\ rows[d + i] = r
        BY <3>1, <1>4, <1>5, <1>7
      <3> QED
        BY <3>2
    <2> QED
      BY <2>1, <2>2, <1>3, <1>10
  <1>11. Snapshot = [i \in 1..(d + h) |-> [row |-> rows[i], n |-> mem[rows[i]]]]
    <2>1. DOMAIN rows = 1..(d + h)
      BY <1>7
    <2> QED
      BY <2>1 DEF Snapshot, rows, ds, hs, D, H
  <1>12. d + h \in Nat
    BY <1>4, <1>5
  <1>13. \A i \in 1..(d + h) : rows[i] \in Row /\ mem[rows[i]] \in Nat
    BY <1>7 DEF Totals
  <1>14. /\ Snapshot \in Seq(Item) /\ Len(Snapshot) = d + h
         /\ \A i \in 1..(d + h) : Snapshot[i] = [row |-> rows[i], n |-> mem[rows[i]]]
    <2>1. Snapshot \in [1..(d + h) -> Item]
      BY <1>11, <1>13 DEF Item
    <2>2. ASSUME NEW k \in Nat, NEW f \in [1..k -> Item]
          PROVE  f \in Seq(Item) /\ Len(f) = k
      OBVIOUS
    <2>3. \A i \in 1..(d + h) : Snapshot[i] = [row |-> rows[i], n |-> mem[rows[i]]]
      BY <1>11
    <2> QED
      BY <1>12, <2>1, <2>2, <2>3
  <1> HIDE DEF rows
  <1>15. Items(Snapshot) \subseteq Copies
    BY <1>13, <1>14 DEF Items, Copies
  <1>16. ASSUME NEW r \in Row, mem[r] > 0
         PROVE  \E i \in 1..Len(Snapshot) :
                    /\ Snapshot[i] = [row |-> r, n |-> mem[r]]
                    /\ \A j \in 1..Len(Snapshot) : j # i => Snapshot[j].row # r
    <2>1. PICK i \in 1..(d + h) : rows[i] = r
      BY <1>10, <1>16
    <2>2. Snapshot[i] = [row |-> r, n |-> mem[r]]
      BY <2>1, <1>14
    <2>3. ASSUME NEW j \in 1..(d + h), j # i PROVE Snapshot[j].row # r
      BY <2>1, <2>3, <1>9, <1>14
    <2> QED
      BY <2>2, <2>3, <1>14
  <1> QED
    BY <1>14, <1>15, <1>16

(* The queue keeps its bound, takes no item from elsewhere, and ends with   *)
(* the new items when they fit.                                             *)
LEMMA EnqueueIs ==
    ASSUME NEW q \in Seq(Item), NEW items \in Seq(Item)
    PROVE  LET new == Enqueue(q, items)
           IN  /\ new \in Seq(Item) /\ Len(new) <= QueueMax
               /\ Items(new) \subseteq Items(q) \cup Items(items)
               /\ Len(items) <= QueueMax =>
                    \E k \in Nat : /\ Len(new) = k + Len(items)
                                   /\ \A i \in 1..Len(items) : new[k + i] = items[i]
  <1> DEFINE all == q \o items
             m == Len(all)
             new == Enqueue(q, items)
             cut == IF m > QueueMax THEN m - QueueMax ELSE 0
  <1>1. /\ all \in Seq(Item) /\ m = Len(q) + Len(items) /\ Len(q) \in Nat
        /\ Len(items) \in Nat
        /\ \A i \in 1..Len(q) : all[i] = q[i]
        /\ \A i \in 1..Len(items) : all[Len(q) + i] = items[i]
    OBVIOUS
  <1>2. QueueMax \in Nat \ {0}
    BY MetricsAssumption
  <1>3. /\ new \in Seq(Item) /\ Len(new) = m - cut
        /\ \A i \in 1..(m - cut) : new[i] = all[i + cut]
    <2> HIDE DEF all
    <2>1. CASE m > QueueMax
      <3>1. new = SubSeq(all, m - QueueMax + 1, m) /\ cut = m - QueueMax
        BY <2>1 DEF Enqueue, LastOf, all
      <3>2. m \in Nat
        BY <1>1
      <3> HIDE DEF new, cut
      <3> QED
        BY <1>1, <1>2, <2>1, <3>1, <3>2
    <2>2. CASE ~(m > QueueMax)
      <3>1. new = all /\ cut = 0
        BY <2>2 DEF Enqueue, LastOf, all
      <3> QED
        BY <3>1, <1>1
    <2> QED
      BY <2>1, <2>2
  <1>4. cut \in Nat /\ m - cut <= QueueMax /\ m - cut \in Nat
    BY <1>1, <1>2
  <1> HIDE DEF all, new, m, cut
  <1>5. ASSUME NEW i \in 1..m PROVE all[i] \in Items(q) \cup Items(items)
    <2>1. CASE i <= Len(q)
      BY <2>1, <1>1 DEF Items
    <2>2. CASE ~(i <= Len(q))
      <3>1. i - Len(q) \in 1..Len(items) /\ i = Len(q) + (i - Len(q))
        BY <2>2, <1>1
      <3>2. all[i] = items[i - Len(q)]
        BY <3>1, <1>1
      <3> QED
        BY <3>1, <3>2 DEF Items
    <2> QED
      BY <2>1, <2>2
  <1>6. Items(new) \subseteq Items(q) \cup Items(items)
    <2> SUFFICES ASSUME NEW i \in 1..Len(new) PROVE new[i] \in Items(q) \cup Items(items)
      BY DEF Items
    <2>1. i + cut \in 1..m /\ new[i] = all[i + cut]
      BY <1>1, <1>3, <1>4
    <2> QED
      BY <2>1, <1>5
  <1>7. ASSUME Len(items) <= QueueMax
        PROVE  \E k \in Nat : /\ Len(new) = k + Len(items)
                              /\ \A i \in 1..Len(items) : new[k + i] = items[i]
    <2> DEFINE k == Len(q) - cut
    <2>1. k \in Nat /\ Len(new) = k + Len(items)
      BY <1>1, <1>2, <1>3, <1>7 DEF cut
    <2>2. ASSUME NEW i \in 1..Len(items) PROVE new[k + i] = items[i]
      <3>1. k + i \in 1..(m - cut) /\ (k + i) + cut = Len(q) + i
        BY <1>1, <1>4, <2>1
      <3>2. new[k + i] = all[(k + i) + cut]
        BY <3>1, <1>3
      <3> QED
        BY <3>1, <3>2, <1>1
    <2> HIDE DEF k
    <2> QED
      BY <2>1, <2>2
  <1> QED
    BY <1>3, <1>4, <1>6, <1>7 DEF new

----------------------------------------------------------------------------
(* Types                                                                    *)

(* The constants are numbers, the lengths positive ones.                    *)
LEMMA Bounds ==
    /\ {HourLen, DayLen, QueueMax} \subseteq Nat \ {0}
    /\ Ups \in Nat /\ KeepHours \in Nat /\ KeepDays \in Nat /\ RingMax \in Nat
    /\ Debounce \in Nat /\ Step \in Nat /\ MaxClock \in Nat /\ MaxEvents \in Nat
    /\ MaxQueries \in Nat /\ MaxFlushes \in Nat /\ MaxFaults \in Nat
  BY MetricsAssumption

(* Counting, trimming and storing an item give totals again.                *)
LEMMA TotalsStay ==
    ASSUME NEW tot \in Totals
    PROVE  /\ \A rows : Counted(tot, rows) \in Totals
           /\ \A t : Trimmed(tot, t) \in Totals
           /\ \A s \in Item : Upsert(tot, s) \in Totals
  BY DEF Totals, Counted, Trimmed, Upsert, Item

(* A write gives totals, and ends nothing but what its flags say.           *)
LEMMA WriteTypes ==
    ASSUME TypeInv, NEW s \in Item, WriteFlush(s)
    PROVE  /\ db' \in Totals /\ sqliteOk' \in BOOLEAN /\ healthy' \in BOOLEAN
           /\ faults' \in 0..MaxFaults
  <1>1. Trimmed(Upsert(db, s), clock) \in Totals
    BY TotalsStay DEF TypeInv, TypeOK
  <1>2. db \in Totals /\ sqliteOk \in BOOLEAN /\ healthy \in BOOLEAN
        /\ faults \in 0..MaxFaults
    BY DEF TypeInv, TypeOK
  <1>3. CASE UNCHANGED store
    BY <1>2, <1>3 DEF store
  <1>4. CASE db' = Trimmed(Upsert(db, s), clock) /\ UNCHANGED <<sqliteOk, healthy, faults>>
    BY <1>1, <1>2, <1>4
  <1>5. CASE /\ faults < MaxFaults /\ faults' = faults + 1
             /\ healthy' = FALSE /\ sqliteOk' \in BOOLEAN /\ UNCHANGED db
    <2>1. faults' \in 0..MaxFaults
      BY <1>2, <1>5, Bounds
    <2> QED
      BY <1>2, <1>5, <2>1
  <1> QED
    BY <1>3, <1>4, <1>5 DEF WriteFlush

(* Every step keeps the types.                                              *)
LEMMA TypeStep == TypeInv /\ [Next]_vars => TypeInv'
  <1> SUFFICES ASSUME TypeInv, [Next]_vars PROVE TypeInv'
    OBVIOUS
  <1> USE Bounds
  <1>1. /\ mem \in Totals /\ db \in Totals /\ truth \in Totals
        /\ ring \in Seq(0..MaxClock) /\ queue \in Seq(Item)
        /\ worker \in [Worker -> WorkerState] /\ clock \in 0..MaxClock
    BY DEF TypeInv, TypeOK
  <1>2. Rest \in LoopState /\ Idle \in WorkerState /\ <<>> \in Seq(Item) /\ Len(<<>>) = 0
    BY DEF Rest, Idle, LoopState, WorkerState, Up
  <1>3. CASE NextHour
    <2>1. clock' \in 0..MaxClock
      BY <1>1, <1>3, NextIsLater DEF NextHour, At, BucketLen
    <2> QED
      BY <1>3, <2>1 DEF NextHour, TypeInv, TypeOK, store, counters
  <1>4. ASSUME NEW u \in Up \ {0}, IncrStamp(u) PROVE TypeInv'
    <2>1. clock' \in 0..MaxClock
      BY <1>1, <1>4 DEF IncrStamp, ReadClock
    <2>2. loop' \in LoopState
      BY <1>4, <2>1 DEF IncrStamp, LoopState
    <2> QED
      BY <1>4, <2>1, <2>2 DEF IncrStamp, TypeInv, TypeOK, LoopState, store, counters
  <1>5. CASE IncrApply
    <2>1. mem' \in Totals /\ truth' \in Totals
      BY <1>1, <1>5, TotalsStay DEF IncrApply
    <2>2. ring' \in Seq(0..MaxClock) /\ Len(ring') <= RingMax
      <3> DEFINE next == Append(ring, loop.now)
      <3>1. next \in Seq(0..MaxClock) /\ Len(next) = Len(ring) + 1 /\ next # <<>>
        BY <1>1 DEF TypeInv, LoopState
      <3>2. Tail(next) \in Seq(0..MaxClock) /\ Len(Tail(next)) = Len(ring)
        BY <3>1, Lists, <1>1
      <3>3. ring' = IF Len(next) > RingMax THEN Tail(next) ELSE next
        BY <1>5 DEF IncrApply
      <3> HIDE DEF next
      <3>4. Len(ring) <= RingMax /\ Len(ring) \in Nat
        BY <1>1 DEF TypeInv, TypeOK
      <3>5. CASE Len(next) > RingMax
        BY <3>2, <3>3, <3>4, <3>5
      <3>6. CASE ~(Len(next) > RingMax)
        <4>1. ring' = next
          BY <3>3, <3>6
        <4>2. Len(next) \in Nat
          BY <3>1, <3>4
        <4> QED
          BY <3>1, <3>6, <4>1, <4>2
      <3> QED
        BY <3>5, <3>6
    <2> QED
      BY <1>2, <1>5, <2>1, <2>2 DEF IncrApply, TypeInv, TypeOK, Rest, store, counters
  <1>6. ASSUME NEW hourly \in BOOLEAN, IncrSync(hourly) PROVE TypeInv'
    <2>1. mem' \in Totals /\ truth' \in Totals
      BY <1>1, <1>6, TotalsStay DEF IncrSync
    <2> QED
      BY <1>6, <2>1 DEF IncrSync, TypeInv, TypeOK, store, counters
  <1>7. CASE TimerFires
    <2>1. clock' \in 0..MaxClock
      BY <1>1, <1>7 DEF TimerFires, FlushStamp, ReadClock
    <2>2. loop' \in LoopState
      <3>1. \/ loop' = loop
            \/ loop' = [at |-> "flush", now |-> clock', up |-> 0, by |-> "timer"]
        BY <1>7 DEF TimerFires, FlushStamp
      <3>2. 0 \in Up
        BY DEF Up
      <3>3. \A t \in 0..MaxClock :
               [at |-> "flush", now |-> t, up |-> 0, by |-> "timer"] \in LoopState
        BY <3>2 DEF LoopState
      <3>4. loop \in LoopState
        BY DEF TypeInv
      <3> QED
        BY <2>1, <3>1, <3>3, <3>4, ZenonT(30)
    <2> QED
      BY <1>7, <2>1, <2>2, SMTT(30)
      DEF TimerFires, FlushStamp, SubmitDrain, TypeInv, TypeOK, store, counters
  <1>8. CASE FlushApply
    <2>1. Snapshot \in Seq(Item)
      BY <1>1, SnapshotIs
    <2>2. queue' \in Seq(Item) /\ Len(queue') <= QueueMax
      BY <1>1, <1>8, <2>1, EnqueueIs DEF FlushApply
    <2>3. mem' \in Totals
      BY <1>1, <1>8, TotalsStay DEF FlushApply
    <2>4. quiet' \in BOOLEAN
      BY <1>8 DEF FlushApply
    <2> QED
      BY <1>2, <1>8, <2>2, <2>3, <2>4
      DEF FlushApply, SubmitDrain, TypeInv, TypeOK, LoopState, Rest, store, counters
  <1>9. CASE TimerSleeps
    BY <1>9 DEF TimerSleeps, TypeInv, TypeOK, store, counters
  <1>10. CASE Close
    <2>1. clock' \in 0..MaxClock
      BY <1>1, <1>10 DEF Close, FlushStamp, ReadClock
    <2>2. loop' \in LoopState
      <3>1. \/ loop' = loop
            \/ loop' = [at |-> "flush", now |-> clock', up |-> 0, by |-> "close"]
        BY <1>10 DEF Close, FlushStamp
      <3>2. 0 \in Up
        BY DEF Up
      <3>3. \A t \in 0..MaxClock :
               [at |-> "flush", now |-> t, up |-> 0, by |-> "close"] \in LoopState
        BY <3>2 DEF LoopState
      <3>4. loop \in LoopState
        BY DEF TypeInv
      <3> QED
        BY <2>1, <3>1, <3>3, <3>4, ZenonT(30)
    <2> QED
      BY <1>10, <2>1, <2>2, SMTT(30)
      DEF Close, FlushStamp, SubmitDrain, TypeInv, TypeOK, store, counters
  <1>11. CASE Disconnect
    BY <1>11 DEF Disconnect, TypeInv, TypeOK, store, counters
  <1>12. CASE DrainWrite
    <2>1. /\ Head(queue) \in Item /\ Tail(queue) \in Seq(Item)
          /\ Len(Tail(queue)) <= QueueMax
      BY <1>1, <1>12, Lists DEF DrainWrite, TypeInv, TypeOK
    <2>2. WriteFlush(Head(queue)) /\ queue' = Tail(queue)
      BY <1>12 DEF DrainWrite
    <2>3. /\ db' \in Totals /\ sqliteOk' \in BOOLEAN /\ healthy' \in BOOLEAN
          /\ faults' \in 0..MaxFaults
      BY <2>1, <2>2, WriteTypes
    <2> QED
      BY <1>12, <2>1, <2>2, <2>3 DEF DrainWrite, TypeInv, TypeOK, counters
  <1>13. CASE DrainEnd
    BY <1>13 DEF DrainEnd, TypeInv, TypeOK, store, counters
  <1>14. ASSUME NEW w \in Worker, QueryBegin(w) PROVE TypeInv'
    <2>1. worker' \in [Worker -> WorkerState]
      BY <1>1, <1>14 DEF QueryBegin, Go, WorkerState
    <2> QED
      BY <1>14, <2>1 DEF QueryBegin, Unchanged4Query, TypeInv, TypeOK, WorkerState, store
  <1>15. ASSUME NEW w \in Worker, FlushSyncSkip(w) PROVE TypeInv'
    BY <1>15 DEF FlushSyncSkip, Go, Unchanged4Query, TypeInv, TypeOK, WorkerState, store
  <1>16. ASSUME NEW w \in Worker, FlushSyncStamp(w) PROVE TypeInv'
    <2>1. clock' \in 0..MaxClock
      BY <1>1, <1>16, SMTT(30) DEF FlushSyncStamp, ReadClock
    <2>2. worker' \in [Worker -> WorkerState]
      BY <1>1, <1>16, <2>1 DEF FlushSyncStamp, WorkerState
    <2> QED
      BY <1>16, <2>1, <2>2
      DEF FlushSyncStamp, Unchanged4Query, TypeInv, TypeOK, WorkerState, store
  <1>17. ASSUME NEW w \in Worker, FlushSyncSnapshot(w) PROVE TypeInv'
    <2>1. Snapshot \in Seq(Item)
      BY <1>1, SnapshotIs
    <2>2. mem' \in Totals
      BY <1>1, <1>17, TotalsStay DEF FlushSyncSnapshot
    <2>3. worker' \in [Worker -> WorkerState]
      BY <1>1, <1>17, <2>1 DEF FlushSyncSnapshot, WorkerState
    <2>4. lastFlush' \in 0..MaxClock /\ lastDebounce' \in -Debounce..MaxClock
      <3>1. worker[w].now \in 0..MaxClock
        BY <1>1 DEF WorkerState
      <3>2. lastFlush' = worker[w].now /\ lastDebounce' = worker[w].now
        BY <1>17 DEF FlushSyncSnapshot
      <3> QED
        BY <1>1, <3>1, <3>2, SMTT(30)
    <2> QED
      BY <1>17, <2>2, <2>3, <2>4
      DEF FlushSyncSnapshot, Unchanged4Query, TypeInv, TypeOK, WorkerState, store
  <1>18. ASSUME NEW w \in Worker, FlushSyncWrite(w) PROVE TypeInv'
    <2> DEFINE rows == worker[w].rows
    <2>1. rows \in Seq(Item) /\ rows # <<>> /\ WriteFlush(Head(rows))
      BY <1>1, <1>18 DEF FlushSyncWrite, WorkerState
    <2>2. Head(rows) \in Item /\ Tail(rows) \in Seq(Item)
      BY <2>1, Lists
    <2>3. /\ db' \in Totals /\ sqliteOk' \in BOOLEAN /\ healthy' \in BOOLEAN
          /\ faults' \in 0..MaxFaults
      BY <2>1, <2>2, WriteTypes
    <2>4. worker' \in [Worker -> WorkerState]
      BY <1>1, <1>18, <2>2 DEF FlushSyncWrite, WorkerState
    <2> HIDE DEF rows
    <2> QED
      BY <1>18, <2>3, <2>4
      DEF FlushSyncWrite, Unchanged4Query, TypeInv, TypeOK, WorkerState
  <1>19. ASSUME NEW w \in Worker, QueryEnd(w) PROVE TypeInv'
    <2>1. worker' \in [Worker -> WorkerState]
      BY <1>1, <1>2, <1>19 DEF QueryEnd
    <2> QED
      BY <1>19, <2>1 DEF QueryEnd, Unchanged4Query, TypeInv, TypeOK, WorkerState, store
  <1>20. CASE Restart
    <2>1. mem' \in Totals /\ healthy' \in BOOLEAN
      BY <1>1, <1>20 DEF Restart, Totals
    <2>2. worker' \in [Worker -> WorkerState]
      BY <1>2, <1>20 DEF Restart
    <2>3. <<>> \in Seq(0..MaxClock)
      OBVIOUS
    <2> QED
      BY <1>2, <1>20, <2>1, <2>2, <2>3 DEF Restart, TypeInv, TypeOK, Rest, WorkerState
  <1>21. CASE UNCHANGED vars
    BY <1>21 DEF vars, TypeInv, TypeOK, store, counters
  <1> QED
    BY <1>3, <1>4, <1>5, <1>6, <1>7, <1>8, <1>9, <1>10, <1>11, <1>12, <1>13, <1>14, <1>15,
       <1>16, <1>17, <1>18, <1>19, <1>20, <1>21
    DEF Next, EventLoop, WriterThread, QueryThread, FlushSync

----------------------------------------------------------------------------
(* What a step does to the totals: nothing, or it counts an event, takes a  *)
(* snapshot and trims, or stores an item; else it is a restart.             *)

Runs ==
    /\ clock <= clock' /\ boot' = boot
    /\ healthy' => healthy

Leaves == UNCHANGED <<mem, db, truth>> /\ Pending' \subseteq Pending

Counts(rows) ==
    /\ \A r \in rows : r.at <= At(r.by, clock)
    /\ mem' = Counted(mem, rows) /\ truth' = Counted(truth, rows)
    /\ UNCHANGED db /\ Pending' \subseteq Pending

Snaps(t) ==
    /\ t <= clock
    /\ mem' = Trimmed(mem, t)
    /\ UNCHANGED <<db, truth>> /\ Pending' \subseteq Pending \cup Copies

Stores(s) ==
    /\ db' = Trimmed(Upsert(db, s), clock)
    /\ UNCHANGED <<mem, truth>> /\ Pending' \subseteq Pending

(* Every step is a restart, or leaves the counts, counts an event, takes a  *)
(* snapshot or stores one.                                                  *)
LEMMA StepKinds ==
    ASSUME TypeInv, TimeInv, [Next]_vars
    PROVE  \/ Restart
           \/ Runs /\ ( \/ Leaves
                        \/ \E rows : Counts(rows)
                        \/ \E t \in Nat : Snaps(t)
                        \/ \E s \in Pending : Stores(s) )
  <1> USE Bounds
  <1>1. /\ mem \in Totals /\ queue \in Seq(Item) /\ clock \in 0..MaxClock
        /\ worker \in [Worker -> WorkerState] /\ loop \in LoopState
    BY DEF TypeInv, TypeOK
  <1>2. ASSUME UNCHANGED <<queue, worker>> PROVE Pending' = Pending
    BY <1>2 DEF Pending
  <1>4. CASE NextHour
    <2>1. clock <= clock'
      <3>1. clock \in Nat /\ HourLen \in Nat \ {0}
        BY <1>1
      <3>2. clock <= (clock \div HourLen + 1) * HourLen
        BY <3>1, NextIsLater
      <3> QED
        BY <1>4, <3>2 DEF NextHour, At, BucketLen
    <2> QED
      BY <1>2, <1>4, <2>1 DEF NextHour, Runs, Leaves, store
  <1>5. ASSUME NEW u \in Up \ {0}, IncrStamp(u) PROVE Runs /\ Leaves
    BY <1>1, <1>2, <1>5 DEF IncrStamp, ReadClock, Runs, Leaves, store
  <1>6. CASE IncrApply
    <2> DEFINE rows == RowsOf(loop.up, loop.now)
    <2>1. \A r \in rows : r.at <= At(r.by, clock)
      <3> SUFFICES ASSUME NEW b \in {"day", "hour"} PROVE At(b, loop.now) <= At(b, clock)
        BY DEF RowsOf
      <3> QED
        BY <1>1, BucketGrows DEF TimeInv, LoopState
    <2>2. Counts(rows)
      <3> HIDE DEF rows
      <3>1. mem' = Counted(mem, rows) /\ truth' = Counted(truth, rows)
        BY <1>6 DEF IncrApply, rows
      <3> QED
        BY <1>2, <1>6, <2>1, <3>1 DEF IncrApply, Counts, store
    <2>3. Runs
      BY <1>1, <1>6 DEF IncrApply, Runs, store
    <2> QED
      BY <2>2, <2>3
  <1>7. ASSUME NEW hourly \in BOOLEAN, IncrSync(hourly) PROVE Runs /\ \E rows : Counts(rows)
    <2> DEFINE rows == HookRows(hourly)
    <2>1. \A r \in rows : r.at <= At(r.by, clock)
      <3> SUFFICES ASSUME NEW b \in {"day", "hour"} PROVE At(b, clock) <= At(b, clock)
        BY DEF RowsOf, HookRows
      <3> QED
        BY <1>1, BucketGrows
    <2>2. Counts(rows)
      <3> HIDE DEF rows
      <3>1. mem' = Counted(mem, rows) /\ truth' = Counted(truth, rows)
        BY <1>7 DEF IncrSync, rows
      <3> QED
        BY <1>2, <1>7, <2>1, <3>1 DEF IncrSync, Counts, store
    <2>3. Runs
      BY <1>1, <1>7 DEF IncrSync, Runs, store
    <2> QED
      BY <2>2, <2>3
  <1>8. CASE TimerFires
    BY <1>1, <1>2, <1>8 DEF TimerFires, FlushStamp, ReadClock, Runs, Leaves, store
  <1>9. CASE FlushApply
    <2>1. Items(queue') \subseteq Items(queue) \cup Items(Snapshot)
      BY <1>1, <1>9, SnapshotIs, EnqueueIs DEF FlushApply
    <2>2. Items(Snapshot) \subseteq Copies
      BY <1>1, SnapshotIs
    <2>3. Pending' \subseteq Pending \cup Copies
      BY <1>9, <2>1, <2>2 DEF FlushApply, Pending
    <2>4. loop.now \in Nat /\ Snaps(loop.now)
      BY <1>1, <1>9, <2>3 DEF FlushApply, Snaps, TimeInv, LoopState, store
    <2>5. Runs
      BY <1>1, <1>9 DEF FlushApply, Runs, store
    <2> QED
      BY <2>4, <2>5
  <1>10. CASE TimerSleeps
    BY <1>1, <1>2, <1>10 DEF TimerSleeps, Runs, Leaves, store
  <1>11. CASE Close
    BY <1>1, <1>2, <1>11 DEF Close, FlushStamp, ReadClock, Runs, Leaves, store
  <1>12. CASE Disconnect
    BY <1>1, <1>2, <1>12 DEF Disconnect, Runs, Leaves, store
  <1>13. CASE DrainWrite
    <2> DEFINE s == Head(queue)
    <2>1. s \in Items(queue) /\ Items(Tail(queue)) \subseteq Items(queue)
      BY <1>1, <1>13, ItemsOfTail DEF DrainWrite
    <2>2. s \in Pending /\ Pending' \subseteq Pending
      BY <1>13, <2>1 DEF DrainWrite, Pending
    <2>3. WriteFlush(s) /\ UNCHANGED <<mem, truth, clock, boot>>
      BY <1>13 DEF DrainWrite
    <2> HIDE DEF s
    <2>4. Runs /\ (Leaves \/ Stores(s))
      BY <1>1, <2>2, <2>3 DEF WriteFlush, Runs, Leaves, Stores, store
    <2> QED
      BY <2>2, <2>4
  <1>14. CASE DrainEnd
    BY <1>1, <1>2, <1>14 DEF DrainEnd, Runs, Leaves, store
  <1>15. ASSUME NEW w \in Worker, QueryBegin(w) PROVE Runs /\ Leaves
    <2>1. \A v \in Worker : worker'[v].rows = worker[v].rows
      BY <1>1, <1>15 DEF QueryBegin, Go, WorkerState
    <2>2. UNCHANGED queue
      BY <1>15 DEF QueryBegin, Unchanged4Query
    <2>3. Pending' \subseteq Pending
      BY <2>1, <2>2 DEF Pending
    <2> QED
      BY <1>1, <1>15, <2>3, SMTT(30)
      DEF QueryBegin, Unchanged4Query, Runs, Leaves, store
  <1>16. ASSUME NEW w \in Worker, FlushSyncSkip(w) PROVE Runs /\ Leaves
    <2>1. \A v \in Worker : worker'[v].rows = worker[v].rows
      BY <1>1, <1>16 DEF FlushSyncSkip, Go, WorkerState
    <2>2. UNCHANGED queue
      BY <1>16 DEF FlushSyncSkip, Unchanged4Query
    <2>3. Pending' \subseteq Pending
      BY <2>1, <2>2 DEF Pending
    <2> QED
      BY <1>1, <1>16, <2>3, SMTT(30)
      DEF FlushSyncSkip, Unchanged4Query, Runs, Leaves, store
  <1>17. ASSUME NEW w \in Worker, FlushSyncStamp(w) PROVE Runs /\ Leaves
    <2>1. \A v \in Worker : worker'[v].rows = worker[v].rows
      BY <1>1, <1>17 DEF FlushSyncStamp, WorkerState
    <2>2. UNCHANGED queue
      BY <1>17 DEF FlushSyncStamp, Unchanged4Query
    <2>3. Pending' \subseteq Pending
      BY <2>1, <2>2 DEF Pending
    <2> QED
      BY <1>1, <1>17, <2>3, SMTT(30)
      DEF FlushSyncStamp, ReadClock, Unchanged4Query, Runs, Leaves, store
  <1>18. ASSUME NEW w \in Worker, FlushSyncSnapshot(w)
         PROVE  Runs /\ \E t \in Nat : Snaps(t)
    <2>1. Items(Snapshot) \subseteq Copies
      BY <1>1, SnapshotIs
    <2>2. \A v \in Worker : worker'[v].rows = IF v = w THEN Snapshot ELSE worker[v].rows
      BY <1>1, <1>18 DEF FlushSyncSnapshot, WorkerState
    <2>3. Pending' \subseteq Pending \cup Copies
      <3>1. UNCHANGED queue
        BY <1>18 DEF FlushSyncSnapshot, Unchanged4Query
      <3> QED
        BY <2>1, <2>2, <3>1, SMTT(30) DEF Pending
    <2>4. worker[w].now \in Nat /\ worker[w].now <= clock
      BY <1>1 DEF TimeInv, WorkerState
    <2>5. Snaps(worker[w].now)
      BY <1>18, <2>3, <2>4 DEF FlushSyncSnapshot, Unchanged4Query, Snaps, store
    <2>6. Runs
      BY <1>1, <1>18 DEF FlushSyncSnapshot, Unchanged4Query, Runs, store
    <2> QED
      BY <2>4, <2>5, <2>6
  <1>19. ASSUME NEW w \in Worker, FlushSyncWrite(w)
         PROVE  Runs /\ (Leaves \/ \E s \in Pending : Stores(s))
    <2> DEFINE rows == worker[w].rows
               s == Head(rows)
    <2>1. rows \in Seq(Item) /\ rows # <<>>
      BY <1>1, <1>19 DEF FlushSyncWrite, WorkerState
    <2>2. s \in Items(rows) /\ Items(Tail(rows)) \subseteq Items(rows)
      BY <2>1, ItemsOfTail
    <2>3. \A v \in Worker : worker'[v].rows = IF v = w THEN Tail(rows) ELSE worker[v].rows
      BY <1>1, <1>19 DEF FlushSyncWrite, WorkerState
    <2>4. s \in Pending /\ Pending' \subseteq Pending
      <3> HIDE DEF s
      <3> QED
        BY <1>19, <2>2, <2>3 DEF FlushSyncWrite, Unchanged4Query, Pending
    <2>5. WriteFlush(s) /\ UNCHANGED <<mem, truth, clock, boot>>
      BY <1>19 DEF FlushSyncWrite, Unchanged4Query
    <2> HIDE DEF s
    <2>6. Runs /\ (Leaves \/ Stores(s))
      BY <1>1, <2>4, <2>5 DEF WriteFlush, Runs, Leaves, Stores, store
    <2> QED
      BY <2>4, <2>6
  <1>20. ASSUME NEW w \in Worker, QueryEnd(w) PROVE Runs /\ Leaves
    <2>1. \A v \in Worker : worker'[v].rows = worker[v].rows \/ worker'[v].rows = <<>>
      BY <1>1, <1>20 DEF QueryEnd, Idle, WorkerState
    <2>2. Items(<<>>) = {}
      BY DEF Items
    <2>3. UNCHANGED queue
      BY <1>20 DEF QueryEnd, Unchanged4Query
    <2>4. Pending' \subseteq Pending
      BY <2>1, <2>2, <2>3 DEF Pending
    <2> QED
      BY <1>1, <1>20, <2>4, SMTT(30) DEF QueryEnd, Unchanged4Query, Runs, Leaves, store
  <1>21. CASE UNCHANGED vars
    BY <1>1, <1>2, <1>21 DEF vars, Runs, Leaves, store
  <1> QED
    BY <1>4, <1>5, <1>6, <1>7, <1>8, <1>9, <1>10, <1>11, <1>12, <1>13, <1>14, <1>15, <1>16,
       <1>17, <1>18, <1>19, <1>20, <1>21
    DEF Next, EventLoop, WriterThread, QueryThread, FlushSync

----------------------------------------------------------------------------
(* Time, and what was counted                                               *)

(* No step makes a reading or an event that is ahead of the clock.          *)
LEMMA TimeStep == TypeInv /\ TimeInv /\ TypeInv' /\ [Next]_vars => TimeInv'
  <1> SUFFICES ASSUME TypeInv, TimeInv, TypeInv', [Next]_vars PROVE TimeInv'
    OBVIOUS
  <1> USE Bounds
  <1>1. /\ clock \in Nat /\ clock' \in Nat /\ truth \in [Row -> Nat] /\ loop.now \in Nat
        /\ worker \in [Worker -> WorkerState] /\ \A w \in Worker : worker[w].now \in Nat
    <2>1. /\ clock \in 0..MaxClock /\ clock' \in 0..MaxClock /\ truth \in Totals
          /\ loop \in LoopState /\ worker \in [Worker -> WorkerState]
      BY DEF TypeInv, TypeOK
    <2>2. loop.now \in 0..MaxClock /\ \A w \in Worker : worker[w].now \in 0..MaxClock
      BY <2>1 DEF LoopState, WorkerState
    <2> QED
      BY <2>1, <2>2 DEF Totals
  <1>2. clock <= clock'
    <2>1. Restart \/ Runs
      BY StepKinds
    <2>2. Restart => clock' = clock
      BY DEF Restart
    <2> QED
      BY <1>1, <2>1, <2>2 DEF Runs
  <1>3. ASSUME NEW r \in Row, truth'[r] > 0 PROVE r.at <= At(r.by, clock')
    <2>1. At(r.by, clock) \in Nat /\ At(r.by, clock') \in Nat
          /\ At(r.by, clock) <= At(r.by, clock') /\ r.at \in Nat
      BY <1>1, <1>2, BucketGrows, RowParts
    <2>2. CASE truth[r] > 0
      BY <2>1, <2>2 DEF TimeInv
    <2>3. CASE \E rows : Counts(rows)
      BY <1>1, <1>3, <2>1, <2>3 DEF Counts, Counted, TimeInv
    <2>4. CASE UNCHANGED truth
      BY <1>3, <2>2, <2>4
    <2> QED
      BY <2>3, <2>4, StepKinds DEF Restart, Leaves, Snaps, Stores
  <1>4. loop'.now <= clock'
    <2>1. CASE UNCHANGED loop
      BY <1>1, <1>2, <2>1 DEF TimeInv
    <2>2. CASE loop' = Rest
      BY <1>1, <2>2 DEF Rest
    <2>3. CASE loop'.now = clock'
      BY <1>1, <2>3
    <2>4. ASSUME NEW u \in Up \ {0}, IncrStamp(u) PROVE loop'.now = clock'
      BY <2>4 DEF IncrStamp
    <2>5. ASSUME NEW by, FlushStamp(by) PROVE loop'.now = clock' \/ UNCHANGED loop
      BY <2>5 DEF FlushStamp
    <2>6. ASSUME NEW w \in Worker, QueryThread(w) PROVE UNCHANGED loop
      BY <2>6 DEF QueryThread, FlushSync, QueryBegin, FlushSyncSkip, FlushSyncStamp,
                  FlushSyncSnapshot, FlushSyncWrite, QueryEnd, Unchanged4Query
    <2> QED
      BY <2>1, <2>2, <2>3, <2>4, <2>5, <2>6
      DEF Next, EventLoop, WriterThread, NextHour, IncrApply, IncrSync, TimerFires,
          FlushApply, TimerSleeps, Close, Disconnect, DrainWrite, DrainEnd, Restart, vars
  <1>5. ASSUME NEW v \in Worker PROVE worker'[v].now <= clock'
    <2>1. CASE UNCHANGED worker \/ worker'[v].now = worker[v].now
      BY <1>1, <1>2, <2>1 DEF TimeInv
    <2>2. CASE worker'[v] = Idle
      BY <1>1, <2>2 DEF Idle
    <2>3. CASE worker'[v].now = clock'
      BY <1>1, <2>3
    <2>4. ASSUME NEW w \in Worker, QueryThread(w)
          PROVE  worker'[v].now = worker[v].now \/ worker'[v] = Idle
                 \/ worker'[v].now = clock'
      <3>1. ASSUME NEW at, Go(w, at) PROVE worker'[v].now = worker[v].now
        BY <1>1, <3>1 DEF Go, WorkerState
      <3>2. CASE FlushSyncStamp(w)
        BY <1>1, <3>2 DEF FlushSyncStamp, WorkerState
      <3>3. CASE FlushSyncSnapshot(w)
        BY <1>1, <3>3 DEF FlushSyncSnapshot, WorkerState
      <3>4. CASE FlushSyncWrite(w)
        BY <1>1, <3>4 DEF FlushSyncWrite, WorkerState
      <3>5. CASE QueryEnd(w)
        BY <1>1, <3>5 DEF QueryEnd
      <3> QED
        BY <2>4, <3>1, <3>2, <3>3, <3>4, <3>5
        DEF QueryThread, FlushSync, QueryBegin, FlushSyncSkip
    <2> QED
      BY <2>1, <2>2, <2>3, <2>4
      DEF Next, EventLoop, WriterThread, NextHour, IncrStamp, IncrApply, IncrSync,
          TimerFires, FlushStamp, FlushApply, TimerSleeps, Close, Disconnect, DrainWrite,
          DrainEnd, Restart, vars
  <1> QED
    BY <1>3, <1>4, <1>5 DEF TimeInv

(* The items to be written are items.                                       *)
LEMMA PendingType ==
    ASSUME TypeInv
    PROVE  Pending \subseteq Item
  <1>1. ASSUME NEW q \in Seq(Item) PROVE Items(q) \subseteq Item
    BY DEF Items
  <1> QED
    BY <1>1 DEF TypeInv, TypeOK, WorkerState, Pending

(* No step counts an event twice.                                           *)
LEMMA CountStep ==
    TypeInv /\ TimeInv /\ CountInv /\ TypeInv' /\ [Next]_vars => CountInv'
  <1> SUFFICES ASSUME TypeInv, TimeInv, CountInv, TypeInv', [Next]_vars PROVE CountInv'
    OBVIOUS
  <1>1. /\ mem \in [Row -> Nat] /\ db \in [Row -> Nat] /\ truth \in [Row -> Nat]
        /\ mem' \in [Row -> Nat] /\ db' \in [Row -> Nat] /\ truth' \in [Row -> Nat]
    BY DEF TypeInv, TypeOK, Totals
  <1>2. /\ \A s \in Pending : s.row \in Row /\ s.n \in Nat /\ s.n <= truth[s.row]
        /\ \A r \in Row : mem[r] <= truth[r] /\ db[r] <= truth[r]
    BY PendingType DEF Item, CountInv, NeverCountedTwice
  <1>3. ASSUME \A r \in Row : mem'[r] <= truth'[r] /\ db'[r] <= truth'[r],
               \A r \in Row : truth[r] <= truth'[r],
               Pending' \subseteq Pending \cup Copies
        PROVE  CountInv'
    <2>1. ASSUME NEW s \in Pending' PROVE s.n <= truth'[s.row]
      <3>1. CASE s \in Pending
        BY <1>1, <1>2, <1>3, <3>1
      <3>2. CASE s \in Copies
        <4>1. PICK r \in Row : s = [row |-> r, n |-> mem[r]]
          BY <3>2 DEF Copies
        <4> QED
          BY <1>1, <1>2, <1>3, <4>1
      <3> QED
        BY <1>3, <3>1, <3>2
    <2> QED
      BY <1>3, <2>1 DEF CountInv, NeverCountedTwice
  <1>4. CASE Restart
    <2>1. Pending' = {}
      <3>1. queue' = <<>> /\ \A w \in Worker : worker'[w].rows = <<>>
        BY <1>4 DEF Restart, Idle
      <3> QED
        BY <3>1 DEF Pending, Items
    <2>2. UNCHANGED <<db, truth>> /\ \A r \in Row : mem'[r] = db[r] \/ mem'[r] = 0
      BY <1>4 DEF Restart
    <2> QED
      BY <1>1, <1>2, <1>3, <2>1, <2>2
  <1>5. CASE Leaves
    BY <1>1, <1>2, <1>3, <1>5 DEF Leaves
  <1>6. ASSUME NEW rows, Counts(rows) PROVE CountInv'
    BY <1>1, <1>2, <1>3, <1>6 DEF Counts, Counted
  <1>7. ASSUME NEW t \in Nat, Snaps(t) PROVE CountInv'
    BY <1>1, <1>2, <1>3, <1>7 DEF Snaps, Trimmed
  <1>8. ASSUME NEW s \in Pending, Stores(s) PROVE CountInv'
    <2>1. \A r \in Row : db'[r] \in {0, db[r]} \/ (r = s.row /\ db'[r] = s.n)
      BY <1>1, <1>2, <1>8 DEF Stores, Trimmed, Upsert
    <2> QED
      BY <1>1, <1>2, <1>3, <1>8, <2>1 DEF Stores
  <1> QED
    BY <1>4, <1>5, <1>6, <1>7, <1>8, StepKinds

----------------------------------------------------------------------------
(* What a restart keeps                                                     *)

(* No step loses a total that a start has loaded.                           *)
LEMMA KeepStep ==
    TypeInv /\ TimeInv /\ CountInv /\ KeepInv /\ TypeInv' /\ [Next]_vars => KeepInv'
  <1> SUFFICES ASSUME TypeInv, TimeInv, CountInv, KeepInv, TypeInv', [Next]_vars, healthy',
                      NEW r \in Row, Since(r)'
               PROVE  \/ Expired(r, clock')
                      \/ /\ db'[r] <= mem'[r]
                         /\ \A s \in Pending' : s.row = r => s.n <= mem'[r]
    BY DEF KeepInv
  <1>1. /\ mem \in [Row -> Nat] /\ db \in [Row -> Nat] /\ truth \in [Row -> Nat]
        /\ mem' \in [Row -> Nat] /\ db' \in [Row -> Nat] /\ truth' \in [Row -> Nat]
        /\ clock \in Nat /\ clock' \in Nat
    <2>1. clock \in 0..MaxClock /\ clock' \in 0..MaxClock
      BY DEF TypeInv, TypeOK
    <2>2. clock \in Nat /\ clock' \in Nat
      BY <2>1, Bounds
    <2> QED
      BY <2>2 DEF TypeInv, TypeOK, Totals
  <1>2. CASE Restart
    <2>1. Pending' = {}
      <3>1. queue' = <<>> /\ \A w \in Worker : worker'[w].rows = <<>>
        BY <1>2 DEF Restart, Idle
      <3> QED
        BY <3>1 DEF Pending, Items
    <2>2. /\ UNCHANGED <<db, truth, clock>> /\ boot' = clock
          /\ \A q \in Today(clock) : db[q] > 0 => mem'[q] = db[q]
      BY <1>2 DEF Restart, Today
    <2>3. CASE db[r] = 0
      BY <1>1, <2>1, <2>2, <2>3
    <2>4. CASE db[r] > 0
      <3>1. r.at <= At(r.by, clock) /\ r.at \in Nat /\ r.by \in {"day", "hour"}
        BY <1>1, <2>4, RowParts DEF TimeInv, CountInv, NeverCountedTwice
      <3>2. r.at * BucketLen(r.by) >= At("day", clock) * DayLen
        BY <2>2 DEF Since
      <3>3. CASE r.by = "hour"
        BY <1>1, <2>1, <2>2, <2>4, <3>2, <3>3 DEF Today, BucketLen
      <3>4. CASE r.by = "day"
        <4>1. At("day", clock) \in Nat
          BY <1>1, BucketGrows
        <4>2. r.at >= At("day", clock)
          BY <3>1, <3>2, <3>4, <4>1, TimesGrows, Bounds DEF BucketLen
        <4>3. r.at = At("day", clock)
          BY <3>1, <3>4, <4>1, <4>2
        <4> QED
          BY <1>1, <2>1, <2>2, <2>4, <3>4, <4>3 DEF Today
      <3> QED
        BY <3>1, <3>3, <3>4
    <2> QED
      BY <1>1, <2>3, <2>4
  <1>3. CASE Runs /\ Expired(r, clock)
    BY <1>1, <1>3, ExpiredStays DEF Runs
  <1>4. CASE Runs /\ ~Expired(r, clock)
    <2>1. db[r] <= mem[r] /\ \A s \in Pending : s.row = r => s.n <= mem[r]
      BY <1>4 DEF Runs, KeepInv, Since
    <2>2. \A s \in Pending : s.row \in Row /\ s.n \in Nat
      BY PendingType DEF Item
    <2>3. CASE Leaves
      BY <2>1, <2>3 DEF Leaves
    <2>4. ASSUME NEW rows, Counts(rows)
          PROVE  db'[r] <= mem'[r] /\ \A s \in Pending' : s.row = r => s.n <= mem'[r]
      <3>1. mem[r] <= mem'[r] /\ db'[r] = db[r] /\ Pending' \subseteq Pending
        BY <1>1, <2>4 DEF Counts, Counted
      <3> QED
        BY <1>1, <2>1, <2>2, <3>1
    <2>5. ASSUME NEW t \in Nat, Snaps(t)
          PROVE  db'[r] <= mem'[r] /\ \A s \in Pending' : s.row = r => s.n <= mem'[r]
      <3>1. ~Expired(r, t)
        BY <1>1, <1>4, <2>5, ExpiredStays DEF Snaps
      <3>2. mem'[r] = mem[r] /\ db'[r] = db[r] /\ Pending' \subseteq Pending \cup Copies
        BY <1>1, <2>5, <3>1 DEF Snaps, Trimmed
      <3>3. \A s \in Copies : s.row = r => s.n <= mem[r]
        BY <1>1 DEF Copies
      <3> QED
        BY <2>1, <3>2, <3>3
    <2>6. ASSUME NEW s \in Pending, Stores(s)
          PROVE  db'[r] <= mem'[r] /\ \A q \in Pending' : q.row = r => q.n <= mem'[r]
      <3>1. db'[r] = db[r] \/ (s.row = r /\ db'[r] = s.n)
        BY <1>1, <1>4, <2>2, <2>6 DEF Stores, Trimmed, Upsert
      <3> QED
        BY <2>1, <2>6, <3>1 DEF Stores
    <2> QED
      BY <1>4, <2>3, <2>4, <2>5, <2>6, StepKinds, <1>2
  <1> QED
    BY <1>2, <1>3, <1>4, StepKinds

----------------------------------------------------------------------------
(* What closing keeps                                                       *)

(* A write that left the collector healthy left the database usable.        *)
LEMMA WriteControl ==
    ASSUME NEW s, WriteFlush(s), healthy => sqliteOk
    PROVE  healthy' => healthy /\ sqliteOk'
  BY DEF WriteFlush, store

(* Every step keeps the control of worker, flusher and closer.              *)
LEMMA ControlStep == TypeInv /\ ControlInv /\ [Next]_vars => ControlInv'
  <1> SUFFICES ASSUME TypeInv, ControlInv, [Next]_vars PROVE ControlInv'
    OBVIOUS
  <1> USE DEF ControlInv
  <1>1. /\ jobs \in Nat /\ loop \in LoopState
        /\ closer \in {"open", "flush", "drain", "done"}
    BY DEF TypeInv, TypeOK
  <1>2. CASE NextHour
    BY <1>2 DEF NextHour, store
  <1>3. ASSUME NEW u \in Up \ {0}, IncrStamp(u) PROVE ControlInv'
    BY <1>3 DEF IncrStamp, store
  <1>4. CASE IncrApply
    BY <1>4 DEF IncrApply, Rest, store
  <1>5. ASSUME NEW hourly \in BOOLEAN, IncrSync(hourly) PROVE ControlInv'
    BY <1>5 DEF IncrSync, store
  <1>6. CASE TimerFires
    BY <1>6 DEF TimerFires, FlushStamp, SubmitDrain, Rest, store
  <1>7. CASE FlushApply
    <2>1. CASE loop.by = "timer"
      BY <1>7, <2>1 DEF FlushApply, SubmitDrain, Rest, store
    <2>2. CASE loop.by = "close"
      <3>1. closer' = "drain" /\ jobs' = jobs + 1 /\ closer = "flush"
        BY <1>7, <2>2 DEF FlushApply, SubmitDrain
      <3> QED
        BY <1>1, <1>7, <3>1 DEF FlushApply, Rest, store
    <2> QED
      BY <1>1, <2>1, <2>2 DEF LoopState
  <1>8. CASE TimerSleeps
    BY <1>8 DEF TimerSleeps, store
  <1>9. CASE Close
    <2>1. CASE sqliteOk /\ conn
      BY <1>9, <2>1 DEF Close, FlushStamp, store
    <2>2. CASE ~sqliteOk \/ ~conn
      <3>1. closer' = "drain" /\ jobs' = jobs + 1 /\ loop' = loop /\ loop = Rest
        BY <1>9, <2>2 DEF Close, FlushStamp, SubmitDrain
      <3>2. jobs' > 0
        BY <1>1, <3>1
      <3> QED
        BY <1>9, <2>2, <3>1, <3>2 DEF Close, FlushStamp, Rest, store
    <2> QED
      BY <2>1, <2>2
  <1>10. CASE Disconnect
    BY <1>10 DEF Disconnect, store
  <1>11. CASE DrainWrite
    <2>1. WriteFlush(Head(queue)) /\ jobs > 0 /\ UNCHANGED <<loop, closer, conn, jobs>>
      BY <1>11 DEF DrainWrite
    <2>2. healthy' => healthy /\ sqliteOk'
      BY <2>1, WriteControl
    <2> QED
      BY <2>1, <2>2
  <1>12. CASE DrainEnd
    BY <1>12 DEF DrainEnd, store
  <1>13. ASSUME NEW w \in Worker, QueryThread(w) PROVE ControlInv'
    <2>1. UNCHANGED <<loop, closer, conn, jobs, queue>>
      BY <1>13 DEF QueryThread, FlushSync, QueryBegin, FlushSyncSkip, FlushSyncStamp,
                   FlushSyncSnapshot, FlushSyncWrite, QueryEnd, Unchanged4Query
    <2>2. healthy' => healthy /\ sqliteOk'
      <3>1. CASE FlushSyncWrite(w)
        <4>1. WriteFlush(Head(worker[w].rows))
          BY <3>1 DEF FlushSyncWrite
        <4> QED
          BY <4>1, WriteControl
      <3>2. CASE ~FlushSyncWrite(w)
        BY <1>13, <3>2 DEF QueryThread, FlushSync, QueryBegin, FlushSyncSkip,
                           FlushSyncStamp, FlushSyncSnapshot, QueryEnd, store
      <3> QED
        BY <3>1, <3>2
    <2> QED
      BY <2>1, <2>2
  <1>14. CASE Restart
    BY <1>14 DEF Restart, Rest
  <1>15. CASE UNCHANGED vars
    BY <1>15 DEF vars, store
  <1> QED
    BY <1>2, <1>3, <1>4, <1>5, <1>6, <1>7, <1>8, <1>9, <1>10, <1>11, <1>12, <1>13, <1>14,
       <1>15
    DEF Next, EventLoop, WriterThread

(* A settled row stays settled when the queue and what is stored of it stay,*)
(* whether or not it is trimmed meanwhile.                                  *)
LEMMA SettledStays ==
    ASSUME NEW r \in Row, Settled(r), clock \in Nat, clock' \in Nat, clock <= clock',
           UNCHANGED queue, mem'[r] = 0 \/ mem'[r] = mem[r],
           db'[r] = db[r] \/ db'[r] = mem[r] \/ mem[r] = 0 \/ Expired(r, clock)
    PROVE  Settled(r)'
  <1>1. CASE mem[r] = 0 \/ mem'[r] = 0
    BY <1>1 DEF Settled
  <1>2. CASE Expired(r, clock)
    BY <1>2, ExpiredStays DEF Settled
  <1>3. CASE ~(mem[r] = 0 \/ mem'[r] = 0) /\ ~Expired(r, clock)
    <2>1. mem'[r] = mem[r] /\ (db'[r] = db[r] \/ db'[r] = mem[r])
      BY <1>3
    <2> QED
      BY <1>3, <2>1 DEF Settled, LastIs
  <1> QED
    BY <1>1, <1>2, <1>3

(* Storing the first item of the queue keeps every row settled.             *)
LEMMA SettledByDrain ==
    ASSUME TypeInv, NEW r \in Row, Settled(r), queue # <<>>,
           db' = Trimmed(Upsert(db, Head(queue)), clock), queue' = Tail(queue),
           UNCHANGED <<mem, clock>>
    PROVE  Settled(r)'
  <1>1. /\ queue \in Seq(Item) /\ db \in [Row -> Nat] /\ Len(queue) \in Nat \ {0}
        /\ Head(queue) = queue[1] /\ queue[1] \in Item
        /\ Len(queue') = Len(queue) - 1
        /\ \A i \in 1..Len(queue) - 1 : queue'[i] = queue[i + 1]
    BY Lists DEF TypeInv, TypeOK, Totals
  <1>2. CASE mem[r] = 0 \/ Expired(r, clock)
    BY <1>2 DEF Settled
  <1>3. CASE ~Expired(r, clock) /\ LastIs(r, mem[r])
    <2>1. PICK i \in 1..Len(queue) :
                  /\ queue[i] = [row |-> r, n |-> mem[r]]
                  /\ \A j \in 1..Len(queue) : j > i => queue[j].row # r
      BY <1>3 DEF LastIs
    <2>2. CASE i = 1
      <3>1. db'[r] = mem[r]
        BY <1>1, <1>3, <2>1, <2>2 DEF Trimmed, Upsert
      <3>2. ASSUME NEW j \in 1..Len(queue') PROVE queue'[j].row # r
        <4>1. j + 1 \in 1..Len(queue) /\ j + 1 > i /\ queue'[j] = queue[j + 1]
          BY <1>1, <2>2
        <4> QED
          BY <2>1, <4>1
      <3> QED
        BY <3>1, <3>2 DEF Settled
    <2>3. CASE i # 1
      <3>1. i - 1 \in 1..Len(queue') /\ queue'[i - 1] = queue[i]
        BY <1>1, <2>3
      <3>2. ASSUME NEW j \in 1..Len(queue'), j > i - 1 PROVE queue'[j].row # r
        <4>1. j + 1 \in 1..Len(queue) /\ j + 1 > i /\ queue'[j] = queue[j + 1]
          BY <1>1, <3>2
        <4> QED
          BY <2>1, <4>1
      <3>3. queue'[i - 1] = [row |-> r, n |-> mem'[r]]
        BY <2>1, <3>1
      <3> QED
        BY <3>1, <3>2, <3>3 DEF Settled, LastIs
    <2> QED
      BY <2>2, <2>3
  <1>4. CASE ~Expired(r, clock) /\ db[r] = mem[r] /\ \A i \in 1..Len(queue) : queue[i].row # r
    <2>1. db'[r] = mem[r]
      <3>1. queue[1].row # r /\ queue[1].row \in Row
        BY <1>1, <1>4 DEF Item
      <3> QED
        BY <1>1, <1>4, <3>1 DEF Trimmed, Upsert
    <2>2. ASSUME NEW j \in 1..Len(queue') PROVE queue'[j].row # r
      <3>1. j + 1 \in 1..Len(queue) /\ queue'[j] = queue[j + 1]
        BY <1>1
      <3> QED
        BY <1>4, <3>1
    <2> QED
      BY <2>1, <2>2 DEF Settled
  <1> QED
    BY <1>2, <1>3, <1>4 DEF Settled

(* The snapshot of close() settles every row.                               *)
LEMMA SettledByClose ==
    ASSUME TypeInv, NEW r \in Row, Len(Snapshot) <= QueueMax,
           queue' = Enqueue(queue, Snapshot), mem'[r] = 0 \/ mem'[r] = mem[r]
    PROVE  Settled(r)'
  <1>1. mem \in Totals /\ queue \in Seq(Item)
    BY DEF TypeInv, TypeOK
  <1>2. CASE mem'[r] = 0
    BY <1>2 DEF Settled
  <1>3. CASE mem'[r] # 0
    <2>1. mem'[r] = mem[r] /\ mem[r] > 0
      BY <1>1, <1>3 DEF Totals
    <2> DEFINE S == Snapshot
    <2>2. /\ S \in Seq(Item)
          /\ \E i \in 1..Len(S) : /\ S[i] = [row |-> r, n |-> mem[r]]
                                  /\ \A j \in 1..Len(S) : j # i => S[j].row # r
      BY <1>1, <2>1, SnapshotIs
    <2>3. /\ queue' \in Seq(Item)
          /\ \E k \in Nat : /\ Len(queue') = k + Len(S)
                            /\ \A i \in 1..Len(S) : queue'[k + i] = S[i]
      BY <1>1, <2>2, EnqueueIs
    <2>4. Len(S) \in Nat
      BY <2>2
    <2> HIDE DEF S
    <2>5. PICK k \in Nat : /\ Len(queue') = k + Len(S)
                           /\ \A i \in 1..Len(S) : queue'[k + i] = S[i]
      BY <2>3
    <2>6. PICK i \in 1..Len(S) : /\ S[i] = [row |-> r, n |-> mem[r]]
                                 /\ \A j \in 1..Len(S) : j # i => S[j].row # r
      BY <2>2
    <2>7. k + i \in 1..Len(queue') /\ queue'[k + i] = [row |-> r, n |-> mem'[r]]
      BY <2>1, <2>4, <2>5, <2>6
    <2>8. ASSUME NEW j \in 1..Len(queue'), j > k + i PROVE queue'[j].row # r
      <3>1. j - k \in 1..Len(S) /\ j - k # i /\ j = k + (j - k)
        BY <2>4, <2>5, <2>8
      <3>2. queue'[j] = S[j - k]
        BY <2>5, <3>1
      <3> QED
        BY <2>6, <3>1, <3>2
    <2> QED
      BY <2>7, <2>8 DEF Settled, LastIs
  <1> QED
    BY <1>2, <1>3

(* A trimmed total is the same or 0.                                        *)
LEMMA TrimmedIs ==
    ASSUME NEW tot \in [Row -> Nat], NEW t, NEW r \in Row
    PROVE  Trimmed(tot, t)[r] = 0 \/ Trimmed(tot, t)[r] = tot[r]
  BY DEF Trimmed

(* What a snapshot that a thread stores says of a row.                      *)
Fresh(s) == mem[s.row] = 0 \/ s.n = mem[s.row]

(* A step after close() has begun and before a restart.                     *)
LEMMA CloseStep ==
    TypeInv /\ TimeInv /\ ControlInv /\ CloseInv /\ TypeInv' /\ [Next]_vars => CloseInv'
  <1> SUFFICES ASSUME TypeInv, TimeInv, ControlInv, CloseInv, TypeInv', [Next]_vars
               PROVE  CloseInv'
    OBVIOUS
  <1> DEFINE WorkersFresh == closer # "open" /\ quiet =>
                                \A w \in Worker : \A s \in Items(worker[w].rows) : Fresh(s)
             AllSettled == closer = "drain" /\ healthy /\ quiet =>
                                \A r \in Row : Settled(r)
  <1>1. CloseInv = (WorkersFresh /\ AllSettled /\ CloseLosesNothing)
    BY DEF CloseInv, Fresh
  <1>2. CloseInv' = (WorkersFresh' /\ AllSettled' /\ CloseLosesNothing')
    BY DEF CloseInv, Fresh
  <1>3. /\ mem \in [Row -> Nat] /\ db \in [Row -> Nat] /\ mem' \in [Row -> Nat]
        /\ worker \in [Worker -> WorkerState] /\ queue \in Seq(Item)
        /\ \A w \in Worker : worker[w].rows \in Seq(Item)
    BY DEF TypeInv, TypeOK, Totals, WorkerState
  <1>4. clock \in Nat /\ clock' \in Nat
    <2>1. clock \in 0..MaxClock /\ clock' \in 0..MaxClock
      BY DEF TypeInv, TypeOK
    <2> QED
      BY <2>1, Bounds
  <1>5. ASSUME NEW w \in Worker, NEW s \in Items(worker[w].rows)
        PROVE  s.row \in Row /\ s.n \in Nat /\ s \in Item
    <2>1. s \in Item
      BY <1>3 DEF Items
    <2> QED
      BY <2>1 DEF Item
  <1>6. ASSUME closer' = "open" PROVE CloseInv'
    BY <1>2, <1>6 DEF CloseLosesNothing
  (* A step that stores nothing and queues nothing.                          *)
  <1>7. ASSUME closer' = closer, closer # "open", UNCHANGED <<db, queue, quiet, healthy>>,
               clock <= clock',
               \A r \in Row : mem'[r] = 0 \/ mem'[r] = mem[r],
               \A w \in Worker : \A s \in Items(worker'[w].rows) :
                    s \in Items(worker[w].rows) \/ s \in Copies
        PROVE  CloseInv'
    <2>1. WorkersFresh'
      <3> SUFFICES ASSUME quiet, NEW w \in Worker, NEW s \in Items(worker'[w].rows)
                   PROVE  Fresh(s)'
        BY <1>7
      <3>1. CASE s \in Items(worker[w].rows)
        <4>1. Fresh(s) /\ s.row \in Row
          BY <1>1, <1>5, <1>7, <3>1
        <4> QED
          BY <1>7, <4>1 DEF Fresh
      <3>2. CASE s \in Copies
        <4>1. PICK r \in Row : s = [row |-> r, n |-> mem[r]]
          BY <3>2 DEF Copies
        <4> QED
          BY <1>7, <4>1 DEF Fresh
      <3> QED
        BY <1>7, <3>1, <3>2
    <2>2. AllSettled'
      <3> SUFFICES ASSUME closer = "drain", healthy, quiet, NEW r \in Row
                   PROVE  Settled(r)'
        BY <1>7
      <3> QED
        BY <1>1, <1>4, <1>7, SettledStays
    <2>3. CloseLosesNothing'
      <3> SUFFICES ASSUME closer = "done", healthy, quiet, NEW r \in Row
                   PROVE  Expired(r, clock') \/ db'[r] = mem'[r] \/ mem'[r] = 0
        BY <1>7 DEF CloseLosesNothing
      <3> QED
        BY <1>1, <1>4, <1>7, ExpiredStays DEF CloseLosesNothing
    <2> QED
      BY <1>2, <2>1, <2>2, <2>3
  <1>8. CASE closer = "open" /\ ~Close
    <2>1. closer' = "open"
      <3>1. CASE FlushApply
        <4>1. loop.by = "timer" /\ loop.at = "flush"
          BY <1>8, <3>1 DEF FlushApply, ControlInv, TypeInv, LoopState
        <4> QED
          BY <1>8, <3>1, <4>1 DEF FlushApply, SubmitDrain
      <3>2. ASSUME NEW w \in Worker, QueryThread(w) PROVE closer' = closer
        BY <3>2 DEF QueryThread, FlushSync, QueryBegin, FlushSyncSkip, FlushSyncStamp,
                    FlushSyncSnapshot, FlushSyncWrite, QueryEnd, Unchanged4Query
      <3> QED
        BY <1>8, <3>1, <3>2
        DEF Next, EventLoop, WriterThread, NextHour, IncrStamp, IncrApply, IncrSync,
            TimerFires, FlushStamp, SubmitDrain, TimerSleeps, Disconnect, DrainWrite,
            DrainEnd, Restart, vars
    <2> QED
      BY <1>6, <2>1
  <1>9. CASE Close
    <2>1. quiet' => \A w \in Worker : worker'[w].rows = <<>>
      BY <1>9 DEF Close, FlushStamp
    <2>2. WorkersFresh'
      BY <2>1 DEF Items
    <2>3. closer' = "drain" => ~healthy'
      BY <1>9 DEF Close, FlushStamp, ControlInv, store
    <2>4. closer' # "done"
      BY <1>9 DEF Close, FlushStamp, SubmitDrain
    <2> QED
      BY <1>2, <2>2, <2>3, <2>4 DEF CloseLosesNothing
  <1>10. CASE Restart
    BY <1>6, <1>10 DEF Restart
  <1>11. CASE closer # "open" /\ ~Restart
    <2>1. closer = "drain" \/ closer = "done" => loop.at = "rest"
      BY DEF ControlInv
    <2>2. CASE NextHour
      <3>1. clock <= clock'
        BY <1>4, <2>2, NextIsLater, Bounds DEF NextHour, At, BucketLen
      <3> QED
        BY <1>7, <1>11, <2>2, <3>1 DEF NextHour, store
    <2>3. CASE FlushApply
      <3>1. loop.by = "close" /\ closer = "flush" /\ closer' = "drain"
        BY <1>11, <2>3 DEF FlushApply, ControlInv, TypeInv, LoopState, SubmitDrain
      <3>2. /\ UNCHANGED <<db, clock, healthy, worker>> /\ queue' = Enqueue(queue, Snapshot)
            /\ mem' = Trimmed(mem, loop.now)
            /\ quiet' => quiet /\ Len(Snapshot) <= QueueMax
        BY <2>3, <3>1 DEF FlushApply, store
      <3>3. \A r \in Row : mem'[r] = 0 \/ mem'[r] = mem[r]
        BY <1>3, <3>2, TrimmedIs
      <3>4. WorkersFresh'
        <4> SUFFICES ASSUME quiet, NEW w \in Worker, NEW s \in Items(worker[w].rows)
                     PROVE  Fresh(s)'
          BY <3>2
        <4>1. Fresh(s) /\ s.row \in Row
          BY <1>1, <1>5, <3>1
        <4> QED
          BY <3>3, <4>1 DEF Fresh
      <3>5. AllSettled'
        BY <3>2, <3>3, SettledByClose
      <3> QED
        BY <1>2, <3>1, <3>4, <3>5 DEF CloseLosesNothing
    <2>4. CASE Disconnect
      <3>1. /\ closer = "drain" /\ closer' = "done" /\ queue = <<>>
            /\ UNCHANGED <<mem, db, clock, healthy, quiet, worker>>
        BY <2>4 DEF Disconnect, ControlInv, store
      <3>2. WorkersFresh'
        BY <1>1, <3>1 DEF Fresh
      <3>3. CloseLosesNothing'
        <4> SUFFICES ASSUME healthy, quiet, NEW r \in Row
                     PROVE  Expired(r, clock) \/ db[r] = mem[r] \/ mem[r] = 0
          BY <3>1 DEF CloseLosesNothing
        <4>1. Settled(r)
          BY <1>1, <3>1
        <4>2. ~LastIs(r, mem[r])
          BY <3>1 DEF LastIs
        <4> QED
          BY <4>1, <4>2 DEF Settled
      <3> QED
        BY <1>2, <3>1, <3>2, <3>3
    <2>5. CASE DrainWrite
      <3>1. /\ WriteFlush(Head(queue)) /\ queue # <<>> /\ queue' = Tail(queue)
            /\ UNCHANGED <<mem, clock, closer, quiet, worker, conn>>
        BY <2>5 DEF DrainWrite
      <3>2. WorkersFresh'
        BY <1>1, <3>1 DEF Fresh
      <3>3. AllSettled'
        <4> SUFFICES ASSUME closer = "drain", healthy', quiet, NEW r \in Row
                     PROVE  Settled(r)'
          BY <3>1
        <4>1. healthy
          BY <3>1 DEF WriteFlush, store
        <4>2. db' = Trimmed(Upsert(db, Head(queue)), clock)
          BY <3>1, <4>1 DEF WriteFlush, ControlInv
        <4>3. Settled(r)
          BY <1>1, <4>1
        <4> QED
          BY <3>1, <4>2, <4>3, SettledByDrain
      <3>4. CloseLosesNothing'
        <4> SUFFICES ASSUME closer = "done", healthy', quiet, NEW r \in Row
                     PROVE  Expired(r, clock) \/ db'[r] = mem[r] \/ mem[r] = 0
          BY <3>1 DEF CloseLosesNothing
        <4>1. db' = db /\ healthy
          BY <3>1 DEF WriteFlush, ControlInv, store
        <4> QED
          BY <1>1, <4>1 DEF CloseLosesNothing
      <3> QED
        BY <1>2, <3>2, <3>3, <3>4
    <2>6. CASE TimerSleeps \/ DrainEnd \/ UNCHANGED vars
      <3>1. UNCHANGED <<mem, db, queue, quiet, healthy, clock, closer, worker>>
        BY <2>6 DEF TimerSleeps, DrainEnd, vars, store
      <3> QED
        BY <1>4, <1>7, <1>11, <3>1
    <2>7. ASSUME NEW w \in Worker,
                 FlushSyncSkip(w) \/ FlushSyncStamp(w) \/ QueryEnd(w)
          PROVE  CloseInv'
      <3>1. /\ UNCHANGED <<mem, db, queue, quiet, healthy, closer>>
            /\ clock' = clock \/ clock' = clock + Step
        BY <2>7 DEF FlushSyncSkip, FlushSyncStamp, QueryEnd, Unchanged4Query, ReadClock,
                    store
      <3>2. clock <= clock'
        BY <1>4, <3>1, Bounds
      <3>3. \A v \in Worker : worker'[v].rows = worker[v].rows \/ worker'[v].rows = <<>>
        <4>1. CASE FlushSyncSkip(w)
          BY <1>3, <4>1 DEF FlushSyncSkip, Go, WorkerState
        <4>2. CASE FlushSyncStamp(w)
          BY <1>3, <4>2 DEF FlushSyncStamp, WorkerState
        <4>3. CASE QueryEnd(w)
          BY <1>3, <4>3 DEF QueryEnd, Idle, WorkerState
        <4> QED
          BY <2>7, <4>1, <4>2, <4>3
      <3>4. \A v \in Worker : Items(worker'[v].rows) \subseteq Items(worker[v].rows)
        BY <3>3 DEF Items
      <3> QED
        BY <1>7, <1>11, <3>1, <3>2, <3>4
    <2>8. ASSUME NEW w \in Worker, FlushSyncSnapshot(w) PROVE CloseInv'
      <3>1. /\ UNCHANGED <<db, queue, quiet, healthy, closer, clock>>
            /\ mem' = Trimmed(mem, worker[w].now)
        BY <2>8 DEF FlushSyncSnapshot, Unchanged4Query, store
      <3>2. \A r \in Row : mem'[r] = 0 \/ mem'[r] = mem[r]
        BY <1>3, <3>1, TrimmedIs
      <3>3. \A v \in Worker : worker'[v].rows = worker[v].rows \/ worker'[v].rows = Snapshot
        BY <1>3, <2>8 DEF FlushSyncSnapshot, WorkerState
      <3>4. Items(Snapshot) \subseteq Copies
        BY <1>3, SnapshotIs DEF Totals
      <3>5. \A v \in Worker : \A s \in Items(worker'[v].rows) :
                    s \in Items(worker[v].rows) \/ s \in Copies
        BY <3>3, <3>4
      <3>6. clock <= clock'
        BY <1>4, <3>1
      <3> QED
        BY <1>7, <1>11, <3>1, <3>2, <3>5, <3>6
    <2>9. ASSUME NEW w \in Worker, FlushSyncWrite(w) PROVE CloseInv'
      <3> DEFINE rows == worker[w].rows
                 s == Head(rows)
      <3>1. rows \in Seq(Item) /\ rows # <<>>
        BY <1>3, <2>9 DEF FlushSyncWrite
      <3>2. s \in Items(rows) /\ Items(Tail(rows)) \subseteq Items(rows)
        BY <3>1, ItemsOfTail
      <3>3. s.row \in Row /\ s.n \in Nat
        BY <1>5, <3>2
      <3>4. /\ WriteFlush(s)
            /\ UNCHANGED <<mem, queue, clock, closer, quiet, conn>>
        BY <2>9 DEF FlushSyncWrite, Unchanged4Query
      <3>5. \A v \in Worker : worker'[v].rows = worker[v].rows
                              \/ (v = w /\ worker'[v].rows = Tail(rows))
        BY <1>3, <2>9 DEF FlushSyncWrite, WorkerState
      <3>6. \A v \in Worker : Items(worker'[v].rows) \subseteq Items(worker[v].rows)
        BY <3>2, <3>5
      <3>7. closer # "open" /\ quiet => Fresh(s)
        BY <1>1, <3>2
      <3> HIDE DEF s, rows
      <3>8. WorkersFresh'
        BY <1>1, <3>4, <3>6 DEF Fresh
      <3>9. AllSettled'
        <4> SUFFICES ASSUME closer = "drain", healthy', quiet, NEW r \in Row
                     PROVE  Settled(r)'
          BY <3>4
        <4>1. healthy
          BY <3>4 DEF WriteFlush, store
        <4>2. db' = Trimmed(Upsert(db, s), clock)
          BY <3>4, <4>1 DEF WriteFlush, ControlInv
        <4>3. Settled(r)
          BY <1>1, <4>1
        <4>4. db'[r] = db[r] \/ db'[r] = mem[r] \/ mem[r] = 0 \/ Expired(r, clock)
          BY <1>3, <3>3, <3>7, <4>2 DEF Trimmed, Upsert, Fresh
        <4>5. clock <= clock'
          BY <1>4, <3>4
        <4> QED
          BY <1>4, <3>4, <4>3, <4>4, <4>5, SettledStays
      <3>10. CloseLosesNothing'
        <4> SUFFICES ASSUME closer = "done", healthy', quiet, NEW r \in Row
                     PROVE  Expired(r, clock) \/ db'[r] = mem[r] \/ mem[r] = 0
          BY <3>4 DEF CloseLosesNothing
        <4>1. db' = db /\ healthy
          BY <3>4 DEF WriteFlush, ControlInv, store
        <4> QED
          BY <1>1, <4>1 DEF CloseLosesNothing
      <3> QED
        BY <1>2, <3>8, <3>9, <3>10
    <2>10. ~(IncrApply \/ TimerFires \/ Close)
           /\ (\A u \in Up \ {0} : ~IncrStamp(u))
           /\ (\A hourly \in BOOLEAN : ~IncrSync(hourly))
           /\ (\A w \in Worker : ~QueryBegin(w))
      BY <1>11 DEF IncrApply, TimerFires, Close, IncrStamp, IncrSync, QueryBegin, ControlInv
    <2> QED
      BY <1>11, <2>2, <2>3, <2>4, <2>5, <2>6, <2>7, <2>8, <2>9, <2>10
      DEF Next, EventLoop, WriterThread, QueryThread, FlushSync
  <1> QED
    BY <1>8, <1>9, <1>10, <1>11

----------------------------------------------------------------------------
(* The theorems                                                             *)

(* A collector that just started.                                           *)
LEMMA InitInv == Init => MetricsInv
  <1> SUFFICES ASSUME Init PROVE MetricsInv
    OBVIOUS
  <1> USE Bounds
  <1>1. /\ Empty \in Totals /\ Rest \in LoopState /\ Idle \in WorkerState
        /\ <<>> \in Seq(Item) /\ <<>> \in Seq(0..MaxClock)
    BY DEF Empty, Totals, Rest, Idle, LoopState, WorkerState, Up
  <1>2. worker \in [Worker -> WorkerState] /\ \A w \in Worker : worker[w] = Idle
    BY <1>1 DEF Init
  <1>3. TypeInv
    BY <1>1, <1>2 DEF Init, TypeInv, TypeOK, Rest, Idle
  <1>4. \A r \in Row : mem[r] = 0 /\ db[r] = 0 /\ truth[r] = 0
    BY DEF Init, Empty
  <1>5. Pending = {}
    BY <1>2 DEF Init, Pending, Items, Idle
  <1>6. TimeInv
    BY <1>2, <1>4 DEF Init, TimeInv, Rest, Idle
  <1>7. CountInv
    BY <1>4, <1>5 DEF CountInv, NeverCountedTwice
  <1>8. KeepInv
    BY <1>4, <1>5 DEF KeepInv
  <1>9. ControlInv
    BY DEF Init, ControlInv, Rest
  <1>10. CloseInv
    BY DEF Init, CloseInv, CloseLosesNothing
  <1> QED
    BY <1>3, <1>6, <1>7, <1>8, <1>9, <1>10 DEF MetricsInv

(* Every step, of any actor, keeps the invariant.                           *)
LEMMA StepInv == MetricsInv /\ [Next]_vars => MetricsInv'
  BY TypeStep, TimeStep, CountStep, KeepStep, ControlStep, CloseStep DEF MetricsInv

(* The invariant holds in every behaviour of the collector.                 *)
THEOREM MetricsInvariant == Spec => []MetricsInv
  BY InitInv, StepInv, PTL DEF Spec

(* The queue never holds more than QUEUE_MAXSIZE snapshots and the ring no  *)
(* more than RING_MAXLEN events; every variable keeps its type.             *)
THEOREM MetricsTypeCorrect == Spec => []TypeOK
  <1>1. MetricsInv => TypeOK
    BY DEF MetricsInv, TypeInv
  <1> QED
    BY <1>1, MetricsInvariant, PTL

(* No event is counted twice, in memory or on disk, over any number of      *)
(* snapshots, writes in any order, and restarts.                            *)
THEOREM EventsCountOnce == Spec => []NeverCountedTwice
  <1>1. MetricsInv => NeverCountedTwice
    BY DEF MetricsInv, CountInv
  <1> QED
    BY <1>1, MetricsInvariant, PTL

(* After a start that loaded its rows no snapshot makes a stored total of   *)
(* today smaller than what memory holds.                                    *)
THEOREM RestartsKeepTotals == Spec => []RestartKeepsTotals
  <1>1. MetricsInv => RestartKeepsTotals
    BY DEF MetricsInv, KeepInv, RestartKeepsTotals, Since
  <1> QED
    BY <1>1, MetricsInvariant, PTL

(* close() leaves in the database what memory held, unless a write failed,  *)
(* a query was storing an older snapshot, or the last one was longer than   *)
(* the queue.                                                               *)
THEOREM ClosingLosesNothing == Spec => []CloseLosesNothing
  <1>1. MetricsInv => CloseLosesNothing
    BY DEF MetricsInv, CloseInv
  <1> QED
    BY <1>1, MetricsInvariant, PTL

=============================================================================
