------------------------------- MODULE Metrics -------------------------------
(***************************************************************************)
(* MetricsCollector (_metrics.py): totals in memory, per upstream and day   *)
(* or hour; snapshots of them in a bounded queue that one writer thread     *)
(* stores; dashboard queries, in threads of their own, that store a         *)
(* snapshot before they read the database; a full disk; closing; restarts.  *)
(*                                                                         *)
(* A row's aggregate is one number, the events counted in it.  A dict or a  *)
(* table is a total function with 0 for an absent row.  The value `now`  *)
(* of an operation may be old when it is used, as threads run meanwhile.    *)
(***************************************************************************)
EXTENDS Integers, SequencesExt, FiniteSetsExt

CONSTANTS
    Worker,         \* threads that answer queries
    Ups,            \* upstreams 1..Ups; 0 is "other"
    HourLen, DayLen,            \* the clock's units in an hour and in a day
    KeepHours, KeepDays,        \* HOURLY_RETENTION_HOURS, DAILY_RETENTION_DAYS
    QueueMax,       \* QUEUE_MAXSIZE
    RingMax,        \* RING_MAXLEN
    Debounce,       \* FLUSH_DEBOUNCE_S
    Step,           \* by how much a reading of the clock differs from the last
    MaxClock, MaxEvents, MaxQueries, MaxFlushes,   \* bounds
    MaxFaults       \* bound on restarts and failed writes together

ASSUME MetricsAssumption ==
    /\ {HourLen, DayLen, QueueMax} \subseteq Nat \ {0}
    /\ \A n \in {Ups, KeepHours, KeepDays, RingMax, Debounce, Step, MaxClock,
                 MaxEvents, MaxQueries, MaxFlushes, MaxFaults} : n \in Nat

Up  == 0..Ups
BucketLen(b) == IF b = "day" THEN DayLen ELSE HourLen
At(b, t) == t \div BucketLen(b)
Row == UNION {[by : {b}, at : 0..At(b, MaxClock), up : Up] : b \in {"day", "hour"}}
Totals == [Row -> Nat]
Empty  == [r \in Row |-> 0]

VARIABLES
    clock,
    mem,        \* self._daily and self._hourly
    ring,       \* self.recent_events: the time of each event
    db,         \* the tables daily_agg and hourly_agg
    sqliteOk,   \* self._sqlite_ok
    conn,       \* whether self._conn is open
    queue,      \* self._queue of snapshots, one row each
    lastFlush, lastDebounce,    \* self._last_flush_ts, _last_flush_debounce_ts
    loop,       \* what the event loop does between two awaits
    timer,      \* where _flush_loop is
    jobs,       \* _drain_queue calls given to the writer thread
    closer,     \* where close() is
    worker,     \* each query thread
    events, queries, flushes, faults,       \* counted for the bounds
    truth,      \* history: the events of each row, over all processes
    boot,       \* history: when this process started
    healthy,    \* history: this process loaded its rows and lost no write
    quiet       \* history: at close() no query was storing an older snapshot, and
                \* the last one fitted the queue

counters == <<events, queries, flushes>>
store    == <<db, sqliteOk, healthy, faults>>
vars == <<clock, mem, ring, store, conn, queue, lastFlush, lastDebounce, loop, timer,
          jobs, closer, worker, counters, truth, boot, quiet>>

Idle == [at |-> "idle", now |-> 0, rows |-> <<>>]
Rest == [at |-> "rest", now |-> 0, up |-> 0, by |-> "timer"]

Init ==
    /\ clock = 0
    /\ mem = Empty /\ db = Empty /\ truth = Empty
    /\ ring = <<>> /\ queue = <<>>
    /\ sqliteOk = TRUE /\ conn = TRUE /\ healthy = TRUE
    /\ lastFlush = 0 /\ lastDebounce = -Debounce
    /\ loop = Rest /\ timer = "sleep" /\ jobs = 0 /\ closer = "open"
    /\ worker = [w \in Worker |-> Idle]
    /\ events = 0 /\ queries = 0 /\ flushes = 0 /\ faults = 0
    /\ boot = 0 /\ quiet = TRUE

(* _utc_now(), when the value is compared with others later: readings in    *)
(* microseconds are all different, unless Step is 0.                        *)
ReadClock == clock + Step <= MaxClock /\ clock' = clock + Step

(* Time passes until the next hour begins.                                  *)
NextHour ==
    /\ (At("hour", clock) + 1) * HourLen <= MaxClock
    /\ clock' = (At("hour", clock) + 1) * HourLen
    /\ UNCHANGED <<mem, ring, store, conn, queue, lastFlush, lastDebounce, loop, timer,
                   jobs, closer, worker, counters, truth, boot, quiet>>

----------------------------------------------------------------------------
(* Counting                                                                 *)

Counted(tot, rows) == [r \in Row |-> IF r \in rows THEN tot[r] + 1 ELSE tot[r]]

RowsOf(u, t) == {[by |-> b, at |-> At(b, t), up |-> u] : b \in {"day", "hour"}}

(* incr_event reads the clock before it takes the lock.                     *)
IncrStamp(u) ==
    /\ loop = Rest /\ closer = "open"
    /\ events < MaxEvents
    /\ events' = events + 1
    /\ ReadClock
    /\ loop' = [at |-> "incr", now |-> clock', up |-> u, by |-> "timer"]
    /\ UNCHANGED <<mem, ring, store, conn, queue, lastFlush, lastDebounce, timer, jobs,
                   closer, worker, queries, flushes, truth, boot, quiet>>

IncrApply ==
    /\ loop.at = "incr"
    /\ LET rows == RowsOf(loop.up, loop.now)
           next == Append(ring, loop.now)
       IN /\ mem' = Counted(mem, rows)
          /\ truth' = Counted(truth, rows)
          /\ ring' = IF Len(next) > RingMax THEN Tail(next) ELSE next
    /\ loop' = Rest
    /\ UNCHANGED <<clock, store, conn, queue, lastFlush, lastDebounce, timer, jobs,
                   closer, worker, counters, boot, quiet>>

(* The hooks outside requests count under "other": evictions by day and     *)
(* hour, the rest by day.                                                   *)
HookRows(hourly) == {r \in RowsOf(0, clock) : hourly \/ r.by = "day"}

IncrSync(hourly) ==
    /\ loop = Rest /\ closer = "open"
    /\ events < MaxEvents
    /\ events' = events + 1
    /\ mem' = Counted(mem, HookRows(hourly))
    /\ truth' = Counted(truth, HookRows(hourly))
    /\ UNCHANGED <<clock, ring, store, conn, queue, lastFlush, lastDebounce, loop, timer,
                   jobs, closer, worker, queries, flushes, boot, quiet>>

----------------------------------------------------------------------------
(* Snapshots and the queue                                                  *)

(* The rows of a table that are present.                                    *)
Present(b) == {r \in Row : r.by = b /\ mem[r] > 0}

(* One item per row that is present, the days first.                        *)
Snapshot ==
    LET rows == SetToSeq(Present("day")) \o SetToSeq(Present("hour"))
    IN [i \in DOMAIN rows |-> [row |-> rows[i], n |-> mem[rows[i]]]]

Expired(r, now) ==
    r.at < At(r.by, now) - (IF r.by = "day" THEN KeepDays ELSE KeepHours)

(* _trim_memory and _trim_old                                               *)
Trimmed(tot, now) == [r \in Row |-> IF Expired(r, now) THEN 0 ELSE tot[r]]

(* The last n items of q.                                                   *)
LastOf(q, n) == IF Len(q) > n THEN SubSeq(q, Len(q) - n + 1, Len(q)) ELSE q

(* Variant: the bound of the queue is off by one.                           *)
EnqueueLate(q, items) == LastOf(q \o items, QueueMax + 1)

(* Variant: a full queue refuses the new items.                             *)
EnqueueNot(q, items) == IF Len(q \o items) > QueueMax THEN SubSeq(q \o items, 1, QueueMax)
                        ELSE q \o items

(* put_nowait for each item; each time a full queue first loses its oldest. *)
Enqueue(q, items) == LastOf(q \o items, QueueMax)

(* The event loop hands _drain_queue to the writer thread and awaits it.    *)
SubmitDrain(by) ==
    /\ jobs' = jobs + 1
    /\ IF by = "timer" THEN timer' = "drain" /\ UNCHANGED closer
                       ELSE closer' = "drain" /\ timer' = "off"

(* flush(): nothing without a database; else the clock is read before the   *)
(* lock.                                                                    *)
FlushStamp(by) ==
    /\ loop = Rest
    /\ \/ /\ sqliteOk /\ conn
          /\ ReadClock
          /\ loop' = [at |-> "flush", now |-> clock', up |-> 0, by |-> by]
          /\ IF by = "timer" THEN timer' = "flush" /\ UNCHANGED closer
                             ELSE closer' = "flush" /\ timer' = "off"
          /\ UNCHANGED jobs
       \/ /\ ~sqliteOk \/ ~conn
          /\ SubmitDrain(by)
          /\ UNCHANGED <<clock, loop>>
    /\ UNCHANGED <<mem, ring, store, conn, queue, lastFlush, lastDebounce, worker, events,
                   queries, truth, boot>>

TimerFires ==
    /\ timer = "sleep" /\ closer = "open"
    /\ flushes < MaxFlushes
    /\ flushes' = flushes + 1
    /\ FlushStamp("timer")
    /\ UNCHANGED quiet

(* _snapshot(mark_flushed=True) and _enqueue, in one go on the event loop.  *)
FlushApply ==
    /\ loop.at = "flush"
    /\ queue' = Enqueue(queue, Snapshot)
    /\ quiet' = (quiet /\ (loop.by = "close" => Len(Snapshot) <= QueueMax))
    /\ mem' = Trimmed(mem, loop.now)
    /\ lastFlush' = loop.now
    /\ SubmitDrain(loop.by)
    /\ loop' = Rest
    /\ UNCHANGED <<clock, ring, store, conn, lastDebounce, worker, counters, truth, boot>>

TimerSleeps ==
    /\ timer = "drain" /\ jobs = 0 /\ loop = Rest
    /\ timer' = "sleep"
    /\ UNCHANGED <<clock, mem, ring, store, conn, queue, lastFlush, lastDebounce, loop,
                   jobs, closer, worker, counters, truth, boot, quiet>>

----------------------------------------------------------------------------
(* Writing                                                                  *)

(* Variant: the row's total is added to the one stored.                     *)
UpsertAdds(tot, s) == [tot EXCEPT ![s.row] = @ + s.n]

(* INSERT ... ON CONFLICT DO UPDATE SET ... = excluded: the row is replaced.*)
Upsert(tot, s) == [tot EXCEPT ![s.row] = s.n]

(* _write_flush under _sqlite_lock: nothing without a database; a full disk *)
(* ends persistence, any other error loses this row only.                   *)
WriteFlush(s) ==
    \/ /\ ~sqliteOk \/ ~conn
       /\ UNCHANGED store
    \/ /\ sqliteOk /\ conn
       /\ \/ db' = Trimmed(Upsert(db, s), clock) /\ UNCHANGED <<sqliteOk, healthy, faults>>
          \/ /\ faults < MaxFaults
             /\ faults' = faults + 1
             /\ healthy' = FALSE /\ sqliteOk' \in BOOLEAN /\ UNCHANGED db

(* _drain_queue stores one item.  One that is taken and not yet stored      *)
(* counts as still in the queue, which has a place more in the code then.   *)
DrainWrite ==
    /\ jobs > 0 /\ queue # <<>>
    /\ WriteFlush(Head(queue))
    /\ queue' = Tail(queue)
    /\ UNCHANGED <<clock, mem, ring, conn, lastFlush, lastDebounce, loop, timer, jobs,
                   closer, worker, counters, truth, boot, quiet>>

(* It ends when the queue is empty.                                         *)
DrainEnd ==
    /\ jobs > 0 /\ queue = <<>>
    /\ jobs' = jobs - 1
    /\ UNCHANGED <<clock, mem, ring, store, conn, queue, lastFlush, lastDebounce, loop,
                   timer, closer, worker, counters, truth, boot, quiet>>

----------------------------------------------------------------------------
(* A query in a thread of its own                                           *)

Go(w, at) == worker' = [worker EXCEPT ![w].at = at]

Unchanged4Query == <<ring, conn, queue, loop, timer, jobs, closer, events,
                     flushes, truth, boot, quiet>>

QueryBegin(w) ==
    /\ worker[w].at = "idle" /\ closer = "open"
    /\ queries < MaxQueries
    /\ queries' = queries + 1
    /\ Go(w, "flush")
    /\ UNCHANGED <<clock, mem, store, lastFlush, lastDebounce, Unchanged4Query>>

(* _flush_sync: skipped without a database, or soon after the last one.     *)
FlushSyncSkip(w) ==
    /\ worker[w].at = "flush"
    /\ \/ ~sqliteOk \/ ~conn
       \/ clock + Step - lastDebounce < Debounce
    /\ Go(w, "read")
    /\ UNCHANGED <<clock, mem, store, lastFlush, lastDebounce, queries, Unchanged4Query>>

FlushSyncStamp(w) ==
    /\ worker[w].at = "flush"
    /\ sqliteOk /\ conn
    /\ clock + Step - lastDebounce >= Debounce
    /\ ReadClock
    /\ worker' = [worker EXCEPT ![w].at = "snap", ![w].now = clock']
    /\ UNCHANGED <<mem, store, lastFlush, lastDebounce, queries, Unchanged4Query>>

FlushSyncSnapshot(w) ==
    /\ worker[w].at = "snap"
    /\ worker' = [worker EXCEPT ![w].at = "write", ![w].rows = Snapshot]
    /\ mem' = Trimmed(mem, worker[w].now)
    /\ lastFlush' = worker[w].now /\ lastDebounce' = worker[w].now
    /\ UNCHANGED <<clock, store, queries, Unchanged4Query>>

FlushSyncWrite(w) ==
    /\ worker[w].at = "write"
    /\ worker[w].rows # <<>>
    /\ WriteFlush(Head(worker[w].rows))
    /\ worker' = [worker EXCEPT ![w].rows = Tail(@)]
    /\ UNCHANGED <<clock, mem, lastFlush, lastDebounce, queries, Unchanged4Query>>

(* Then the query reads the database: module MetricsView.                   *)
Reading(w) == worker[w].at = "read" \/ (worker[w].at = "write" /\ worker[w].rows = <<>>)

QueryEnd(w) ==
    /\ Reading(w)
    /\ worker' = [worker EXCEPT ![w] = Idle]
    /\ UNCHANGED <<clock, mem, store, lastFlush, lastDebounce, queries, Unchanged4Query>>

----------------------------------------------------------------------------
(* Closing and restarting                                                   *)

(* close(): called once the servers are down.  The timer's task is          *)
(* cancelled at its await; a drain it submitted goes on.  Then flush().     *)
Close ==
    /\ closer = "open"
    /\ quiet' = \A w \in Worker : worker[w].rows = <<>>
    /\ FlushStamp("close")
    /\ UNCHANGED flushes

(* The writer thread has finished, the executors are shut down, the         *)
(* connection is closed.                                                    *)
Disconnect ==
    /\ closer = "drain" /\ jobs = 0
    /\ closer' = "done"
    /\ conn' = FALSE
    /\ UNCHANGED <<clock, mem, ring, store, queue, lastFlush, lastDebounce, loop, timer,
                   jobs, worker, counters, truth, boot, quiet>>

(* Variant: only the day's own row is loaded.                               *)
TodayDaily(t) == {r \in Row : r.by = "day" /\ r.at = At("day", t)}

(* The rows _load_existing_today selects: today's, and every hour since     *)
(* midnight.                                                                *)
Today(t) ==
    {r \in Row : \/ r.by = "day" /\ r.at = At("day", t)
                 \/ r.by = "hour" /\ r.at * HourLen >= At("day", t) * DayLen}

(* The process ends, in order or not, and starts again: __init__ connects   *)
(* or stays in memory, and loads today's rows or fails on the way, days     *)
(* first.                                                                   *)
Restart ==
    /\ faults < MaxFaults
    /\ faults' = faults + 1
    /\ ring' = <<>> /\ queue' = <<>>
    /\ sqliteOk' = TRUE /\ conn' \in BOOLEAN
    /\ \E got \in SUBSET {r \in Today(clock) : db[r] > 0} :
          /\ (\E r \in got : r.by = "hour")
                => \A r \in Today(clock) : r.by = "day" /\ db[r] > 0 => r \in got
          /\ conn' \/ got = {}
          /\ mem' = [r \in Row |-> IF r \in got THEN db[r] ELSE 0]
          /\ healthy' = (conn' /\ got = {r \in Today(clock) : db[r] > 0})
    /\ lastFlush' = clock /\ lastDebounce' = -Debounce
    /\ loop' = Rest /\ timer' = "sleep" /\ jobs' = 0 /\ closer' = "open"
    /\ worker' = [w \in Worker |-> Idle]
    /\ boot' = clock /\ quiet' = TRUE
    /\ UNCHANGED <<clock, db, events, queries, flushes, truth>>

----------------------------------------------------------------------------
EventLoop ==
    \/ \E u \in Up \ {0} : IncrStamp(u)
    \/ IncrApply
    \/ \E hourly \in BOOLEAN : IncrSync(hourly)
    \/ TimerFires \/ FlushApply \/ TimerSleeps \/ Close \/ Disconnect

WriterThread == DrainWrite \/ DrainEnd

FlushSync(w) ==
    FlushSyncSkip(w) \/ FlushSyncStamp(w) \/ FlushSyncSnapshot(w) \/ FlushSyncWrite(w)

QueryThread(w) ==
    QueryBegin(w) \/ FlushSync(w) \/ QueryEnd(w)

Next ==
    \/ EventLoop \/ WriterThread \/ NextHour \/ Restart
    \/ \E w \in Worker : QueryThread(w)

Spec == Init /\ [][Next]_vars

----------------------------------------------------------------------------
(* Properties                                                               *)

Item == [row : Row, n : Nat]

(* Every variable has its type, and the queue and the ring keep their       *)
(* bounds.                                                                  *)
TypeOK ==
    /\ clock \in 0..MaxClock /\ boot \in 0..MaxClock
    /\ mem \in Totals /\ db \in Totals /\ truth \in Totals
    /\ ring \in Seq(0..MaxClock) /\ Len(ring) <= RingMax
    /\ queue \in Seq(Item) /\ Len(queue) <= QueueMax
    /\ {sqliteOk, conn, healthy, quiet} \subseteq BOOLEAN
    /\ lastFlush \in 0..MaxClock /\ lastDebounce \in -Debounce..MaxClock
    /\ loop.at \in {"rest", "incr", "flush"}
    /\ timer \in {"sleep", "flush", "drain", "off"}
    /\ closer \in {"open", "flush", "drain", "done"}
    /\ jobs \in Nat
    /\ \A w \in Worker :
          worker[w].at \in {"idle", "flush", "snap", "write", "read"}
    /\ events \in 0..MaxEvents /\ queries \in 0..MaxQueries
    /\ flushes \in 0..MaxFlushes /\ faults \in 0..MaxFaults

(* No event is counted twice in memory or on disk, whichever snapshots were *)
(* written, in whichever order, and however often the process restarted.    *)
NeverCountedTwice == \A r \in Row : mem[r] <= truth[r] /\ db[r] <= truth[r]

(* After a restart that loaded its rows, no later snapshot makes a total of *)
(* today smaller than what was stored: what is on disk for the days this    *)
(* process has seen is at most what it holds in memory.                     *)
RestartKeepsTotals ==
    healthy => \A r \in Row :
        r.at * BucketLen(r.by) >= At("day", boot) * DayLen =>
            Expired(r, clock) \/ db[r] <= mem[r]

(* After close() the database holds what memory held, unless a write failed,*)
(* a query thread was still storing an older snapshot, or the last snapshot *)
(* did not fit the queue.  Items a full queue dropped on the way do not     *)
(* matter: the last snapshot repeats every row, and it is the oldest that   *)
(* are dropped.                                                             *)
CloseLosesNothing ==
    closer = "done" /\ healthy /\ quiet =>
        \A r \in Row : Expired(r, clock) \/ db[r] = mem[r] \/ mem[r] = 0
=============================================================================
