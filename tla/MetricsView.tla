----------------------------- MODULE MetricsView -----------------------------
(***************************************************************************)
(* What a dashboard query reads after its flush (_metrics.py): the last     *)
(* hour is the rows of the database plus the events in memory since the     *)
(* last flush, read one after the other while the event loop counts on.     *)
(* Longer ranges are the database alone, or memory when there is none.      *)
(***************************************************************************)
EXTENDS Metrics

VARIABLES
    view    \* per query thread: where it is, what it has read, its answer

NoView == [at |-> "none", range |-> "1h", since |-> 0, seen |-> 0, mark |-> 0,
           answer |-> 0, until |-> 0]

Total(tot, rows) == MapThenSumSet(LAMBDA r : tot[r], rows)

(* The rows of this hour and the two before, by named upstreams.            *)
LastHours == {r \in Row : r.by = "hour" /\ r.up # 0 /\ r.at >= At("hour", clock) - 2}

(* The rows of a long range: hours up to a week, days beyond.               *)
LongRange == {r \in Row : r.by = "day" /\ r.up # 0 /\ ~Expired(r, clock)}

ViewInit == Init /\ view = [w \in Worker |-> NoView]

Begin(w) ==
    /\ QueryBegin(w)
    /\ \E range \in {"1h", "long"} :
          view' = [view EXCEPT ![w] = [NoView EXCEPT !.at = "db", !.range = range,
                                                     !.since = Total(truth, LastHours)]]

(* _query_1h_db_recent: a closed connection gives zeros.                    *)
ReadDb(w) ==
    /\ Reading(w)
    /\ view[w].at = "db" /\ view[w].range = "1h"
    /\ view' = [view EXCEPT ![w].at = "mark",
                            ![w].seen = IF conn THEN Total(db, LastHours) ELSE 0]
    /\ UNCHANGED vars

(* Then _last_flush_ts ...                                                  *)
ReadMark(w) ==
    /\ view[w].at = "mark"
    /\ view' = [view EXCEPT ![w].at = "ring", ![w].mark = lastFlush]
    /\ UNCHANGED vars

(* ... and the events since then.                                           *)
ReadRing(w) ==
    /\ view[w].at = "ring"
    /\ LET delta == {i \in DOMAIN ring : ring[i] >= view[w].mark
                                         /\ ring[i] >= clock - HourLen}
       IN view' = [view EXCEPT ![w].at = "done",
                               ![w].answer = @ + view[w].seen + Cardinality(delta),
                               ![w].until = Total(truth, LastHours)]
    /\ UNCHANGED vars

(* _query_memory_fallback                                                   *)
FromMemory == Total(mem, LongRange)

(* _query_db.  A full disk closes nothing: the answer is then what was      *)
(* stored before.                                                           *)
ReadLong(w) ==
    /\ Reading(w)
    /\ view[w].at = "db" /\ view[w].range = "long"
    /\ view' = [view EXCEPT ![w].at = "done",
                            ![w].answer = IF conn THEN Total(db, LongRange) ELSE FromMemory]
    /\ UNCHANGED vars

End(w) ==
    /\ view[w].at = "done"
    /\ QueryEnd(w)
    /\ view' = [view EXCEPT ![w] = NoView]

ViewNext ==
    \/ (EventLoop \/ WriterThread \/ NextHour \/ \E w \in Worker : FlushSync(w))
       /\ UNCHANGED view
    \/ Restart /\ view' = [w \in Worker |-> NoView]
    \/ \E w \in Worker : Begin(w) \/ ReadDb(w) \/ ReadMark(w) \/ ReadRing(w)
                         \/ ReadLong(w) \/ End(w)

ViewSpec == ViewInit /\ [][ViewNext]_<<vars, view>>

----------------------------------------------------------------------------
(* What the comments of flush and _query_1h say: the database and the       *)
(* events since the flush complement each other, so that the answer for the *)
(* last hour has every event counted before the query, and none twice.      *)
OneHourViewIsExact ==
    \A w \in Worker : view[w].at = "done" /\ view[w].range = "1h" =>
        view[w].answer \in view[w].since..view[w].until
=============================================================================
