------------------------------ MODULE MCMetrics ------------------------------
(* Metrics with an hour of one tick, so that both events may meet a change  *)
(* of the hour or of the day.                                               *)
EXTENDS Metrics
=============================================================================
