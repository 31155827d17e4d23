---------------------------- MODULE MCMetricsView ----------------------------
(* MetricsView within one hour.                                            *)
EXTENDS MetricsView
=============================================================================
