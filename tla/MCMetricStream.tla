---------------------------- MODULE MCMetricStream ----------------------------
(* MetricStream, with the session around it, on a small instance. *)
EXTENDS MetricStream
===============================================================================
