-------------------------- MODULE MCRealtimeEndpoint --------------------------
(* RealtimeEndpoint on a small instance. *)
EXTENDS RealtimeEndpoint
===============================================================================
