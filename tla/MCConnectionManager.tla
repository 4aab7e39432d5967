------------------------- MODULE MCConnectionManager -------------------------
(* ConnectionManager on a small instance. *)
EXTENDS ConnectionManager
===============================================================================
