------------------------- MODULE MCRealtimeGenerator -------------------------
(* RealtimeGenerator on small instances: the constants are in the .cfg     *)
(* files beside this module.                                               *)
EXTENDS RealtimeGenerator

===============================================================================
