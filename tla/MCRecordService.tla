--------------------------- MODULE MCRecordService ---------------------------
(* RecordService, and with it UserService, on small instances. *)
EXTENDS RecordService, TLC

(* Requests are interchangeable. *)
Symmetry == Permutations(Requests)
===============================================================================
