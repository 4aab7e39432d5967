---------------------------- MODULE MCTokenService ----------------------------
(* TokenService on a small instance. *)
EXTENDS TokenService, TLC

(* The requests are interchangeable. *)
Symmetry == Permutations(Requests)
===============================================================================
