----------------------------- MODULE MCRateLimit -----------------------------
(* RateLimit on a small instance: the limits, the window and the bounds    *)
(* are in the .cfg files beside this module.                               *)
EXTENDS RateLimit, TLC

(* Logins of one client are interchangeable. *)
Symmetry == Permutations(Logins)
===============================================================================
