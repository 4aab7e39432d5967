------------------------------ MODULE MCListing ------------------------------
(* The listings and the report on a small instance. *)
EXTENDS Analytics
===============================================================================
