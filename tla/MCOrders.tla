------------------------------ MODULE MCOrders -------------------------------
(* A small instance of Orders for TLC.                                     *)
EXTENDS Orders, TLC

Symmetry == Permutations(Admins)
=============================================================================
