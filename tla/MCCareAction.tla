----------------------------- MODULE MCCareAction -----------------------------
(* A small instance of CareAction for TLC; no symmetry, because the run      *)
(* checks liveness.                                                          *)
EXTENDS CareAction
=============================================================================
