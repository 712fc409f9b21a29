------------------------- MODULE MCInspectionEvidence -------------------------
(* A seeded item and one that is added; two tabs, two submissions.         *)
EXTENDS InspectionEvidence, TLC

CONSTANTS i1, i2, irrigation

SeededCategory == i1 :> irrigation

TwoSubmissions == submissions <= 2

Symmetry == Permutations(Tabs)
=============================================================================
