------------------------- MODULE MCInspectionScoring --------------------------
(* Forms on both sides of every limit of the score, and just below enough  *)
(* to be rounded up to it.                                                 *)
EXTENDS InspectionScoring

Risks == {<<0, 0, 0>>, <<1, 0, 0>>, <<0, 1, 0>>, <<0, 0, 1>>, <<1, 1, 1>>,
          <<0, 0, 3>>}

BoundaryForms ==
    {[sunlight |-> s, water |-> w, space |-> m,
      low |-> r[1], medium |-> r[2], high |-> r[3]] :
        s \in {194, 195, 200, 399, 400, 501, 599, 600}, w \in WaterAccess,
        m \in {1994, 1995, 2000, 4999, 5000, 9999, 10000}, r \in Risks}
=============================================================================
