--------------------------- MODULE MCAssessmentLead ---------------------------
(* A small instance of AssessmentLead for TLC: two leads with one address. *)
EXTENDS AssessmentLead, TLC

CONSTANTS l1, l2, e1

SharedEmail == l1 :> e1 @@ l2 :> e1

Symmetry == Permutations(Admins)

(* Beside the request of the conversion, one that somebody wrote.          *)
TwoRequests == \A l \in Leads : requests[l] <= 2
=============================================================================
