----------------------- MODULE MCGardenRequestSupabase -----------------------
(* A small instance of GardenRequestSupabase for TLC.                      *)
EXTENDS GardenRequestSupabase, FiniteSets, Naturals, TLC

(* Administrators and crops are interchangeable.                           *)
Symmetry == Permutations(Admins) \cup Permutations(Crops)

(* The bounds: two handlers in flight in all, one of them an inspector's at *)
(* most, and he writes a report, not a visit, once something was disturbed. *)
(* A visit is entered as pending and ends as completed (failed and flagged  *)
(* visits pass the same guards).  Nothing is explored beyond a status       *)
(* written past the handlers, after which the properties promise only what  *)
(* TypeOK says, nor beyond a lost answer, of which OneApproval and          *)
(* PipelineMoves still speak: that is left to their proofs.                 *)
Busy == Cardinality({u \in Admins : op[u] # Idle})

TwoHandlers ==
    /\ Cardinality(calls) <= 1
    /\ Busy + Cardinality(calls) <= 2
    /\ past = "disturbed" => calls \subseteq {"save", "submit"}

OneVisit ==
    /\ ({visit} \cup calls) \cap {"failed", "flagged"} = {}
    /\ report = "none" => visit \in {"none", "pending"}
    /\ report # "none" /\ visit = "pending" => "in_progress" \in calls

Bounds == TwoHandlers /\ OneVisit /\ past \notin {"lost", "decided"}
=============================================================================
