--------------------------- MODULE GardenLifecycle ---------------------------
(***************************************************************************)
(* What the garden-request pipeline promises, whatever the number of       *)
(* administrators, inspectors and reports behind it.                       *)
(*                                                                         *)
(* A request moves one stage at a time from "submitted" to "live"; it may  *)
(* be rejected only before it is accepted and cancelled only while it is   *)
(* still under way; and the operational workflow shown to the resident     *)
(* is closed in the very step that rejects or cancels the request.         *)
(* GardenRequest and its compatibility twin GardenRequestSupabase are      *)
(* compared with this specification.                                       *)
(***************************************************************************)
VARIABLES
    status,     \* garden_requests.status
    workflow    \* operational_workflows.status

vars == <<status, workflow>>

(* The garden_request_status enumeration.                                  *)
Statuses == {"submitted", "inspection_scheduled", "accepted",
             "needing_implements", "implements_installed", "seeds",
             "final_install", "live", "rejected", "cancelled"}

(* Statuses no decision has been taken on, and statuses that end a request.*)
Undecided == {"submitted", "inspection_scheduled"}
Terminal  == {"live", "rejected", "cancelled"}

(* The stage-by-stage edges of the pipeline.                               *)
Forward == {<<"submitted", "inspection_scheduled">>,
            <<"inspection_scheduled", "accepted">>,
            <<"accepted", "needing_implements">>,
            <<"needing_implements", "implements_installed">>,
            <<"implements_installed", "seeds">>,
            <<"seeds", "final_install">>,
            <<"final_install", "live">>}

Init == status = "submitted" /\ workflow = "active"

Advance == <<status, status'>> \in Forward /\ UNCHANGED workflow

Reject == /\ status \in Undecided
          /\ status' = "rejected"
          /\ workflow' = "cancelled"

Cancel == /\ status \notin Terminal
          /\ status' = "cancelled"
          /\ workflow' = "cancelled"

Next == Advance \/ Reject \/ Cancel

Spec == Init /\ [][Next]_vars
=============================================================================
