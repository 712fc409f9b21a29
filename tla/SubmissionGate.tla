---------------------------- MODULE SubmissionGate ----------------------------
(***************************************************************************)
(* What a report promises to those who decide on it, whatever the number   *)
(* of tabs, photos, checklist items and visits behind it.                  *)
(*                                                                         *)
(* Its evidence may change at any time, and a save may take it back into a *)
(* draft; but it comes before an administrator only at a moment when the   *)
(* evidence is complete, not a second time while it waits, and it is       *)
(* decided only from there.  InspectionEvidence, which has the evidence    *)
(* item by item and the submission lock by lock, and GardenRequest, which  *)
(* has one Boolean and one step for them, are compared with this.          *)
(***************************************************************************)
VARIABLES
    report,     \* inspection_reports.assessment_status, or "none"
    complete    \* inspection_evidence_gaps finds none

vars == <<report, complete>>

Init == report \in {"none", "draft"} /\ complete \in BOOLEAN

(* start_inspection_report.                                                *)
Open == report = "none" /\ report' = "draft" /\ UNCHANGED complete

(* The checklist or the photos change.                                     *)
Collect == report # "none" /\ complete' \in BOOLEAN /\ UNCHANGED report

(* save_assessment, of any report.                                         *)
Revise == report # "none" /\ report' = "draft" /\ UNCHANGED complete

(* submit_inspection_for_approval.                                         *)
Submit ==
    /\ report \notin {"none", "submitted_for_approval"}
    /\ complete
    /\ report' = "submitted_for_approval"
    /\ UNCHANGED complete

(* An administrator approves or rejects.                                   *)
Decide ==
    /\ report = "submitted_for_approval"
    /\ report' = "decided"
    /\ UNCHANGED complete

Next == Open \/ Collect \/ Revise \/ Submit \/ Decide

Spec == Init /\ [][Next]_vars
=============================================================================
