---------------------------- MODULE GardenRequest ----------------------------
(***************************************************************************)
(* One garden request on its way from submission to a live garden, as the  *)
(* production deployment (PostgresGateway) runs it.                        *)
(*                                                                         *)
(* Every gateway method opens one database transaction that locks the      *)
(* request row, so each is one atomic action here.  What is not atomic is  *)
(* an HTTP handler that reads first and calls the gateway afterwards: the  *)
(* administrator's PATCH (variable op) and the inspector's save of an      *)
(* assessment (variable saves) each have a read step and a write step, and *)
(* any number of other handlers may run in between.                        *)
(*                                                                         *)
(* A request that is scheduled through the gateway gets a property of its  *)
(* own and garden_requests.property_id is UNIQUE, so two requests share no *)
(* row and one request is modelled.  A report is identified by its         *)
(* assignment (inspection_reports.assignment_id is UNIQUE).                *)
(*                                                                         *)
(* Beside the workflow endpoints stands the generic data route, which      *)
(* writes some of the same rows without their checks.  Its writes are      *)
(* steps of Next like any other; the history variable bypassed remembers   *)
(* which part of the state they reached, and no step's guard reads it.     *)
(***************************************************************************)
CONSTANTS
    Admins,        \* concurrent administrator requests
    Inspectors,    \* inspectors, all of them active
    Assignments,   \* ids the database may give to assignments
    Crops,         \* crops the approved assessment recommends
    None           \* NULL

ASSUME NoneAssumption == None \notin Assignments /\ None \notin Inspectors

VARIABLES
    status,        \* garden_requests.status
    workflow,      \* operational_workflows.status
    linked,        \* garden_requests.property_id IS NOT NULL
    assign,        \* inspection_assignments.status, "none" for no such row
    inspector,     \* inspection_assignments.inspector_id
    report,        \* inspection_reports.assessment_status, or "none"
    author,        \* inspection_reports.inspector_id
    band,          \* inspection_reports.suitability_band, NULL is None
    evidence,      \* no gap in the report's checklist and required photos
    older,         \* older[a]: reports with submitted_at before that of a
    stage,         \* workflow_stages.status by stage_key
    current,       \* operational_workflows.current_stage
    install,       \* the property's installation: its status, or "none"
    batch,         \* crop_batches.status by crop, or "none"
    op,            \* PATCH handlers between their read and their write
    saves,         \* assessment saves between their read and their write
    closing,       \* preview submissions that have yet to close the visit
    bypassed       \* history: what the generic data route has written

inspectionVars == <<assign, inspector, report, author, band, evidence, older>>
gardenVars     == <<install, batch>>
stageVars      == <<stage, current, workflow>>
allVars == <<status, linked, inspectionVars, stageVars, gardenVars, op, saves,
             closing, bypassed>>

-----------------------------------------------------------------------------
(* The values of the columns.                                              *)

Lifecycle == INSTANCE GardenLifecycle
                 WITH status <- status, workflow <- workflow

Statuses == Lifecycle!Statuses

StageKeys == {"property_details", "preliminary_assessment", "inspector_visit",
              "site_score", "garden_recommendation", "approval",
              "installation", "crop_allocation", "maintenance_tasks"}

StageStatuses == {"not_started", "ready", "in_progress", "completed",
                  "rejected", "skipped"}

AssignStatuses == {"none", "pending", "in_progress", "completed", "failed",
                   "flagged"}

ReportStatuses == {"none", "draft", "submitted_for_approval", "approved",
                   "rejected"}

(* The band decides only whether an approval needs a written reason, so    *)
(* "suitable" also stands for "conditional".                               *)
Bands == {"suitable", "not_suitable"}

(* Statuses a PATCH may ask for; any other is refused by the handler.      *)
Targets == {"inspection_scheduled", "accepted", "rejected",
            "needing_implements", "live", "cancelled"}

Idle == [target |-> "idle", expected |-> "idle", report |-> None,
         assignment |-> None, reason |-> FALSE]

Updates == [target : Targets \cup {"idle"}, expected : Statuses \cup {"idle"},
            report : Assignments \cup {None},
            assignment : Assignments \cup {None}, reason : BOOLEAN]

TypeOK ==
    /\ status \in Statuses
    /\ workflow \in {"active", "cancelled"}
    /\ linked \in BOOLEAN
    /\ assign \in [Assignments -> AssignStatuses]
    /\ inspector \in [Assignments -> Inspectors \cup {None}]
    /\ report \in [Assignments -> ReportStatuses]
    /\ author \in [Assignments -> Inspectors \cup {None}]
    /\ band \in [Assignments -> Bands \cup {None}]
    /\ evidence \in [Assignments -> BOOLEAN]
    /\ older \in [Assignments -> SUBSET Assignments]
    /\ stage \in [StageKeys -> StageStatuses]
    /\ current \in StageKeys \cup {"resident_signup"}
    /\ install \in {"none", "planned", "active"}
    /\ batch \in [Crops -> {"none", "planned", "growing"}]
    /\ op \in [Admins -> Updates]
    /\ saves \subseteq Assignments \X Bands
    /\ closing \subseteq Assignments
    /\ bypassed \subseteq {"status", "visits"}

-----------------------------------------------------------------------------
(* Helpers.                                                                *)

Open == {a \in Assignments : assign[a] \in {"pending", "in_progress"}}

ReportsIn(s) == {a \in Assignments : report[a] = s}

(* latest_inspection_report: the newest by submitted_at among reports in   *)
(* the wanted state.                                                       *)
Latest(s) == {a \in ReportsIn(s) : ReportsIn(s) \ {a} \subseteq older[a]}

(* A report is given the newest submitted_at.                              *)
Resubmitted(a) == [b \in Assignments |-> IF b = a THEN Assignments \ {a}
                                                  ELSE older[b] \ {a}]

(* The report of a visit as SubmissionGate has it.                         *)
Gate(a) == INSTANCE SubmissionGate
    WITH report   <- IF report[a] \in {"approved", "rejected"} THEN "decided"
                                                             ELSE report[a],
         complete <- evidence[a]

Planted == {c \in Crops : batch[c] # "none"}

(* What the activation check wants of the garden itself.                   *)
ReadyToActivate == /\ ReportsIn("approved") # {}
                   /\ install = "active"
                   /\ Planted # {}
                   /\ \A c \in Planted : batch[c] = "growing"

(* sync_current_operational_workflow_stage: the workflow shows the stage   *)
(* touched last, until it is closed.                                       *)
Show(k) == current' = IF workflow = "active" THEN k ELSE current

(* The trigger readies the approval stage only if nothing has happened to  *)
(* it.  The faulty variant forgets that condition.                         *)
FaultyReadiesApproval(s) == s = "submitted_for_approval"

ReadiesApproval(s) ==
    s = "submitted_for_approval" /\ stage["approval"] = "not_started"

(* sync_inspection_to_operational_workflow: a report row was written with  *)
(* assessment_status s.  The trigger's last statement sets current_stage   *)
(* whether or not the workflow is closed.                                  *)
Synced(s) ==
    [k \in StageKeys |->
        IF k \in {"inspector_visit", "site_score"}
        THEN IF s = "submitted_for_approval" THEN "completed" ELSE "in_progress"
        ELSE IF s = "submitted_for_approval" /\ k = "garden_recommendation"
        THEN "completed"
        ELSE IF k = "approval" /\ ReadiesApproval(s) THEN "ready"
        ELSE stage[k]]

(* The faulty variant names a stage that was renamed.                      *)
FaultySyncedCurrent(s) ==
    IF s = "submitted_for_approval" THEN "approval" ELSE "site_visit"

SyncedCurrent(s) ==
    IF s = "submitted_for_approval" THEN "approval" ELSE "inspector_visit"

-----------------------------------------------------------------------------
(* A request is created with a property of the owner's or without one; the *)
(* second alternative is one whose first visit was entered through the     *)
(* generic data route before anybody scheduled it.  A request created with *)
(* a status of its own is this one after UpsertRequest: the insert seeds   *)
(* the same workflow and stages whatever the status.                       *)
Init ==
    /\ status = "submitted"
    /\ workflow = "active"
    /\ linked \in BOOLEAN
    /\ \/ /\ assign = [b \in Assignments |-> "none"]
          /\ inspector = [b \in Assignments |-> None]
       \/ /\ linked
          /\ \E a \in Assignments, i \in Inspectors :
               /\ assign = [b \in Assignments |->
                              IF b = a THEN "pending" ELSE "none"]
               /\ inspector = [b \in Assignments |-> IF b = a THEN i ELSE None]
    /\ report = [a \in Assignments |-> "none"]
    /\ author = [a \in Assignments |-> None]
    /\ band = [a \in Assignments |-> None]
    /\ evidence = [a \in Assignments |-> FALSE]
    /\ older = [a \in Assignments |-> {}]
    /\ stage = [k \in StageKeys |-> IF k = "property_details"
                                    THEN "in_progress" ELSE "not_started"]
    /\ current = "resident_signup"
    /\ install = "none"
    /\ batch = [c \in Crops |-> "none"]
    /\ op = [u \in Admins |-> Idle]
    /\ saves = {}
    /\ closing = {}
    /\ bypassed = {}

-----------------------------------------------------------------------------
(* The visit a schedule call works on: the one still open, or else a new   *)
(* row.  The faulty variant inserts a row on every call.                   *)
FaultyVisitToSchedule(a) == assign[a] = "none"

VisitToSchedule(a) == IF Open # {} THEN a \in Open ELSE assign[a] = "none"

(* Scheduling (schedule_garden_request_inspection): the first call makes   *)
(* and links the property, a repeated call finds the open assignment and   *)
(* gives it to inspector i.                                                *)
ScheduleInspection(i, a) ==
    /\ status \in {"submitted", "inspection_scheduled"}
    /\ VisitToSchedule(a)
    /\ assign' = [assign EXCEPT ![a] = IF @ = "none" THEN "pending" ELSE @]
    /\ inspector' = [inspector EXCEPT ![a] = i]
    /\ linked' = TRUE
    /\ status' = "inspection_scheduled"
    /\ stage' = [stage EXCEPT !["property_details"] = "completed",
                              !["preliminary_assessment"] = "completed",
                              !["inspector_visit"] = "in_progress"]
    /\ Show("inspector_visit")
    /\ UNCHANGED <<workflow, report, author, band, evidence, older, gardenVars,
                   op, saves, closing, bypassed>>

-----------------------------------------------------------------------------
(* The administrator's PATCH, read step (update_garden_request_status): the*)
(* handler reads the request and the rows its decision rests on, and       *)
(* remembers what it read.  The request row is read in one statement and   *)
(* the rest in later ones.  The endpoints never return a status to an      *)
(* earlier value, so a write that still finds the expected status would    *)
(* have read the same request row at the later statement, and one step     *)
(* stands for both.  Left out is a status that the data route writes away  *)
(* and back between the statements of one read: it could change only which *)
(* waiting report the handler goes on to name.                             *)
Begin(u, target, r, a, reason) ==
    /\ op[u] = Idle
    /\ op' = [op EXCEPT ![u] = [target |-> target, expected |-> status,
                                report |-> r, assignment |-> a,
                                reason |-> reason]]
    /\ UNCHANGED <<status, linked, inspectionVars, stageVars, gardenVars,
                   saves, closing, bypassed>>

BeginSchedule(u) ==
    /\ status = "submitted" /\ linked
    /\ \E a \in Open : Begin(u, "inspection_scheduled", None, a, FALSE)

(* A site that scored not_suitable needs a reason of 20 characters.        *)
BeginAccept(u, reason) ==
    /\ status = "inspection_scheduled" /\ linked
    /\ \E r \in Latest("submitted_for_approval") :
          /\ band[r] = "not_suitable" => reason
          /\ Begin(u, "accepted", r, None, reason)

(* A rejection also decides the assessment that is waiting, if there is    *)
(* one when the handler looks.                                             *)
BeginReject(u) ==
    /\ status \in {"submitted", "inspection_scheduled"}
    /\ LET waiting == Latest("submitted_for_approval")
       IN  IF status = "inspection_scheduled" /\ linked /\ waiting # {}
           THEN \E r \in waiting : Begin(u, "rejected", r, None, FALSE)
           ELSE Begin(u, "rejected", None, None, FALSE)

BeginImplements(u) ==
    status = "accepted" /\ Begin(u, "needing_implements", None, None, FALSE)

BeginLive(u) ==
    /\ status = "final_install" /\ linked /\ ReadyToActivate
    /\ Begin(u, "live", None, None, FALSE)

BeginCancel(u) ==
    /\ status \notin {"live", "rejected", "cancelled"}
    /\ Begin(u, "cancelled", None, None, FALSE)

(* The handler answers 409 or fails: its transaction, if it got that far,  *)
(* is rolled back.                                                         *)
Abandon(u) ==
    /\ op[u] # Idle
    /\ op' = [op EXCEPT ![u] = Idle]
    /\ UNCHANGED <<status, linked, inspectionVars, stageVars, gardenVars,
                   saves, closing, bypassed>>

-----------------------------------------------------------------------------
(* The PATCH, write step (update_garden_request_workflow).                 *)

(* The locked request row must still have the status the handler read.     *)
(* The faulty variant trusts the earlier read.                             *)
FaultyExpected(u, target) == op[u].target = target

Expected(u, target) == op[u].target = target /\ status = op[u].expected

(* The report decided on must still be waiting for a decision.  The faulty *)
(* variant trusts the earlier read.                                        *)
FaultyStillWaiting(r) == TRUE

StillWaiting(r) == report[r] = "submitted_for_approval"

Finish(u, target) ==
    /\ status' = target
    /\ op' = [op EXCEPT ![u] = Idle]
    /\ UNCHANGED <<linked, assign, inspector, author, band, evidence, older,
                   gardenVars, saves, closing, bypassed>>

CommitSchedule(u) ==
    /\ Expected(u, "inspection_scheduled")
    /\ op[u].assignment \in Open
    /\ stage' = [stage EXCEPT !["property_details"] = "completed",
                              !["preliminary_assessment"] = "completed",
                              !["inspector_visit"] = "in_progress"]
    /\ Show("inspector_visit")
    /\ UNCHANGED <<report, workflow>>
    /\ Finish(u, "inspection_scheduled")

(* Writing the report's assessment_status fires the inspection trigger     *)
(* before the stages of the decision are written.                          *)
CommitAccept(u) ==
    /\ Expected(u, "accepted")
    /\ StillWaiting(op[u].report)
    /\ report' = [report EXCEPT ![op[u].report] = "approved"]
    /\ stage' = [Synced("approved") EXCEPT !["approval"] = "completed",
                                           !["installation"] = "ready"]
    /\ current' = IF workflow = "active" THEN "installation"
                                         ELSE SyncedCurrent("approved")
    /\ UNCHANGED workflow
    /\ Finish(u, "accepted")

CommitReject(u) ==
    /\ Expected(u, "rejected")
    /\ IF op[u].report = None
       THEN /\ UNCHANGED report
            /\ stage' = [stage EXCEPT !["approval"] = "rejected"]
       ELSE /\ StillWaiting(op[u].report)
            /\ report' = [report EXCEPT ![op[u].report] = "rejected"]
            /\ stage' = [Synced("rejected") EXCEPT !["approval"] = "rejected"]
    /\ current' = IF workflow = "active" THEN "approval"
                  ELSE IF op[u].report = None THEN current
                  ELSE SyncedCurrent("rejected")
    /\ workflow' = "cancelled"
    /\ Finish(u, "rejected")

CommitImplements(u) ==
    /\ Expected(u, "needing_implements")
    /\ stage' = [stage EXCEPT !["installation"] = "in_progress"]
    /\ Show("installation")
    /\ UNCHANGED <<report, workflow>>
    /\ Finish(u, "needing_implements")

(* Activation reads everything it needs again, under row locks.  The       *)
(* faulty variant trusts the earlier reads.                                *)
FaultyCommitLive(u) ==
    /\ Expected(u, "live")
    /\ UNCHANGED <<report, stageVars>>
    /\ Finish(u, "live")

CommitLive(u) ==
    /\ Expected(u, "live")
    /\ linked /\ ReadyToActivate
    /\ UNCHANGED <<report, stageVars>>
    /\ Finish(u, "live")

(* The evidence decision = "cancelled" makes the stage trigger close the   *)
(* workflow.                                                               *)
CommitCancel(u) ==
    /\ Expected(u, "cancelled")
    /\ stage' = [stage EXCEPT !["approval"] = "skipped"]
    /\ Show("approval")
    /\ workflow' = "cancelled"
    /\ UNCHANGED report
    /\ Finish(u, "cancelled")

-----------------------------------------------------------------------------
(* Installation, allocation and planting.  Their handlers repeat in the    *)
(* transaction every check they make before it, so each is one step.       *)

(* complete_garden_installation: the property's installation is created or *)
(* taken over, and becomes active with its date.                           *)
CompleteInstallation ==
    /\ status = "needing_implements" /\ linked
    /\ ReportsIn("approved") # {}
    /\ install' = "active"
    /\ status' = "implements_installed"
    /\ stage' = [stage EXCEPT !["installation"] = "completed",
                              !["crop_allocation"] = "ready"]
    /\ Show("crop_allocation")
    /\ UNCHANGED <<workflow, linked, inspectionVars, batch, op, saves, closing,
                   bypassed>>

(* complete_garden_allocation: recommended crops without a batch get one.  *)
CompleteAllocation(chosen) ==
    /\ status = "implements_installed" /\ linked
    /\ ReportsIn("approved") # {}
    /\ install = "active"
    /\ batch' = [c \in Crops |-> IF c \in chosen /\ batch[c] = "none"
                                 THEN "planned" ELSE batch[c]]
    /\ status' = "seeds"
    /\ stage' = [stage EXCEPT !["crop_allocation"] = "completed",
                              !["maintenance_tasks"] = "ready"]
    /\ Show("maintenance_tasks")
    /\ UNCHANGED <<workflow, linked, inspectionVars, install, op, saves,
                   closing, bypassed>>

(* complete_garden_planting: every batch of the installation starts growing*)
CompletePlanting ==
    /\ status = "seeds" /\ linked
    /\ install = "active"
    /\ Planted # {}
    /\ batch' = [c \in Crops |-> IF c \in Planted THEN "growing" ELSE batch[c]]
    /\ status' = "final_install"
    /\ stage' = [stage EXCEPT !["maintenance_tasks"] = "in_progress"]
    /\ Show("maintenance_tasks")
    /\ UNCHANGED <<workflow, linked, inspectionVars, install, op, saves,
                   closing, bypassed>>

(* The generic data route lets the resident add an installation row, set   *)
(* it back to planned (upsert) or delete it with its batches, but never    *)
(* mark it active.  Bound: one installation row for the property.          *)
EditInstallation(s) ==
    /\ s \in {"none", "planned"}
    /\ linked
    /\ install' = s
    /\ batch' = IF s = "none" THEN [c \in Crops |-> "none"] ELSE batch
    /\ UNCHANGED <<status, linked, inspectionVars, stageVars, op, saves,
                   closing, bypassed>>

-----------------------------------------------------------------------------
(* The inspector.                                                          *)

(* start_inspection_report: the assigned inspector opens the visit; the    *)
(* report is created once and a finished visit stays finished.             *)
StartReport(i, a) ==
    /\ assign[a] # "none" /\ inspector[a] = i
    /\ IF report[a] = "none"
       THEN /\ report' = [report EXCEPT ![a] = "draft"]
            /\ author' = [author EXCEPT ![a] = i]
       ELSE UNCHANGED <<report, author>>
    /\ assign' = [assign EXCEPT ![a] = IF a \in Open THEN "in_progress" ELSE @]
    /\ UNCHANGED <<status, linked, inspector, band, evidence, older, stageVars,
                   gardenVars, op, saves, closing, bypassed>>

(* Checklist answers and photos are written whatever the report's status   *)
(* is; an answer can be taken back.                                        *)
RecordEvidence(a) ==
    /\ report[a] # "none"
    /\ \E complete \in BOOLEAN :
          evidence' = [evidence EXCEPT ![a] = complete]
    /\ UNCHANGED <<status, linked, assign, inspector, report, author, band,
                   older, stageVars, gardenVars, op, saves, closing, bypassed>>

(* save_assessment, read step: the report must not be awaiting approval.   *)
BeginSave(a, b) ==
    /\ report[a] \notin {"none", "submitted_for_approval"}
    /\ saves' = saves \cup {<<a, b>>}
    /\ UNCHANGED <<status, linked, inspectionVars, stageVars, gardenVars, op,
                   closing, bypassed>>

(* save_assessment, write step: the update names only the report's id.     *)
CommitSave(a, b) ==
    /\ <<a, b>> \in saves
    /\ saves' = saves \ {<<a, b>>}
    /\ report' = [report EXCEPT ![a] = "draft"]
    /\ band' = [band EXCEPT ![a] = b]
    /\ stage' = Synced("draft")
    /\ current' = SyncedCurrent("draft")
    /\ UNCHANGED <<status, workflow, linked, assign, inspector, author,
                   evidence, older, gardenVars, op, closing, bypassed>>

(* submit_inspection_for_approval: repeats the handler's checks under row  *)
(* locks and finishes the visit in the same transaction.  The faulty       *)
(* variant of a check relies on the handler's own look at the evidence.    *)
FaultySubmittable(a) ==
    /\ report[a] \notin {"none", "submitted_for_approval"}
    /\ inspector[a] = author[a]

Submittable(a) ==
    /\ report[a] \notin {"none", "submitted_for_approval"}
    /\ inspector[a] = author[a]
    /\ evidence[a]

SubmitForApproval(a, b) ==
    /\ Submittable(a)
    /\ report' = [report EXCEPT ![a] = "submitted_for_approval"]
    /\ band' = [band EXCEPT ![a] = b]
    /\ older' = Resubmitted(a)
    /\ assign' = [assign EXCEPT ![a] = "completed"]
    /\ stage' = Synced("submitted_for_approval")
    /\ current' = SyncedCurrent("submitted_for_approval")
    /\ UNCHANGED <<status, workflow, linked, inspector, author, evidence,
                   gardenVars, op, saves, closing, bypassed>>

(* submit_report for an administrator previewing as the inspector: two     *)
(* updates, the first of which stamps submitted_at and leaves the          *)
(* assessment alone, the second of which closes the visit.                 *)
PreviewSubmit(a) ==
    /\ report[a] # "none"
    /\ older' = Resubmitted(a)
    /\ closing' = closing \cup {a}
    /\ UNCHANGED <<status, linked, assign, inspector, report, author, band,
                   evidence, stageVars, gardenVars, op, saves, bypassed>>

PreviewClose(a, s) ==
    /\ a \in closing
    /\ closing' = closing \ {a}
    /\ assign' = [assign EXCEPT ![a] = s]
    /\ UNCHANGED <<status, linked, inspector, report, author, band, evidence,
                   older, stageVars, gardenVars, op, saves, bypassed>>

-----------------------------------------------------------------------------
(* The generic data route past the workflow (mutate_data).                 *)

(* A status in the payload is refused of an update, not of an upsert: the  *)
(* gateway's INSERT ... ON CONFLICT DO UPDATE, for which no row-level      *)
(* security is in force, writes it.  No trigger runs, so the stages, the   *)
(* workflow and the reports stay as they are.                              *)
UpsertRequest(s) ==
    /\ s # status
    /\ status' = s
    /\ bypassed' = bypassed \cup {"status"}
    /\ UNCHANGED <<linked, inspectionVars, stageVars, gardenVars, op, saves,
                   closing>>

(* An administrator may insert a visit, or give an existing one another    *)
(* inspector or status, without scheduling.  Left out: deleting visits,    *)
(* properties or requests, which takes their rows away, and giving the     *)
(* request another property.                                               *)
EditVisit(i, a, s) ==
    /\ linked
    /\ assign' = [assign EXCEPT ![a] = s]
    /\ inspector' = [inspector EXCEPT ![a] = i]
    /\ bypassed' = bypassed \cup {"visits"}
    /\ UNCHANGED <<status, linked, report, author, band, evidence, older,
                   stageVars, gardenVars, op, saves, closing>>

-----------------------------------------------------------------------------
BeginUpdate(u) ==
    \/ BeginSchedule(u)
    \/ \E reason \in BOOLEAN : BeginAccept(u, reason)
    \/ BeginReject(u)
    \/ BeginImplements(u)
    \/ BeginLive(u)
    \/ BeginCancel(u)

CommitUpdate(u) ==
    \/ CommitSchedule(u)
    \/ CommitAccept(u)
    \/ CommitReject(u)
    \/ CommitImplements(u)
    \/ CommitLive(u)
    \/ CommitCancel(u)

Deliver ==
    \/ CompleteInstallation
    \/ \E chosen \in SUBSET Crops \ {{}} : CompleteAllocation(chosen)
    \/ CompletePlanting
    \/ \E s \in {"none", "planned"} : EditInstallation(s)

Inspect(a) ==
    \/ \E i \in Inspectors : ScheduleInspection(i, a) \/ StartReport(i, a)
    \/ RecordEvidence(a)
    \/ \E b \in Bands : BeginSave(a, b) \/ CommitSave(a, b)
                        \/ SubmitForApproval(a, b)
    \/ PreviewSubmit(a)
    \/ \E s \in {"completed", "failed", "flagged"} : PreviewClose(a, s)

(* The writes past the workflow, and those of them that change the status. *)
Written == \E s \in Statuses : UpsertRequest(s)

Bypass ==
    \/ Written
    \/ \E i \in Inspectors, a \in Assignments, s \in AssignStatuses \ {"none"} :
          EditVisit(i, a, s)

Next ==
    \/ \E u \in Admins : BeginUpdate(u) \/ CommitUpdate(u) \/ Abandon(u)
    \/ Deliver
    \/ \E a \in Assignments : Inspect(a)
    \/ Bypass

Spec == Init /\ [][Next]_allVars

-----------------------------------------------------------------------------
(* Properties.                                                             *)

Accepted  == {"accepted", "needing_implements", "implements_installed",
              "seeds", "final_install", "live"}
Installed == {"implements_installed", "seeds", "final_install", "live"}
Allocated == {"seeds", "final_install", "live"}
Growing   == {"final_install", "live"}

(* The stages the resident is shown tell the same story as the request     *)
(* (the transactions of postgres_gateway.py write both, and the report     *)
(* trigger writes some of the same rows), as long as the data route has    *)
(* not written the status without them: an approval stage is completed     *)
(* exactly from acceptance on, rejected or skipped with the request, and   *)
(* installation, crop allocation and maintenance move with it.             *)
ApprovalStageAgrees ==
    /\ status \in {"submitted", "inspection_scheduled"} =>
         stage["approval"] \in {"not_started", "ready"}
    /\ status \in Accepted => stage["approval"] = "completed"
    /\ status = "rejected" => stage["approval"] = "rejected"
    /\ status = "cancelled" => stage["approval"] = "skipped"

DeliveryStagesAgree ==
    status # "cancelled" =>
      /\ stage["installation"] =
           (CASE status = "accepted" -> "ready"
              [] status = "needing_implements" -> "in_progress"
              [] status \in Installed -> "completed"
              [] OTHER -> "not_started")
      /\ stage["crop_allocation"] =
           (CASE status = "implements_installed" -> "ready"
              [] status \in Allocated -> "completed"
              [] OTHER -> "not_started")
      /\ stage["maintenance_tasks"] =
           (CASE status = "seeds" -> "ready"
              [] status \in Growing -> "in_progress"
              [] OTHER -> "not_started")

StagesAgree ==
    "status" \notin bypassed => ApprovalStageAgrees /\ DeliveryStagesAgree

(* An assessment is approved only with the request, and rejected only with *)
(* it: while the endpoints alone write the status, no interleaving of two  *)
(* administrators and an inspector leaves an approved assessment on an     *)
(* undecided or rejected request, or a rejected one on an accepted request.*)
DecisionsAgree ==
    "status" \notin bypassed =>
      \A a \in Assignments :
        /\ report[a] = "approved" => status \in Accepted \cup {"cancelled"}
        /\ report[a] = "rejected" => status = "rejected"

(* Retried and concurrent scheduling never opens a second visit, whatever  *)
(* the data route made of the status, and once an assessment has been      *)
(* submitted its visit is no longer open, so the next schedule starts a    *)
(* new one instead of reusing it.  The visits that an administrator enters *)
(* past the scheduling are not looked up first.                            *)
OneOpenVisit ==
    "visits" \notin bypassed =>
      /\ \A a, b \in Open : a = b
      /\ \A a \in Assignments :
            report[a] \in {"submitted_for_approval", "approved", "rejected"}
              => a \notin Open

(* A request becomes accepted only in the step that turns one assessment   *)
(* from waiting to approved, or by the one write that passes the workflow: *)
(* no endpoint, whatever the data route wrote before it, accepts without.  *)
AcceptGate ==
    [][status' = "accepted" /\ status # "accepted" =>
         \/ \E a \in Assignments :
               /\ report[a] = "submitted_for_approval"
               /\ report' = [report EXCEPT ![a] = "approved"]
         \/ Written
      ]_allVars

(* A garden goes live only in a state where the assessment is approved, an *)
(* installation is active and everything planted is growing, though the    *)
(* resident can remove the installation, the inspector can reopen the      *)
(* assessment and the data route can write the status after the handler    *)
(* looked; the exception is again the data route's own write.              *)
ActivationGate ==
    [][status' = "live" /\ status # "live" => ReadyToActivate \/ Written
      ]_allVars

(* The request and its workflow follow the pipeline of GardenLifecycle:    *)
(* every step is one step of it, none, or the data route's write of the    *)
(* status; after such a write the endpoints still move along its edges.    *)
FollowsLifecycle ==
    /\ Lifecycle!Init
    /\ [][Lifecycle!Next \/ UNCHANGED Lifecycle!vars \/ Written]_allVars

(* Each visit's report keeps the promise of SubmissionGate, which is what  *)
(* this module knows of the evidence: it comes before the administrator    *)
(* complete and once, and the PATCH decides it only there.                 *)
FollowsGate ==
    /\ \A a \in Assignments : Gate(a)!Init
    /\ [][\A a \in Assignments : UNCHANGED Gate(a)!vars \/ Gate(a)!Next]_allVars

-----------------------------------------------------------------------------
(* What the sources say of the program and the code does not keep.         *)

(* An assessment that is awaiting approval cannot be edited                *)
(* (app/routers/inspections.py:520-521 refuses a save with "This assessment*)
(* is awaiting approval"): no save puts it back into a draft.              *)
PendingAssessmentLocked ==
    [][\A a \in Assignments : report[a] = "submitted_for_approval"
                              => report'[a] # "draft"]_allVars

(* A site whose score is not_suitable is approved only with a written      *)
(* reason (app/routers/gardens.py:271-279).                                *)
RationaleForUnsuitable ==
    [][\A a \in Assignments :
          /\ report[a] = "submitted_for_approval" /\ report'[a] = "approved"
          /\ band[a] = "not_suitable"
          => \E u \in Admins : op[u] # Idle /\ op'[u] = Idle /\ op[u].reason
      ]_allVars

(* "Request status changes must use the guarded workflow endpoint."        *)
(* (app/routers/data.py:189-194, which refuses a status in an update): the *)
(* status changes only by a move of the pipeline.                          *)
StatusGuarded == [][Lifecycle!Next]_status
=============================================================================
