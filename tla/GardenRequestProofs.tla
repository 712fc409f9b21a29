------------------------- MODULE GardenRequestProofs -------------------------
(* Proofs about GardenRequest, for every number of administrators,         *)
(* inspectors, visits and crops.                                           *)
EXTENDS GardenRequest, TLAPS

(* What the inspection trigger leaves in the stages and in current_stage   *)
(* are values of those columns.                                            *)
LEMMA SyncedType ==
  ASSUME TypeOK, NEW s
  PROVE  /\ Synced(s) \in [StageKeys -> StageStatuses]
         /\ SyncedCurrent(s) \in StageKeys
BY DEF TypeOK, Synced, SyncedCurrent, StageKeys, StageStatuses

(* An action that only touches some variables keeps the types of the rest: *)
(* the read step of a PATCH touches op alone.                              *)
LEMMA BeginType ==
  ASSUME TypeOK, NEW u \in Admins, NEW target \in Targets,
         NEW r \in Assignments \cup {None}, NEW a \in Assignments \cup {None},
         NEW reason \in BOOLEAN, Begin(u, target, r, a, reason)
  PROVE  TypeOK'
<1>1. [target |-> target, expected |-> status, report |-> r,
       assignment |-> a, reason |-> reason] \in Updates
  BY DEF TypeOK, Updates
<1>2. op' \in [Admins -> Updates]
  BY <1>1 DEF TypeOK, Begin
<1> QED
  BY <1>2 DEF TypeOK, Begin, inspectionVars, stageVars, gardenVars

LEMMA FinishType ==
  ASSUME TypeOK, NEW u \in Admins, NEW target \in Statuses,
         Finish(u, target),
         report' \in [Assignments -> ReportStatuses],
         stage' \in [StageKeys -> StageStatuses],
         current' \in StageKeys \cup {"resident_signup"},
         workflow' \in {"active", "cancelled"}
  PROVE  TypeOK'
<1>1. op' \in [Admins -> Updates]
  BY DEF TypeOK, Finish, Updates, Idle
<1> QED
  BY <1>1 DEF TypeOK, Finish, gardenVars

LEMMA TypeInit == Init => TypeOK
<1> SUFFICES ASSUME Init PROVE TypeOK
  OBVIOUS
<1>1. op \in [Admins -> Updates]
  BY DEF Init, Updates, Idle
<1>2. assign \in [Assignments -> AssignStatuses]
  BY DEF Init, AssignStatuses
<1>3. inspector \in [Assignments -> Inspectors \cup {None}]
  BY DEF Init
<1> QED
  BY <1>1, <1>2, <1>3 DEF Init, TypeOK, Statuses, Lifecycle!Statuses,
       ReportStatuses, StageKeys, StageStatuses

(* No step of a handler, of a transaction or of a trigger writes a value   *)
(* its column cannot hold.                                                 *)
LEMMA TypeStep ==
  ASSUME TypeOK, Next
  PROVE  TypeOK'
<1> USE DEF inspectionVars, stageVars, gardenVars
<1>1. ASSUME NEW u \in Admins, BeginUpdate(u) PROVE TypeOK'
  <2>1. CASE BeginSchedule(u)
    BY <2>1, BeginType DEF BeginSchedule, Targets, Open
  <2>2. ASSUME NEW reason \in BOOLEAN, BeginAccept(u, reason) PROVE TypeOK'
    BY <2>2, BeginType DEF BeginAccept, Targets, Latest, ReportsIn
  <2>3. CASE BeginReject(u)
    BY <2>3, BeginType DEF BeginReject, Targets, Latest, ReportsIn
  <2>4. CASE BeginImplements(u)
    BY <2>4, BeginType DEF BeginImplements, Targets
  <2>5. CASE BeginLive(u)
    BY <2>5, BeginType DEF BeginLive, Targets
  <2>6. CASE BeginCancel(u)
    BY <2>6, BeginType DEF BeginCancel, Targets
  <2> QED
    BY <1>1, <2>1, <2>2, <2>3, <2>4, <2>5, <2>6 DEF BeginUpdate
<1>2. ASSUME NEW u \in Admins, CommitUpdate(u) PROVE TypeOK'
  <2> USE DEF TypeOK
  <2>1. {"inspection_scheduled", "accepted", "rejected", "live",
         "needing_implements", "cancelled"} \subseteq Statuses
    BY DEF Statuses, Lifecycle!Statuses
  <2>2. CASE CommitSchedule(u)
    BY <2>1, <2>2, FinishType
       DEF CommitSchedule, Show, StageKeys, StageStatuses
  <2>3. CASE CommitAccept(u)
    BY <2>1, <2>3, FinishType, SyncedType
       DEF CommitAccept, StageKeys, StageStatuses, ReportStatuses
  <2>4. CASE CommitReject(u)
    BY <2>1, <2>4, FinishType, SyncedType
       DEF CommitReject, StageKeys, StageStatuses, ReportStatuses
  <2>5. CASE CommitImplements(u)
    BY <2>1, <2>5, FinishType
       DEF CommitImplements, Show, StageKeys, StageStatuses
  <2>6. CASE CommitLive(u)
    BY <2>1, <2>6, FinishType DEF CommitLive
  <2>7. CASE CommitCancel(u)
    BY <2>1, <2>7, FinishType
       DEF CommitCancel, Show, StageKeys, StageStatuses
  <2> QED
    BY <1>2, <2>2, <2>3, <2>4, <2>5, <2>6, <2>7 DEF CommitUpdate
<1>3. ASSUME NEW u \in Admins, Abandon(u) PROVE TypeOK'
  BY <1>3 DEF TypeOK, Abandon, Idle, Updates
<1>4. ASSUME Deliver PROVE TypeOK'
  <2> USE DEF TypeOK, Show, StageKeys, StageStatuses
  <2>1. {"implements_installed", "seeds", "final_install"} \subseteq Statuses
    BY DEF Statuses, Lifecycle!Statuses
  <2>2. CASE CompleteInstallation
    BY <2>1, <2>2 DEF CompleteInstallation
  <2>3. ASSUME NEW chosen \in SUBSET Crops, CompleteAllocation(chosen)
        PROVE  TypeOK'
    BY <2>1, <2>3 DEF CompleteAllocation
  <2>4. CASE CompletePlanting
    BY <2>1, <2>4 DEF CompletePlanting
  <2>5. ASSUME NEW s \in {"none", "planned"}, EditInstallation(s)
        PROVE  TypeOK'
    BY <2>5 DEF EditInstallation
  <2> QED
    BY <1>4, <2>2, <2>3, <2>4, <2>5 DEF Deliver
<1>5. ASSUME NEW a \in Assignments, Inspect(a) PROVE TypeOK'
  <2>1. ASSUME NEW i \in Inspectors, ScheduleInspection(i, a) PROVE TypeOK'
    BY <2>1 DEF TypeOK, ScheduleInspection, Show, AssignStatuses, StageKeys,
                StageStatuses, Statuses, Lifecycle!Statuses
  <2>2. ASSUME NEW i \in Inspectors, StartReport(i, a) PROVE TypeOK'
    BY <2>2 DEF TypeOK, StartReport, AssignStatuses, ReportStatuses
  <2>3. CASE RecordEvidence(a)
    BY <2>3 DEF TypeOK, RecordEvidence
  <2>4. ASSUME NEW b \in Bands, BeginSave(a, b) PROVE TypeOK'
    BY <2>4 DEF TypeOK, BeginSave
  <2>5. ASSUME NEW b \in Bands, CommitSave(a, b) PROVE TypeOK'
    BY <2>5, SyncedType DEF TypeOK, CommitSave, ReportStatuses
  <2>6. ASSUME NEW b \in Bands, SubmitForApproval(a, b) PROVE TypeOK'
    BY <2>6, SyncedType DEF TypeOK, SubmitForApproval, ReportStatuses,
                AssignStatuses, Resubmitted
  <2>7. CASE PreviewSubmit(a)
    BY <2>7 DEF TypeOK, PreviewSubmit, Resubmitted
  <2>8. ASSUME NEW s \in {"completed", "failed", "flagged"},
               PreviewClose(a, s)
        PROVE  TypeOK'
    BY <2>8 DEF TypeOK, PreviewClose, AssignStatuses
  <2> QED
    BY <1>5, <2>1, <2>2, <2>3, <2>4, <2>5, <2>6, <2>7, <2>8 DEF Inspect
<1>6. ASSUME Bypass PROVE TypeOK'
  <2>1. ASSUME NEW s \in Statuses, UpsertRequest(s) PROVE TypeOK'
    BY <2>1 DEF TypeOK, UpsertRequest
  <2>2. ASSUME NEW i \in Inspectors, NEW a \in Assignments,
               NEW s \in AssignStatuses, EditVisit(i, a, s)
        PROVE  TypeOK'
    BY <2>2 DEF TypeOK, EditVisit
  <2> QED
    BY <1>6, <2>1, <2>2 DEF Bypass, Written
<1> QED
  BY <1>1, <1>2, <1>3, <1>4, <1>5, <1>6 DEF Next

-----------------------------------------------------------------------------
(* The inductive invariant.                                                *)

(* A PATCH in flight remembers a status from which its target may be       *)
(* reached, and an acceptance a report.                                    *)
ReadsAgree ==
    \A u \in Admins :
        /\ op[u].target = "inspection_scheduled" =>
             op[u].expected = "submitted"
        /\ op[u].target = "accepted" =>
             /\ op[u].expected = "inspection_scheduled"
             /\ op[u].report \in Assignments
        /\ op[u].target = "rejected" =>
             op[u].expected \in Lifecycle!Undecided
        /\ op[u].target = "needing_implements" => op[u].expected = "accepted"
        /\ op[u].target = "live" => op[u].expected = "final_install"
        /\ op[u].target = "cancelled" =>
             op[u].expected \notin Lifecycle!Terminal

(* The workflow is closed exactly when the endpoints closed the request.   *)
WorkflowCloses ==
    "status" \notin bypassed =>
      (workflow = "cancelled" <=> status \in {"rejected", "cancelled"})

(* A report, a save and a preview belong to a visit that exists.           *)
VisitsExist ==
    \A a \in Assignments :
        /\ report[a] # "none" => assign[a] # "none"
        /\ a \in closing => report[a] # "none"
        /\ \A b \in Bands : <<a, b>> \in saves => report[a] # "none"

IInv == /\ TypeOK
        /\ ReadsAgree
        /\ WorkflowCloses
        /\ StagesAgree
        /\ DecisionsAgree
        /\ VisitsExist
        /\ OneOpenVisit

(* A step that changes nothing the invariant speaks of but the reads.      *)
Quiet == UNCHANGED <<status, linked, workflow, stage, assign, report, bypassed>>

(* What the administrator's raw write of a visit leaves alone.             *)
VisitEdited == /\ UNCHANGED <<status, linked, workflow, stage, report>>
               /\ bypassed' = bypassed \cup {"visits"}

(* The steps of GardenRequest, the quiet ones taken together.              *)
LEMMA NextCases ==
  ASSUME TypeOK, Next
  PROVE  \/ Quiet
         \/ \E u \in Admins : CommitUpdate(u)
         \/ CompleteInstallation
         \/ \E chosen \in SUBSET Crops : CompleteAllocation(chosen)
         \/ CompletePlanting
         \/ \E a \in Assignments :
              \/ \E i \in Inspectors :
                    ScheduleInspection(i, a) \/ StartReport(i, a)
              \/ \E b \in Bands : CommitSave(a, b) \/ SubmitForApproval(a, b)
              \/ \E s \in {"completed", "failed", "flagged"} : PreviewClose(a, s)
         \/ Written
         \/ VisitEdited
<1> USE DEF inspectionVars, stageVars, gardenVars, Quiet
<1>1. ASSUME NEW u \in Admins, BeginUpdate(u) PROVE Quiet
  BY <1>1 DEF BeginUpdate, BeginSchedule, BeginAccept, BeginReject,
       BeginImplements, BeginLive, BeginCancel, Begin
<1>2. ASSUME NEW u \in Admins, Abandon(u) PROVE Quiet
  BY <1>2 DEF Abandon
<1>3. ASSUME NEW s \in {"none", "planned"}, EditInstallation(s) PROVE Quiet
  BY <1>3 DEF EditInstallation
<1>4. ASSUME NEW a \in Assignments, RecordEvidence(a) PROVE Quiet
  BY <1>4 DEF RecordEvidence
<1>5. ASSUME NEW a \in Assignments, NEW b \in Bands, BeginSave(a, b)
      PROVE  Quiet
  BY <1>5 DEF BeginSave
<1>6. ASSUME NEW a \in Assignments, PreviewSubmit(a) PROVE Quiet
  BY <1>6 DEF PreviewSubmit
<1>7. Deliver => \/ CompleteInstallation
                 \/ \E chosen \in SUBSET Crops : CompleteAllocation(chosen)
                 \/ CompletePlanting
                 \/ \E s \in {"none", "planned"} : EditInstallation(s)
  BY DEF Deliver
<1>8. Bypass => Written \/ VisitEdited
  BY DEF Bypass, EditVisit, VisitEdited
<1> QED
  BY <1>1, <1>2, <1>3, <1>4, <1>5, <1>6, <1>7, <1>8 DEF Next, Inspect

(* Every other step leaves the history as it is.                           *)
LEMMA OnlyBypass ==
  ASSUME TypeOK, Next
  PROVE  Written \/ VisitEdited \/ UNCHANGED bypassed
<1>1. ASSUME NEW u \in Admins, CommitUpdate(u) PROVE UNCHANGED bypassed
  BY <1>1 DEF CommitUpdate, CommitSchedule, CommitAccept, CommitReject,
     CommitImplements, CommitLive, CommitCancel, Finish
<1>2. CASE \/ CompleteInstallation
           \/ \E chosen \in SUBSET Crops : CompleteAllocation(chosen)
           \/ CompletePlanting
  BY <1>2 DEF CompleteInstallation, CompleteAllocation, CompletePlanting
<1>3. ASSUME NEW a \in Assignments,
             \/ \E i \in Inspectors : ScheduleInspection(i, a) \/ StartReport(i, a)
             \/ \E b \in Bands : CommitSave(a, b) \/ SubmitForApproval(a, b)
             \/ \E s \in {"completed", "failed", "flagged"} : PreviewClose(a, s)
      PROVE  UNCHANGED bypassed
  BY <1>3 DEF ScheduleInspection, StartReport, CommitSave, SubmitForApproval,
     PreviewClose
<1>4. Quiet => UNCHANGED bypassed
  BY DEF Quiet
<1> QED
  BY <1>1, <1>2, <1>3, <1>4, NextCases

(* A status, or visits, that the data route has not written after a step,  *)
(* it had not written before it, nor in it.                                *)
LEMMA StatusStaysGuarded ==
  ASSUME TypeOK, Next, "status" \notin bypassed'
  PROVE  "status" \notin bypassed /\ ~Written
BY OnlyBypass DEF Written, UpsertRequest, VisitEdited

LEMMA VisitsStayGuarded ==
  ASSUME TypeOK, Next, "visits" \notin bypassed'
  PROVE  "visits" \notin bypassed /\ ~VisitEdited
BY OnlyBypass DEF Written, UpsertRequest, VisitEdited

(* Only a PATCH writes op: it remembers what it reads, and forgets it when *)
(* it is done.                                                             *)
LEMMA ReadsStep ==
  ASSUME TypeOK, ReadsAgree, Next
  PROVE  ReadsAgree'
<1> USE DEF ReadsAgree, inspectionVars, stageVars, gardenVars
<1>1. ASSUME NEW u \in Admins, NEW target, NEW r, NEW a, NEW reason,
             Begin(u, target, r, a, reason),
             target = "inspection_scheduled" => status = "submitted",
             target = "accepted" => /\ status = "inspection_scheduled"
                                    /\ r \in Assignments,
             target = "rejected" => status \in Lifecycle!Undecided,
             target = "needing_implements" => status = "accepted",
             target = "live" => status = "final_install",
             target = "cancelled" => status \notin Lifecycle!Terminal
      PROVE  ReadsAgree'
  BY <1>1 DEF Begin, TypeOK
<1>2. ASSUME NEW u \in Admins, BeginUpdate(u) PROVE ReadsAgree'
  <2>1. CASE BeginSchedule(u)
    BY <2>1, <1>1 DEF BeginSchedule
  <2>2. ASSUME NEW reason \in BOOLEAN, BeginAccept(u, reason)
        PROVE  ReadsAgree'
    BY <2>2, <1>1 DEF BeginAccept, Latest, ReportsIn
  <2>3. CASE BeginReject(u)
    BY <2>3, <1>1 DEF BeginReject, Lifecycle!Undecided
  <2>4. CASE BeginImplements(u)
    BY <2>4, <1>1 DEF BeginImplements
  <2>5. CASE BeginLive(u)
    BY <2>5, <1>1 DEF BeginLive
  <2>6. CASE BeginCancel(u)
    BY <2>6, <1>1 DEF BeginCancel, Lifecycle!Terminal
  <2> QED
    BY <1>2, <2>1, <2>2, <2>3, <2>4, <2>5, <2>6 DEF BeginUpdate
<1>3. ASSUME NEW u \in Admins, op' = [op EXCEPT ![u] = Idle]
      PROVE  ReadsAgree'
  BY <1>3 DEF Idle, TypeOK
<1>4. ASSUME NEW u \in Admins, CommitUpdate(u) \/ Abandon(u)
      PROVE  op' = [op EXCEPT ![u] = Idle]
  BY <1>4 DEF CommitUpdate, CommitSchedule, CommitAccept, CommitReject,
       CommitImplements, CommitLive, CommitCancel, Finish, Abandon
<1>5. Deliver => UNCHANGED op
  BY DEF Deliver, CompleteInstallation, CompleteAllocation, CompletePlanting,
         EditInstallation
<1>6. ASSUME NEW a \in Assignments, Inspect(a) PROVE UNCHANGED op
  BY <1>6 DEF Inspect, ScheduleInspection, StartReport, RecordEvidence,
       BeginSave, CommitSave, SubmitForApproval, PreviewSubmit, PreviewClose
<1>7. Bypass => UNCHANGED op
  BY DEF Bypass, Written, UpsertRequest, EditVisit
<1> QED
  BY <1>2, <1>3, <1>4, <1>5, <1>6, <1>7 DEF Next

(* Every step of the request is a step of GardenLifecycle, leaves its two  *)
(* variables alone, or is the data route's write of the status.  The       *)
(* status a PATCH remembers is what makes its write a step of the pipeline,*)
(* whoever wrote the one it finds.                                         *)
LEMMA LifecycleStep ==
  ASSUME TypeOK, ReadsAgree, Next
  PROVE  Lifecycle!Next \/ UNCHANGED <<status, workflow>> \/ Written
<1> USE DEF Lifecycle!Next, Lifecycle!Advance, Lifecycle!Reject,
            Lifecycle!Cancel, Lifecycle!Forward, stageVars
<1>1. CASE Quiet
  BY <1>1 DEF Quiet
<1>2. ASSUME NEW u \in Admins, CommitUpdate(u)
      PROVE  Lifecycle!Next
  <2> USE DEF Expected, Finish, ReadsAgree
  <2>1. CASE CommitSchedule(u)
    BY <2>1 DEF CommitSchedule
  <2>2. CASE CommitAccept(u)
    BY <2>2 DEF CommitAccept
  <2>3. CASE CommitReject(u)
    BY <2>3 DEF CommitReject
  <2>4. CASE CommitImplements(u)
    BY <2>4 DEF CommitImplements
  <2>5. CASE CommitLive(u)
    BY <2>5 DEF CommitLive
  <2>6. CASE CommitCancel(u)
    BY <2>6 DEF CommitCancel
  <2> QED
    BY <1>2, <2>1, <2>2, <2>3, <2>4, <2>5, <2>6 DEF CommitUpdate
<1>3. CASE CompleteInstallation
  BY <1>3 DEF CompleteInstallation
<1>4. ASSUME NEW chosen \in SUBSET Crops, CompleteAllocation(chosen)
      PROVE  Lifecycle!Next
  BY <1>4 DEF CompleteAllocation
<1>5. CASE CompletePlanting
  BY <1>5 DEF CompletePlanting
<1>6. ASSUME NEW a \in Assignments, NEW i \in Inspectors,
             ScheduleInspection(i, a)
      PROVE  Lifecycle!Next \/ UNCHANGED <<status, workflow>>
  BY <1>6 DEF ScheduleInspection
<1>7. ASSUME NEW a \in Assignments,
             \/ \E i \in Inspectors : StartReport(i, a)
             \/ \E b \in Bands : CommitSave(a, b) \/ SubmitForApproval(a, b)
             \/ \E s \in {"completed", "failed", "flagged"} : PreviewClose(a, s)
      PROVE  UNCHANGED <<status, workflow>>
  BY <1>7 DEF StartReport, CommitSave, SubmitForApproval, PreviewClose
<1>8. VisitEdited => UNCHANGED <<status, workflow>>
  BY DEF VisitEdited
<1> QED
  BY <1>1, <1>2, <1>3, <1>4, <1>5, <1>6, <1>7, <1>8, NextCases

(* Closing the workflow is part of the step that ends the request.         *)
LEMMA WorkflowStep ==
  ASSUME TypeOK, ReadsAgree, WorkflowCloses, Next
  PROVE  WorkflowCloses'
BY LifecycleStep, StatusStaysGuarded
   DEF WorkflowCloses, TypeOK, Lifecycle!Next, Lifecycle!Advance,
       Lifecycle!Reject, Lifecycle!Cancel, Lifecycle!Forward,
       Lifecycle!Undecided, Lifecycle!Terminal

(* The stages follow the request.  The trigger that runs on a report may   *)
(* ready the approval stage, but only of a request nothing was decided on. *)
LEMMA SyncedStages ==
  ASSUME TypeOK, NEW s
  PROVE  /\ \A k \in {"installation", "crop_allocation", "maintenance_tasks"} :
              Synced(s)[k] = stage[k]
         /\ \/ Synced(s)["approval"] = stage["approval"]
            \/ /\ stage["approval"] = "not_started"
               /\ Synced(s)["approval"] = "ready"
BY DEF TypeOK, Synced, ReadiesApproval, StageKeys

LEMMA StagesStep ==
  ASSUME TypeOK, ReadsAgree, StagesAgree, Next
  PROVE  StagesAgree'
<1> DEFINE Agree == ApprovalStageAgrees /\ DeliveryStagesAgree
<1> SUFFICES ASSUME "status" \notin bypassed' PROVE Agree'
  BY DEF StagesAgree
<1>0. Agree /\ ~Written
  BY StatusStaysGuarded DEF StagesAgree
<1> USE <1>0 DEF ApprovalStageAgrees, DeliveryStagesAgree, Accepted, Installed,
            Allocated, Growing, stageVars, gardenVars, inspectionVars
<1>1. CASE Quiet
  BY <1>1 DEF Quiet
<1>2. ASSUME NEW u \in Admins, CommitUpdate(u) PROVE Agree'
  <2> USE DEF Expected, Finish, ReadsAgree, TypeOK, StageKeys
  <2>1. CASE CommitSchedule(u)
    BY <2>1 DEF CommitSchedule
  <2>2. CASE CommitAccept(u)
    BY <2>2, SyncedStages, SyncedType DEF CommitAccept
  <2>3. CASE CommitReject(u)
    <3>1. status \in Lifecycle!Undecided /\ status' = "rejected"
      BY <2>3 DEF CommitReject
    <3>2. stage'["approval"] = "rejected"
      BY <2>3, SyncedType DEF CommitReject
    <3>3. \A k \in {"installation", "crop_allocation", "maintenance_tasks"} :
            stage'[k] = stage[k]
      BY <2>3, SyncedStages, SyncedType DEF CommitReject
    <3> QED
      BY <3>1, <3>2, <3>3 DEF Lifecycle!Undecided
  <2>4. CASE CommitImplements(u)
    BY <2>4 DEF CommitImplements
  <2>5. CASE CommitLive(u)
    BY <2>5 DEF CommitLive
  <2>6. CASE CommitCancel(u)
    BY <2>6 DEF CommitCancel
  <2> QED
    BY <1>2, <2>1, <2>2, <2>3, <2>4, <2>5, <2>6 DEF CommitUpdate
<1>3. CASE CompleteInstallation
  BY <1>3 DEF CompleteInstallation, TypeOK, StageKeys
<1>4. ASSUME NEW chosen \in SUBSET Crops, CompleteAllocation(chosen)
      PROVE  Agree'
  BY <1>4 DEF CompleteAllocation, TypeOK, StageKeys
<1>5. CASE CompletePlanting
  BY <1>5 DEF CompletePlanting, TypeOK, StageKeys
<1>6. ASSUME NEW a \in Assignments, NEW i \in Inspectors,
             ScheduleInspection(i, a)
      PROVE  Agree'
  BY <1>6 DEF ScheduleInspection, TypeOK, StageKeys
<1>7. ASSUME NEW a \in Assignments, NEW b \in Bands,
             CommitSave(a, b) \/ SubmitForApproval(a, b)
      PROVE  Agree'
  <2>1. PICK s \in ReportStatuses : stage' = Synced(s) /\ UNCHANGED status
    BY <1>7 DEF CommitSave, SubmitForApproval, ReportStatuses
  <2>2. \A k \in {"installation", "crop_allocation", "maintenance_tasks"} :
           stage'[k] = stage[k]
    BY <2>1, SyncedStages
  <2>3. \/ stage'["approval"] = stage["approval"]
        \/ stage["approval"] = "not_started" /\ stage'["approval"] = "ready"
    BY <2>1, SyncedStages
  <2> QED
    BY <2>1, <2>2, <2>3 DEF TypeOK, Statuses, Lifecycle!Statuses
<1>8. ASSUME NEW a \in Assignments,
             \/ \E i \in Inspectors : StartReport(i, a)
             \/ \E s \in {"completed", "failed", "flagged"} : PreviewClose(a, s)
      PROVE  UNCHANGED <<status, stage>>
  BY <1>8 DEF StartReport, PreviewClose
<1>9. VisitEdited => UNCHANGED <<status, stage>>
  BY DEF VisitEdited
<1> QED
  BY <1>1, <1>2, <1>3, <1>4, <1>5, <1>6, <1>7, <1>8, <1>9, NextCases

(* An assessment is decided only by the PATCH that decides the request.    *)
LEMMA DecisionsStep ==
  ASSUME TypeOK, ReadsAgree, DecisionsAgree, Next
  PROVE  DecisionsAgree'
<1> DEFINE Agree == \A a \in Assignments :
                      /\ report[a] = "approved" =>
                           status \in Accepted \cup {"cancelled"}
                      /\ report[a] = "rejected" => status = "rejected"
<1> SUFFICES ASSUME "status" \notin bypassed' PROVE Agree'
  BY DEF DecisionsAgree
<1>0. Agree /\ ~Written
  BY StatusStaysGuarded DEF DecisionsAgree
<1> USE <1>0 DEF Accepted, stageVars, gardenVars, inspectionVars
<1>1. CASE Quiet
  BY <1>1 DEF Quiet
<1>2. ASSUME NEW u \in Admins, CommitUpdate(u) PROVE Agree'
  <2> USE DEF Expected, Finish, ReadsAgree, TypeOK
  <2>1. CASE CommitSchedule(u)
    BY <2>1 DEF CommitSchedule
  <2>2. CASE CommitAccept(u)
    BY <2>2 DEF CommitAccept
  <2>3. CASE CommitReject(u)
    BY <2>3 DEF CommitReject, Lifecycle!Undecided
  <2>4. CASE CommitImplements(u)
    BY <2>4 DEF CommitImplements
  <2>5. CASE CommitLive(u)
    BY <2>5 DEF CommitLive
  <2>6. CASE CommitCancel(u)
    BY <2>6 DEF CommitCancel, Lifecycle!Terminal
  <2> QED
    BY <1>2, <2>1, <2>2, <2>3, <2>4, <2>5, <2>6 DEF CommitUpdate
<1>3. CompleteInstallation => Agree'
  BY DEF CompleteInstallation
<1>4. ASSUME NEW chosen \in SUBSET Crops, CompleteAllocation(chosen)
      PROVE  Agree'
  BY <1>4 DEF CompleteAllocation
<1>5. CompletePlanting => Agree'
  BY DEF CompletePlanting
<1>6. ASSUME NEW a \in Assignments, NEW i \in Inspectors,
             ScheduleInspection(i, a)
      PROVE  Agree'
  BY <1>6 DEF ScheduleInspection
<1>7. ASSUME NEW a \in Assignments,
             \/ \E i \in Inspectors : StartReport(i, a)
             \/ \E b \in Bands : CommitSave(a, b) \/ SubmitForApproval(a, b)
      PROVE  /\ UNCHANGED status
             /\ \A c \in Assignments :
                   \/ report'[c] = report[c]
                   \/ report'[c] \in {"draft", "submitted_for_approval"}
  BY <1>7 DEF StartReport, CommitSave, SubmitForApproval, TypeOK
<1>8. ASSUME NEW a \in Assignments,
             NEW s \in {"completed", "failed", "flagged"}, PreviewClose(a, s)
      PROVE  UNCHANGED <<status, report>>
  BY <1>8 DEF PreviewClose
<1>9. VisitEdited => UNCHANGED <<status, report>>
  BY DEF VisitEdited
<1> QED
  BY <1>1, <1>2, <1>3, <1>4, <1>5, <1>6, <1>7, <1>8, <1>9, NextCases

(* A visit that has a report, and a report that is being saved or          *)
(* previewed, do not disappear.                                            *)
LEMMA VisitsStep ==
  ASSUME TypeOK, VisitsExist, Next
  PROVE  VisitsExist'
<1> USE DEF VisitsExist, stageVars, gardenVars, inspectionVars
<1>1. ASSUME NEW u \in Admins, BeginUpdate(u) \/ Abandon(u)
      PROVE  VisitsExist'
  BY <1>1 DEF BeginUpdate, BeginSchedule, BeginAccept, BeginReject,
       BeginImplements, BeginLive, BeginCancel, Begin, Abandon
<1>2. ASSUME NEW u \in Admins, CommitUpdate(u) PROVE VisitsExist'
  <2>1. UNCHANGED <<assign, closing, saves>>
    BY <1>2 DEF CommitUpdate, CommitSchedule, CommitAccept, CommitReject,
         CommitImplements, CommitLive, CommitCancel, Finish
  <2>2. \A a \in Assignments :
           \/ report'[a] = report[a]
           \/ report[a] # "none" /\ report'[a] # "none"
    BY <1>2 DEF CommitUpdate, CommitSchedule, CommitAccept, CommitReject,
         CommitImplements, CommitLive, CommitCancel, StillWaiting, TypeOK
  <2> QED
    BY <2>1, <2>2
<1>3. CASE Deliver
  BY <1>3 DEF Deliver, CompleteInstallation, CompleteAllocation,
       CompletePlanting, EditInstallation
<1>4. ASSUME NEW a \in Assignments, Inspect(a) PROVE VisitsExist'
  <2>1. ASSUME NEW i \in Inspectors, ScheduleInspection(i, a)
        PROVE  VisitsExist'
    BY <2>1 DEF ScheduleInspection, TypeOK
  <2>2. ASSUME NEW i \in Inspectors, StartReport(i, a) PROVE VisitsExist'
    BY <2>2 DEF StartReport, TypeOK
  <2>3. CASE RecordEvidence(a)
    BY <2>3 DEF RecordEvidence
  <2>4. ASSUME NEW b \in Bands, BeginSave(a, b) PROVE VisitsExist'
    BY <2>4 DEF BeginSave
  <2>5. ASSUME NEW b \in Bands, CommitSave(a, b) PROVE VisitsExist'
    BY <2>5 DEF CommitSave, TypeOK
  <2>6. ASSUME NEW b \in Bands, SubmitForApproval(a, b) PROVE VisitsExist'
    BY <2>6 DEF SubmitForApproval, TypeOK
  <2>7. CASE PreviewSubmit(a)
    BY <2>7 DEF PreviewSubmit
  <2>8. ASSUME NEW s \in {"completed", "failed", "flagged"},
               PreviewClose(a, s)
        PROVE  VisitsExist'
    BY <2>8 DEF PreviewClose, TypeOK
  <2> QED
    BY <1>4, <2>1, <2>2, <2>3, <2>4, <2>5, <2>6, <2>7, <2>8 DEF Inspect
<1>5. CASE Bypass
  BY <1>5 DEF Bypass, Written, UpsertRequest, EditVisit, TypeOK
<1> QED
  BY <1>1, <1>2, <1>3, <1>4, <1>5 DEF Next

(* A visit opens only when none is open, and a visit whose assessment was  *)
(* submitted is never opened again.                                        *)
LEMMA OpenVisitStep ==
  ASSUME TypeOK, VisitsExist, OneOpenVisit, Next
  PROVE  OneOpenVisit'
<1> DEFINE One == /\ \A a, b \in Open : a = b
                  /\ \A a \in Assignments :
                        report[a] \in {"submitted_for_approval", "approved",
                                      "rejected"} => a \notin Open
<1> SUFFICES ASSUME "visits" \notin bypassed' PROVE One'
  BY DEF OneOpenVisit
<1>0. One /\ ~VisitEdited
  BY VisitsStayGuarded DEF OneOpenVisit
<1> USE <1>0 DEF Open, TypeOK, stageVars, gardenVars, inspectionVars
<1>1. CASE Quiet
  BY <1>1 DEF Quiet
<1>2. ASSUME NEW u \in Admins, CommitUpdate(u) PROVE One'
  <2>1. UNCHANGED assign
    BY <1>2 DEF CommitUpdate, CommitSchedule, CommitAccept, CommitReject,
         CommitImplements, CommitLive, CommitCancel, Finish
  <2>2. \A a \in Assignments :
           report'[a] = report[a] \/ report[a] = "submitted_for_approval"
    BY <1>2 DEF CommitUpdate, CommitSchedule, CommitAccept, CommitReject,
         CommitImplements, CommitLive, CommitCancel, StillWaiting
  <2> QED
    BY <2>1, <2>2
<1>3. CASE CompleteInstallation
  BY <1>3 DEF CompleteInstallation
<1>4. ASSUME NEW chosen \in SUBSET Crops, CompleteAllocation(chosen)
      PROVE  One'
  BY <1>4 DEF CompleteAllocation
<1>5. CASE CompletePlanting
  BY <1>5 DEF CompletePlanting
<1>6. ASSUME NEW a \in Assignments, NEW i \in Inspectors,
             ScheduleInspection(i, a)
      PROVE  One'
  <2>1. CASE Open # {}
    BY <1>6, <2>1 DEF ScheduleInspection, VisitToSchedule
  <2>2. CASE Open = {}
    <3>1. assign[a] = "none" /\ assign' = [assign EXCEPT ![a] = "pending"]
      BY <1>6, <2>2 DEF ScheduleInspection, VisitToSchedule
    <3>2. report[a] = "none"
      BY <3>1 DEF VisitsExist
    <3>3. UNCHANGED report
      BY <1>6 DEF ScheduleInspection
    <3> QED
      BY <2>2, <3>1, <3>2, <3>3
  <2> QED
    BY <2>1, <2>2
<1>7. ASSUME NEW a \in Assignments, NEW i \in Inspectors, StartReport(i, a)
      PROVE  One'
  BY <1>7 DEF StartReport
<1>8. ASSUME NEW a \in Assignments, NEW b \in Bands, CommitSave(a, b)
      PROVE  One'
  BY <1>8 DEF CommitSave
<1>9. ASSUME NEW a \in Assignments, NEW b \in Bands, SubmitForApproval(a, b)
      PROVE  One'
  BY <1>9 DEF SubmitForApproval
<1>10. ASSUME NEW a \in Assignments,
              NEW s \in {"completed", "failed", "flagged"}, PreviewClose(a, s)
       PROVE  One'
  BY <1>10 DEF PreviewClose
<1>11. Written => UNCHANGED <<assign, report>>
  BY DEF Written, UpsertRequest
<1> QED
  BY <1>1, <1>2, <1>3, <1>4, <1>5, <1>6, <1>7, <1>8, <1>9, <1>10, <1>11,
     NextCases

-----------------------------------------------------------------------------
(* The theorems.                                                           *)

LEMMA InitInvariant == Init => IInv
<1> SUFFICES ASSUME Init PROVE IInv
  OBVIOUS
<1>1. TypeOK
  BY TypeInit
<1>2. ReadsAgree
  BY DEF Init, ReadsAgree, Idle
<1>3. WorkflowCloses /\ StagesAgree /\ DecisionsAgree
  BY DEF Init, WorkflowCloses, StagesAgree, ApprovalStageAgrees,
     DeliveryStagesAgree, DecisionsAgree, StageKeys, Accepted, Installed,
     Allocated, Growing
<1>4. VisitsExist
  BY DEF Init, VisitsExist
<1>5. OneOpenVisit
  BY DEF Init, OneOpenVisit, Open
<1> QED
  BY <1>1, <1>2, <1>3, <1>4, <1>5 DEF IInv

LEMMA StepInvariant == IInv /\ [Next]_allVars => IInv'
<1>1. ASSUME IInv, UNCHANGED allVars PROVE IInv'
  BY <1>1 DEF IInv, allVars, inspectionVars, stageVars, gardenVars, TypeOK,
     ReadsAgree, WorkflowCloses, StagesAgree, ApprovalStageAgrees,
     DeliveryStagesAgree, DecisionsAgree, VisitsExist, OneOpenVisit, Open
<1>2. ASSUME IInv, Next PROVE IInv'
  BY <1>2, TypeStep, ReadsStep, WorkflowStep, StagesStep, DecisionsStep,
     VisitsStep, OpenVisitStep DEF IInv
<1> QED
  BY <1>1, <1>2

LEMMA Invariant == Spec => []IInv
BY InitInvariant, StepInvariant, PTL DEF Spec

(* The types are kept: no step of a handler, of a transaction or of a      *)
(* trigger writes a value a column cannot hold.                            *)
THEOREM TypeCorrect == Spec => []TypeOK
<1>1. IInv => TypeOK
  BY DEF IInv
<1> QED
  BY <1>1, Invariant, PTL

(* Until the data route writes the status, the stages the resident sees    *)
(* agree with the request, whatever the interleaving of administrators and *)
(* inspectors.                                                             *)
THEOREM StagesCorrect == Spec => []StagesAgree
<1>1. IInv => StagesAgree
  BY DEF IInv
<1> QED
  BY <1>1, Invariant, PTL

(* Until then the decisions on the request and on its assessments agree.   *)
THEOREM DecisionsCorrect == Spec => []DecisionsAgree
<1>1. IInv => DecisionsAgree
  BY DEF IInv
<1> QED
  BY <1>1, Invariant, PTL

(* Until visits are entered past the scheduling, at most one is open, and  *)
(* never one that was submitted.                                           *)
THEOREM VisitsCorrect == Spec => []OneOpenVisit
<1>1. IInv => OneOpenVisit
  BY DEF IInv
<1> QED
  BY <1>1, Invariant, PTL

(* Acceptance approves exactly one waiting assessment, unless it is the    *)
(* data route's write of the status.                                       *)
THEOREM AcceptCorrect == Spec => AcceptGate
<1>1. ASSUME IInv, Next, status' = "accepted", status # "accepted", ~Written
      PROVE  \E a \in Assignments :
                /\ report[a] = "submitted_for_approval"
                /\ report' = [report EXCEPT ![a] = "approved"]
  <2>1. PICK u \in Admins : CommitAccept(u)
    <3>1. TypeOK
      BY <1>1 DEF IInv
    <3>2. ~Quiet
      BY <1>1 DEF Quiet
    <3>3. \A u \in Admins : CommitUpdate(u) => CommitAccept(u)
      BY <1>1 DEF CommitUpdate, CommitSchedule, CommitReject, CommitImplements,
           CommitLive, CommitCancel, Finish
    <3>4. ~CompleteInstallation /\ ~CompletePlanting
      BY <1>1 DEF CompleteInstallation, CompletePlanting
    <3>5. \A chosen \in SUBSET Crops : ~CompleteAllocation(chosen)
      BY <1>1 DEF CompleteAllocation
    <3>6. \A a \in Assignments :
            /\ \A i \in Inspectors :
                 ~ScheduleInspection(i, a) /\ ~StartReport(i, a)
            /\ \A b \in Bands : ~CommitSave(a, b) /\ ~SubmitForApproval(a, b)
            /\ \A s \in {"completed", "failed", "flagged"} :
                 ~PreviewClose(a, s)
      BY <1>1 DEF ScheduleInspection, StartReport, CommitSave,
           SubmitForApproval, PreviewClose
    <3>7. ~VisitEdited
      BY <1>1 DEF VisitEdited
    <3> QED
      BY <1>1, <3>1, <3>2, <3>3, <3>4, <3>5, <3>6, <3>7, NextCases
  <2> QED
    BY <1>1, <2>1 DEF CommitAccept, Expected, StillWaiting, IInv, ReadsAgree
<1>2. IInv /\ [Next]_allVars =>
        [status' = "accepted" /\ status # "accepted" =>
           \/ \E a \in Assignments :
                 /\ report[a] = "submitted_for_approval"
                 /\ report' = [report EXCEPT ![a] = "approved"]
           \/ Written]_allVars
  BY <1>1
<1> QED
  BY <1>2, Invariant, PTL DEF Spec, AcceptGate

(* A garden goes live only with everything activation asks for in place at *)
(* that very step, unless the step is the data route's write of the status.*)
THEOREM ActivationCorrect == Spec => ActivationGate
<1>1. ASSUME IInv, Next, status' = "live", status # "live", ~Written
      PROVE  ReadyToActivate
  <2>1. TypeOK
    BY <1>1 DEF IInv
  <2>2. ~Quiet
    BY <1>1 DEF Quiet
  <2>3. \A u \in Admins : CommitUpdate(u) => ReadyToActivate
    BY <1>1 DEF CommitUpdate, CommitSchedule, CommitAccept, CommitReject,
         CommitImplements, CommitLive, CommitCancel, Finish
  <2>4. ~CompleteInstallation /\ ~CompletePlanting
    BY <1>1 DEF CompleteInstallation, CompletePlanting
  <2>5. \A chosen \in SUBSET Crops : ~CompleteAllocation(chosen)
    BY <1>1 DEF CompleteAllocation
  <2>6. \A a \in Assignments :
          /\ \A i \in Inspectors :
               ~ScheduleInspection(i, a) /\ ~StartReport(i, a)
          /\ \A b \in Bands : ~CommitSave(a, b) /\ ~SubmitForApproval(a, b)
          /\ \A s \in {"completed", "failed", "flagged"} : ~PreviewClose(a, s)
    BY <1>1 DEF ScheduleInspection, StartReport, CommitSave,
         SubmitForApproval, PreviewClose
  <2>7. ~VisitEdited
    BY <1>1 DEF VisitEdited
  <2> QED
    BY <1>1, <2>1, <2>2, <2>3, <2>4, <2>5, <2>6, <2>7, NextCases
<1>2. IInv /\ [Next]_allVars =>
        [status' = "live" /\ status # "live" =>
           ReadyToActivate \/ Written]_allVars
  BY <1>1
<1> QED
  BY <1>2, Invariant, PTL DEF Spec, ActivationGate

(* A step that leaves a report as it is may change its evidence, if there  *)
(* is a report.                                                            *)
LEMMA GateStep ==
  ASSUME IInv, Next, NEW a \in Assignments
  PROVE  UNCHANGED Gate(a)!vars \/ Gate(a)!Next
<1> DEFINE Goal == UNCHANGED Gate(a)!vars \/ Gate(a)!Next
<1> USE DEF Gate!vars, Gate!Next, stageVars, gardenVars, inspectionVars
<1>0. TypeOK /\ VisitsExist
  BY DEF IInv
<1>1. report'[a] = report[a] /\ evidence'[a] = evidence[a] => Goal
  OBVIOUS
<1>2. ASSUME NEW u \in Admins, BeginUpdate(u) \/ Abandon(u)
      PROVE  Goal
  BY <1>1, <1>2 DEF BeginUpdate, BeginSchedule, BeginAccept, BeginReject,
     BeginImplements, BeginLive, BeginCancel, Begin, Abandon
<1>3. ASSUME NEW u \in Admins, CommitUpdate(u)
      PROVE  Goal
  <2>1. \/ UNCHANGED report
        \/ \E r \in Assignments, s \in {"approved", "rejected"} :
             /\ report[r] = "submitted_for_approval"
             /\ report' = [report EXCEPT ![r] = s]
    <3>1. CASE CommitAccept(u)
      BY <1>0, <3>1 DEF CommitAccept, StillWaiting, Expected, IInv, ReadsAgree
    <3>2. CASE CommitReject(u)
      BY <1>0, <3>2 DEF CommitReject, StillWaiting, TypeOK, Updates
    <3>3. CASE ~CommitAccept(u) /\ ~CommitReject(u)
      BY <1>3, <3>3 DEF CommitUpdate, CommitSchedule, CommitImplements,
         CommitLive, CommitCancel
    <3> QED
      BY <3>1, <3>2, <3>3
  <2>2. UNCHANGED evidence
    BY <1>3 DEF CommitUpdate, CommitSchedule, CommitAccept, CommitReject,
       CommitImplements, CommitLive, CommitCancel, Finish
  <2> QED
    BY <1>0, <1>1, <2>1, <2>2 DEF Gate!Decide, TypeOK
<1>4. ASSUME Deliver PROVE Goal
  BY <1>1, <1>4 DEF Deliver, CompleteInstallation, CompleteAllocation,
     CompletePlanting, EditInstallation
<1>5. ASSUME NEW v \in Assignments, Inspect(v)
      PROVE  Goal
  <2>1. ASSUME NEW i \in Inspectors, ScheduleInspection(i, v) PROVE Goal
    BY <1>1, <2>1 DEF ScheduleInspection
  <2>2. ASSUME NEW i \in Inspectors, StartReport(i, v) PROVE Goal
    BY <1>0, <1>1, <2>2 DEF StartReport, TypeOK, Gate!Open
  <2>3. CASE RecordEvidence(v)
    BY <1>0, <1>1, <2>3 DEF RecordEvidence, TypeOK, Gate!Collect
  <2>4. ASSUME NEW b \in Bands, BeginSave(v, b) PROVE Goal
    BY <1>1, <2>4 DEF BeginSave
  <2>5. ASSUME NEW b \in Bands, CommitSave(v, b) PROVE Goal
    BY <1>0, <1>1, <2>5 DEF CommitSave, VisitsExist, TypeOK, Gate!Revise
  <2>6. ASSUME NEW b \in Bands, SubmitForApproval(v, b) PROVE Goal
    BY <1>0, <1>1, <2>6
       DEF SubmitForApproval, Submittable, TypeOK, Gate!Submit
  <2>7. CASE PreviewSubmit(v)
    BY <1>1, <2>7 DEF PreviewSubmit
  <2>8. ASSUME NEW s \in {"completed", "failed", "flagged"}, PreviewClose(v, s)
        PROVE  Goal
    BY <1>1, <2>8 DEF PreviewClose
  <2> QED
    BY <1>5, <2>1, <2>2, <2>3, <2>4, <2>5, <2>6, <2>7, <2>8 DEF Inspect
<1>6. ASSUME Bypass PROVE Goal
  BY <1>1, <1>6 DEF Bypass, Written, UpsertRequest, EditVisit
<1> HIDE DEF Goal
<1>7. Goal
  BY <1>2, <1>3, <1>4, <1>5, <1>6 DEF Next
<1> QED
  BY <1>7 DEF Goal

(* Each visit's report implements SubmissionGate, with the Boolean evidence*)
(* for the question whether it is complete.                                *)
THEOREM ImplementsGate == Spec => FollowsGate
<1>1. Init => \A a \in Assignments : Gate(a)!Init
  BY DEF Init, Gate!Init
<1>2. IInv /\ [Next]_allVars =>
        [\A a \in Assignments :
            UNCHANGED Gate(a)!vars \/ Gate(a)!Next]_allVars
  BY GateStep
<1> QED
  BY <1>1, <1>2, Invariant, PTL DEF Spec, FollowsGate

(* The request with its transactions, triggers and stale reads follows the *)
(* pipeline of GardenLifecycle, but for the data route's writes.           *)
THEOREM Implements == Spec => FollowsLifecycle
<1>1. Init => Lifecycle!Init
  BY DEF Init, Lifecycle!Init
<1>2. IInv /\ [Next]_allVars =>
        [Lifecycle!Next \/ UNCHANGED Lifecycle!vars \/ Written]_allVars
  BY LifecycleStep DEF IInv, Lifecycle!vars
<1> QED
  BY <1>1, <1>2, Invariant, PTL DEF Spec, FollowsLifecycle
=============================================================================
