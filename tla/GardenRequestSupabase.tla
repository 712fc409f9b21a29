------------------------ MODULE GardenRequestSupabase ------------------------
(***************************************************************************)
(* The garden request on the compatibility deployment (SupabaseGateway).   *)
(*                                                                         *)
(* There are no transactions: every read and every write of a handler is   *)
(* an HTTP call and a database transaction of its own, with the triggers   *)
(* it fires.  A handler is therefore a sequence of steps (variable op for  *)
(* the administrators, calls for the inspector), other handlers run        *)
(* between them, and a call may fail, or may be carried out although its   *)
(* answer is lost (supabase_gateway.py turns a time-out into an error).    *)
(* A failed approval is compensated by writing the old status back.        *)
(*                                                                         *)
(* One property with one visit: which of several visits counts is the      *)
(* subject of GardenRequest.  Left out besides what GardenRequest leaves   *)
(* out: the score, the evidence, the stages of the visit and its score,    *)
(* current_stage, activity logs and mails, which no statement here tests.  *)
(***************************************************************************)
CONSTANTS
    Admins,        \* concurrent administrator requests
    Crops          \* crops the approved assessment recommends

VARIABLES
    status,     \* garden_requests.status
    workflow,   \* operational_workflows.status
    visit,      \* inspection_assignments.status, "none" for no such row
    report,     \* inspection_reports.assessment_status, or "none"
    stage,      \* workflow_stages.status of the stages in StageKeys
    install,    \* the property's installation: its status, or "none"
    batch,      \* crop_batches.status by crop, or "none"
    op,         \* administrators' handlers between two of their calls
    calls,      \* inspectors' handlers between two of their calls
    past        \* the worst that has happened so far, see Pasts

gardenVars == <<install, batch>>
rows == <<status, workflow, visit, report, stage, gardenVars>>
vars == <<rows, op, calls, past>>

-----------------------------------------------------------------------------
(* The values of the columns.                                              *)

Lifecycle == INSTANCE GardenLifecycle
                 WITH status <- status, workflow <- workflow

Statuses == Lifecycle!Statuses

StageKeys == {"approval", "installation", "crop_allocation",
              "maintenance_tasks"}

StageStatuses == {"not_started", "ready", "in_progress", "completed",
                  "rejected", "skipped"}

VisitStatuses == {"none", "pending", "in_progress", "completed", "failed",
                  "flagged"}

ReportStatuses == {"none", "draft", "submitted_for_approval", "approved",
                   "rejected"}

(* Every administrator's handler is named by the status it writes.         *)
Targets == Statuses \ {"submitted"}

(* The calls a handler still has to make, in their order: rows of the      *)
(* garden, the request's status, the report's decision, the first and the  *)
(* second workflow stage.  "restore" is the compensation, "gone" the status*)
(* write of an installation whose row was deleted under the handler.       *)
Phases == {"garden", "gone", "status", "report", "restore", "first", "second"}

Idle == [target |-> "idle", expected |-> "idle", phase |-> "idle",
         decides |-> FALSE, todo |-> {}]

Handlers == [target : Targets, expected : Statuses, phase : Phases,
             decides : BOOLEAN, todo : SUBSET Crops]

(* The inspector's second writes: a save or a submission that passed its   *)
(* check, and the status a visit is about to be given.                     *)
Calls == {"save", "submit"} \cup (VisitStatuses \ {"none", "pending"})

(* No two administrators' handlers overlapped, or some did; a call failed  *)
(* and was not carried out, the server stopped or the resident edited the  *)
(* installation; a call was carried out and its answer lost; the status was*)
(* written past the handlers, by apply_inspection_request_decision through *)
(* the RPC route or by the data route.                                     *)
Pasts == {"alone", "together", "disturbed", "lost", "decided"}

TypeOK ==
    /\ status \in Statuses
    /\ workflow \in {"active", "cancelled"}
    /\ visit \in VisitStatuses
    /\ report \in ReportStatuses
    /\ stage \in [StageKeys -> StageStatuses]
    /\ install \in {"none", "planned", "active"}
    /\ batch \in [Crops -> {"none", "planned", "growing"}]
    /\ op \in [Admins -> Handlers \cup {Idle}]
    /\ calls \subseteq Calls
    /\ past \in Pasts

-----------------------------------------------------------------------------
(* Helpers.                                                                *)

Planted == {c \in Crops : batch[c] # "none"}

Milder == [together  |-> {"alone"},
           disturbed |-> {"alone", "together"},
           lost      |-> {"alone", "together", "disturbed"},
           decided   |-> Pasts]

Happens(p) == past' = IF past \in Milder[p] THEN p ELSE past

(* What the activation handler wants to read.                              *)
ReadyToActivate == /\ report = "approved"
                   /\ install = "active"
                   /\ Planted # {}
                   /\ \A c \in Planted : batch[c] = "growing"

(* The stages a handler writes after the request, as key and status.       *)
FirstStage ==
    [accepted             |-> <<"approval", "completed">>,
     rejected             |-> <<"approval", "rejected">>,
     cancelled            |-> <<"approval", "skipped">>,
     needing_implements   |-> <<"installation", "in_progress">>,
     implements_installed |-> <<"installation", "completed">>,
     seeds                |-> <<"crop_allocation", "completed">>,
     final_install        |-> <<"maintenance_tasks", "in_progress">>]

SecondStage ==
    [accepted             |-> <<"installation", "ready">>,
     implements_installed |-> <<"crop_allocation", "ready">>,
     seeds                |-> <<"maintenance_tasks", "ready">>]

(* The rest of a handler from a phase on, skipping what it does not have.  *)
FromSecond(o) ==
    IF o.target \in DOMAIN SecondStage THEN [o EXCEPT !.phase = "second"]
                                       ELSE Idle

FromFirst(o) ==
    IF o.target \in DOMAIN FirstStage THEN [o EXCEPT !.phase = "first"]
                                      ELSE Idle

FromReport(o) ==
    IF o.decides THEN [o EXCEPT !.phase = "report"] ELSE FromFirst(o)

(* What follows a call that was answered, and what follows one that was    *)
(* not: only the approval's update of the report has an error path that    *)
(* writes.                                                                 *)
Proceed(o) ==
    CASE o.phase = "garden"  -> IF o.todo = {} THEN [o EXCEPT !.phase = "status"]
                                               ELSE o
      [] o.phase = "status"  -> FromReport(o)
      [] o.phase = "report"  -> FromFirst(o)
      [] o.phase = "first"   -> FromSecond(o)
      [] OTHER               -> Idle

OnError(o) ==
    IF o.target = "accepted" /\ o.phase = "report"
    THEN [o EXCEPT !.phase = "restore"] ELSE Idle

(* sync_inspection_to_operational_workflow, of which the approval stage is *)
(* kept: a report was written with assessment_status s.  The faulty variant*)
(* readies the stage whatever happened to it.                              *)
FaultySynced(s) ==
    IF s = "submitted_for_approval" THEN [stage EXCEPT !["approval"] = "ready"]
                                    ELSE stage

Synced(s) ==
    IF s = "submitted_for_approval" /\ stage["approval"] = "not_started"
    THEN [stage EXCEPT !["approval"] = "ready"] ELSE stage

-----------------------------------------------------------------------------
(* A request just submitted, which its owner's insert may give a status of *)
(* its own; the trigger seeds the workflow without looking at it.          *)
Init ==
    /\ status \in Statuses
    /\ past = IF status = "submitted" THEN "alone" ELSE "decided"
    /\ workflow = "active"
    /\ visit = "none"
    /\ report = "none"
    /\ stage = [k \in StageKeys |-> "not_started"]
    /\ install = "none"
    /\ batch = [c \in Crops |-> "none"]
    /\ op = [u \in Admins |-> Idle]
    /\ calls = {}

(* The schedule route refuses this deployment, so the property, its link   *)
(* to the request and the visit are entered through the data route, where  *)
(* an administrator may give the visit any status, at any time.            *)
EnterVisit(s) ==
    /\ visit' = s
    /\ UNCHANGED <<status, workflow, report, stage, gardenVars, op, calls, past>>

-----------------------------------------------------------------------------
(* The administrator's handlers: the reads they decide on.                 *)

Begin(u, target, phase, decides, todo) ==
    /\ op[u] = Idle
    /\ op' = [op EXCEPT ![u] = [target |-> target, expected |-> status,
                                phase |-> phase, decides |-> decides,
                                todo |-> todo]]
    /\ IF \A v \in Admins : op[v] = Idle THEN UNCHANGED past
                                         ELSE Happens("together")
    /\ UNCHANGED <<rows, calls>>

BeginSchedule(u) ==
    /\ status = "submitted" /\ visit \in {"pending", "in_progress"}
    /\ Begin(u, "inspection_scheduled", "status", FALSE, {})

BeginAccept(u) ==
    /\ status = "inspection_scheduled" /\ report = "submitted_for_approval"
    /\ Begin(u, "accepted", "status", TRUE, {})

BeginReject(u) ==
    /\ status \in {"submitted", "inspection_scheduled"}
    /\ Begin(u, "rejected", "status",
             /\ status = "inspection_scheduled"
             /\ report = "submitted_for_approval", {})

BeginImplements(u) ==
    status = "accepted" /\ Begin(u, "needing_implements", "status", FALSE, {})

BeginLive(u) ==
    /\ status = "final_install" /\ ReadyToActivate
    /\ Begin(u, "live", "status", FALSE, {})

BeginCancel(u) ==
    /\ status \notin Lifecycle!Terminal
    /\ Begin(u, "cancelled", "status", FALSE, {})

(* An installation the handler finds is taken over, or else inserted.      *)
BeginInstallation(u) ==
    /\ status = "needing_implements" /\ report = "approved"
    /\ Begin(u, "implements_installed", "garden", install # "none", {})

(* The crops to allocate are chosen in the request.                        *)
BeginAllocation(u) ==
    /\ status = "implements_installed" /\ report = "approved"
    /\ \E chosen \in SUBSET Crops \ {{}} :
          Begin(u, "seeds", "garden", FALSE, chosen)

(* The batches to plant are those the handler reads.                       *)
BeginPlanting(u) ==
    /\ status = "seeds" /\ install = "active" /\ Planted # {}
    /\ Begin(u, "final_install", "garden", FALSE, Planted)

BeginUpdate(u) ==
    \/ BeginSchedule(u)
    \/ BeginAccept(u)
    \/ BeginReject(u)
    \/ BeginImplements(u)
    \/ BeginLive(u)
    \/ BeginCancel(u)
    \/ BeginInstallation(u)
    \/ BeginAllocation(u)
    \/ BeginPlanting(u)

-----------------------------------------------------------------------------
(* The administrator's handlers: one call after the other.                 *)

(* The call of handler u is carried out; o is what it remembers.           *)
Answered(u, o) ==
    \/ op' = [op EXCEPT ![u] = Proceed(o)] /\ UNCHANGED past
    \/ op' = [op EXCEPT ![u] = OnError(o)] /\ Happens("lost")

(* complete_garden_installation: an update that matches no row is noticed  *)
(* only when its result is used, after the request was written.            *)
WriteInstallation(u) ==
    /\ op[u].target = "implements_installed" /\ op[u].phase = "garden"
    /\ IF op[u].decides /\ install = "none"
       THEN /\ UNCHANGED install
            /\ op' = [op EXCEPT ![u].phase = "gone"]
            /\ UNCHANGED past
       ELSE /\ install' = "active"
            /\ Answered(u, [op[u] EXCEPT !.decides = FALSE])
    /\ UNCHANGED <<status, workflow, visit, report, stage, batch, calls>>

(* allocate_garden: the crops without a batch get one.                     *)
WriteAllocation(u) ==
    /\ op[u].target = "seeds" /\ op[u].phase = "garden"
    /\ install = "active"
    /\ batch' = [c \in Crops |-> IF c \in op[u].todo /\ batch[c] = "none"
                                 THEN "planned" ELSE batch[c]]
    /\ Answered(u, [op[u] EXCEPT !.todo = {}])
    /\ UNCHANGED <<status, workflow, visit, report, stage, install, calls>>

(* complete_garden_planting: batch by batch; one that has been deleted is  *)
(* passed over.                                                            *)
WritePlanting(u, c) ==
    /\ op[u].target = "final_install" /\ op[u].phase = "garden"
    /\ c \in op[u].todo
    /\ batch' = [batch EXCEPT ![c] = IF @ = "none" THEN @ ELSE "growing"]
    /\ Answered(u, [op[u] EXCEPT !.todo = @ \ {c}])
    /\ UNCHANGED <<status, workflow, visit, report, stage, install, calls>>

(* The update of the request names the status the handler read, except     *)
(* that of an allocation, which names the id alone.  The faulty variant    *)
(* never names it.                                                         *)
FaultyMatches(o) == TRUE

Matches(o) == o.target = "seeds" \/ status = o.expected

WriteStatus(u) ==
    /\ op[u].phase \in {"status", "gone"}
    /\ Matches(op[u])
    /\ status' = op[u].target
    /\ Answered(u, op[u])
    /\ UNCHANGED <<workflow, visit, report, stage, gardenVars, calls>>

(* The decision is written by the report's id.  The faulty variant writes  *)
(* the request's word for it.                                              *)
FaultyDecision(o) == o.target

Decision(o) == IF o.target = "accepted" THEN "approved" ELSE "rejected"

WriteReport(u) ==
    /\ op[u].phase = "report"
    /\ report' = Decision(op[u])
    /\ Answered(u, op[u])
    /\ UNCHANGED <<status, workflow, visit, stage, gardenVars, calls>>

(* The compensation, if nobody moved the request on.  The faulty variant   *)
(* does not look.                                                          *)
FaultyRestores(o) == TRUE

Restores(o) == status = o.target

WriteRestore(u) ==
    /\ op[u].phase = "restore"
    /\ status' = IF Restores(op[u]) THEN op[u].expected ELSE status
    /\ Answered(u, op[u])
    /\ UNCHANGED <<workflow, visit, report, stage, gardenVars, calls>>

(* advance_workflow_stage, with the trigger that closes the workflow.  Its *)
(* own reads concern the evidence.  The faulty variant of the trigger does *)
(* not know cancellations.                                                 *)
FaultyCloses(s) == s = "rejected"

Closes(s) == s \in {"rejected", "skipped"}

WriteStage(u) ==
    /\ op[u].phase \in {"first", "second"}
    /\ LET w == IF op[u].phase = "first" THEN FirstStage[op[u].target]
                                         ELSE SecondStage[op[u].target]
       IN  /\ stage' = [stage EXCEPT ![w[1]] = w[2]]
           /\ workflow' = IF Closes(w[2]) THEN "cancelled" ELSE workflow
    /\ Answered(u, op[u])
    /\ UNCHANGED <<status, visit, report, gardenVars, calls>>

(* The request changed under the handler, or the installation is missing:  *)
(* it answers 409.                                                         *)
Refuse(u) ==
    /\ \/ op[u].phase \in {"status", "gone"} /\ ~Matches(op[u])
       \/ /\ op[u].target = "seeds" /\ op[u].phase = "garden"
          /\ install # "active"
    /\ op' = [op EXCEPT ![u] = Idle]
    /\ UNCHANGED <<rows, calls, past>>

Step(u) ==
    \/ WriteInstallation(u)
    \/ WriteAllocation(u)
    \/ \E c \in Crops : WritePlanting(u, c)
    \/ WriteStatus(u)
    \/ WriteReport(u)
    \/ WriteRestore(u)
    \/ WriteStage(u)
    \/ Refuse(u)

(* A call that is not carried out, and a server that stops.                *)
Fail(u) ==
    /\ op[u] # Idle
    /\ op' = [op EXCEPT ![u] = OnError(op[u])]
    /\ Happens("disturbed")
    /\ UNCHANGED <<rows, calls>>

Stop(u) ==
    /\ op[u] # Idle
    /\ op' = [op EXCEPT ![u] = Idle]
    /\ Happens("disturbed")
    /\ UNCHANGED <<rows, calls>>

-----------------------------------------------------------------------------
(* The inspector.  The procedures start_inspection_report and              *)
(* submit_inspection_report are transactions; everything else is not.      *)

StartReport ==
    /\ visit # "none" /\ report = "none"
    /\ report' = "draft"
    /\ visit' = "in_progress"
    /\ UNCHANGED <<status, workflow, stage, gardenVars, op, calls, past>>

(* An administrator starting as the inspector inserts the report, which    *)
(* the unique assignment allows once, and then updates the visit.          *)
PreviewStart ==
    /\ visit # "none" /\ report = "none"
    /\ report' = "draft"
    /\ calls' = calls \cup {"in_progress"}
    /\ UNCHANGED <<status, workflow, visit, stage, gardenVars, op, past>>

(* submit_inspection_report stamps the report and closes the visit; as a   *)
(* preview these are two updates.  Neither touches the assessment.         *)
SubmitReport(s) ==
    /\ report # "none"
    /\ visit' = s
    /\ UNCHANGED <<status, workflow, report, stage, gardenVars, op, calls, past>>

PreviewSubmit(s) ==
    /\ report # "none"
    /\ calls' = calls \cup {s}
    /\ UNCHANGED <<status, workflow, visit, report, stage, gardenVars, op, past>>

WriteVisit(s) ==
    /\ s \in calls
    /\ visit' = s
    /\ calls' = calls \ {s}
    /\ UNCHANGED <<status, workflow, report, stage, gardenVars, op, past>>

(* save_assessment and submit_for_approval check the assessment, and write *)
(* it by id later.                                                         *)
BeginAssessment(c) ==
    /\ report \notin {"none", "submitted_for_approval"}
    /\ calls' = calls \cup {c}
    /\ UNCHANGED <<status, workflow, visit, report, stage, gardenVars, op, past>>

CommitSave ==
    /\ "save" \in calls
    /\ report' = "draft"
    /\ stage' = Synced("draft")
    /\ calls' = calls \ {"save"}
    /\ UNCHANGED <<status, workflow, visit, gardenVars, op, past>>

CommitSubmit ==
    /\ "submit" \in calls
    /\ report' = "submitted_for_approval"
    /\ stage' = Synced("submitted_for_approval")
    /\ calls' = (calls \ {"submit"}) \cup {"completed"}
    /\ UNCHANGED <<status, workflow, visit, gardenVars, op, past>>

(* A second write that is never made.                                      *)
Drop(c) ==
    /\ c \in calls
    /\ calls' = calls \ {c}
    /\ Happens("disturbed")
    /\ UNCHANGED <<rows, op>>

Inspect ==
    \/ StartReport
    \/ PreviewStart
    \/ \E s \in {"completed", "failed", "flagged"} :
          SubmitReport(s) \/ PreviewSubmit(s)
    \/ \E s \in calls : s \notin {"save", "submit"} /\ WriteVisit(s)
    \/ \E c \in {"save", "submit"} : BeginAssessment(c)
    \/ CommitSave
    \/ CommitSubmit
    \/ \E c \in calls : Drop(c)

-----------------------------------------------------------------------------
(* The data route, as in GardenRequest.                                    *)
EditInstallation(s) ==
    /\ visit # "none"
    /\ install' = s
    /\ batch' = IF s = "none" THEN [c \in Crops |-> "none"] ELSE batch
    /\ Happens("disturbed")
    /\ UNCHANGED <<status, workflow, visit, report, stage, op, calls>>

(* apply_inspection_request_decision writes the status and nothing else,   *)
(* whatever the status was.                                                *)
ApplyDecision(s) ==
    /\ report # "none"
    /\ status' = s
    /\ Happens("decided")
    /\ UNCHANGED <<workflow, visit, report, stage, gardenVars, op, calls>>

(* The data route's upsert: row-level security stops a resident's, whose   *)
(* policies let him insert a request but not update one, and lets an       *)
(* administrator's pass that names himself as the owner.                   *)
UpsertRequest(s) ==
    /\ status' = s
    /\ Happens("decided")
    /\ UNCHANGED <<workflow, visit, report, stage, gardenVars, op, calls>>

DataRoute ==
    \/ \E s \in VisitStatuses \ {"none"} : EnterVisit(s)
    \/ \E s \in {"none", "planned"} : EditInstallation(s)
    \/ \E s \in Statuses : UpsertRequest(s)

Next ==
    \/ \E u \in Admins : BeginUpdate(u) \/ Step(u) \/ Fail(u) \/ Stop(u)
    \/ Inspect
    \/ DataRoute
    \/ \E s \in {"accepted", "needing_implements", "rejected"} :
          ApplyDecision(s)

Spec == Init /\ [][Next]_vars

-----------------------------------------------------------------------------
(* Properties.                                                             *)

Accepted  == {"accepted", "needing_implements", "implements_installed",
              "seeds", "final_install", "live"}
Installed == {"implements_installed", "seeds", "final_install", "live"}
Allocated == {"seeds", "final_install", "live"}
Growing   == {"final_install", "live"}

(* The handlers between the write that accepted the request and the end of *)
(* their work on the report.                                               *)
Approving == {u \in Admins : /\ op[u].target = "accepted"
                             /\ op[u].phase \in {"report", "restore"}}

(* Of all administrators accepting, rejecting, cancelling and moving on,   *)
(* at most one is about to approve the report or to take its acceptance    *)
(* back, and none while the request is undecided or rejected: the          *)
(* compensation at gardens.py:514 can only undo its own handler's write,   *)
(* unless the status is written past the handlers.                         *)
OneApproval ==
    past # "decided" =>
      /\ \A u, v \in Approving : u = v
      /\ Approving # {} => status \notin {"submitted", "inspection_scheduled",
                                          "rejected"}

(* Without transactions, and whatever calls fail, an assessment is still   *)
(* approved only with its request and rejected only with it.  It needs     *)
(* failed calls not to be carried out, and no status written past the      *)
(* handlers.                                                               *)
DecisionsAgree ==
    past \notin {"lost", "decided"} =>
      /\ report = "approved" => status \in Accepted \cup {"cancelled"}
      /\ report = "rejected" => status = "rejected"

(* The request leaves the pipeline of GardenLifecycle in two places only:  *)
(* a failed approval puts an accepted request back, and an allocation,     *)
(* whose update does not look at the status, puts a request that moved on  *)
(* or was cancelled back to its own stage.  The procedure and the data     *)
(* route know no pipeline.                                                 *)
PipelineMoves ==
    [][\/ past' = "decided"
       \/ <<status, status'>> \in Lifecycle!Forward
       \/ status \in Lifecycle!Undecided /\ status' = "rejected"
       \/ status \notin Lifecycle!Terminal /\ status' = "cancelled"
       \/ status = "accepted" /\ status' = "inspection_scheduled"
       \/ status \in Growing \cup {"cancelled"} /\ status' = "seeds"
      ]_status

Quiet == \A u \in Admins : op[u] = Idle

(* What the stages g are to tell of a request with status s.               *)
StagesTell(s, g) ==
    /\ s \in Lifecycle!Undecided => g["approval"] \in {"not_started", "ready"}
    /\ s \in Accepted => g["approval"] = "completed"
    /\ s = "rejected" => g["approval"] = "rejected"
    /\ s = "cancelled" => g["approval"] = "skipped"
    /\ s # "cancelled" =>
         /\ g["installation"] =
              (CASE s = "accepted" -> "ready"
                 [] s = "needing_implements" -> "in_progress"
                 [] s \in Installed -> "completed"
                 [] OTHER -> "not_started")
         /\ g["crop_allocation"] =
              (CASE s = "implements_installed" -> "ready"
                 [] s \in Allocated -> "completed"
                 [] OTHER -> "not_started")
         /\ g["maintenance_tasks"] =
              (CASE s = "seeds" -> "ready"
                 [] s \in Growing -> "in_progress"
                 [] OTHER -> "not_started")

(* One administrator at a time and nothing disturbed: between two of his   *)
(* handlers the stages tell what the request tells, however the inspector's*)
(* statements fall between his.                                            *)
StagesAgree == past = "alone" /\ Quiet => StagesTell(status, stage)

(* However administrators overlap, while nothing else is disturbed, the    *)
(* workflow the resident sees is closed when the handlers are over, though *)
(* the request and the stage that closes it are written by different calls *)
(* and other administrators' calls come between.                           *)
ClosesWorkflow ==
    past \in {"alone", "together"} /\ Quiet
      => (status \in {"rejected", "cancelled"} => workflow = "cancelled")

(* A handler on its way from a closing status to the stage that closes, and*)
(* the workflow as such handlers are going to leave it.                    *)
Closing(u) == /\ op[u].target \in {"rejected", "cancelled"}
              /\ op[u].phase \in {"report", "first"}

WorkflowToBe == IF \E u \in Admins : Closing(u) THEN "cancelled" ELSE workflow

Pipeline == INSTANCE GardenLifecycle
                WITH status <- status, workflow <- WorkflowToBe

(* However administrators overlap, while nothing else is disturbed, the    *)
(* request follows the pipeline that the transactions of GardenRequest     *)
(* follow, if the closing of the workflow counts from the request's own    *)
(* write on: single calls do what a transaction does, but for an allocation*)
(* that overwrites a later status.                                         *)
FollowsLifecycle ==
    /\ past # "decided" => Pipeline!Init
    /\ [][past' \in {"alone", "together"} =>
             \/ Pipeline!Next
             \/ UNCHANGED <<status, WorkflowToBe>>
             \/ /\ status \in Growing \cup {"cancelled"} /\ status' = "seeds"
                /\ UNCHANGED WorkflowToBe
         ]_vars
=============================================================================
