--------------------- MODULE GardenRequestSupabaseProofs ---------------------
(* Proofs about GardenRequestSupabase, for every number of administrators  *)
(* and crops and whatever is disturbed.                                    *)
EXTENDS GardenRequestSupabase, TLAPS

-----------------------------------------------------------------------------
(* What a handler remembers.                                               *)

(* The statuses from which a handler was begun.                            *)
From ==
    [inspection_scheduled |-> {"submitted"},
     accepted             |-> {"inspection_scheduled"},
     rejected             |-> {"submitted", "inspection_scheduled"},
     needing_implements   |-> {"accepted"},
     implements_installed |-> {"needing_implements"},
     seeds                |-> {"implements_installed"},
     final_install        |-> {"seeds"},
     live                 |-> {"final_install"},
     cancelled            |-> Statuses \ {"live", "rejected", "cancelled"}]

(* A handler comes to a phase only if it has that phase, and remembers the *)
(* status it was begun from.                                               *)
WellFormed(o) ==
    \/ o = Idle
    \/ /\ o \in Handlers
       /\ o.expected \in From[o.target]
       /\ o.phase = "garden" =>
            o.target \in {"implements_installed", "seeds", "final_install"}
       /\ o.phase = "garden" /\ o.decides => o.target = "implements_installed"
       /\ o.phase = "gone" => o.target = "implements_installed"
       /\ o.phase = "status" /\ o.decides => o.target \in {"accepted", "rejected"}
       /\ o.phase = "report" => o.target \in {"accepted", "rejected"}
       /\ o.phase = "restore" => o.target = "accepted"
       /\ o.phase = "first" => o.target \in DOMAIN FirstStage
       /\ o.phase = "second" => o.target \in DOMAIN SecondStage

(* What may follow a handler's call: it stays the same handler or is over, *)
(* comes to the report only from the request, to the compensation only from*)
(* the report, and never back.                                             *)
Follows(o, n) ==
    \/ n = Idle
    \/ /\ n.target = o.target /\ n.expected = o.expected
       /\ n.phase = "report" => o.phase = "status"
       /\ n.phase = "restore" => o.phase = "report"
       /\ n.phase \in {"garden", "status"} => o.phase = "garden"

LEMMA TargetsExpanded ==
  Targets = {"inspection_scheduled", "accepted", "needing_implements",
             "implements_installed", "seeds", "final_install", "live",
             "rejected", "cancelled"}
BY DEF Targets, Statuses, Lifecycle!Statuses

LEMMA IdleIsNoHandler ==
  /\ Idle.phase \notin Phases
  /\ Idle.target \notin Targets
BY TargetsExpanded DEF Idle, Phases

(* Every phase leads to a well-formed one, answered or not.                *)
LEMMA Continues ==
  ASSUME NEW o, WellFormed(o), o # Idle,
         o.phase = "garden" => ~o.decides
  PROVE  /\ WellFormed(Proceed(o)) /\ WellFormed(OnError(o))
         /\ Follows(o, Proceed(o)) /\ Follows(o, OnError(o))
         /\ Proceed(o).phase # "restore"
<1> USE DEF FirstStage, SecondStage
<1>1. o \in Handlers
  BY DEF WellFormed
<1>2. WellFormed(FromSecond(o)) /\ FromSecond(o).phase \in {"second", "idle"}
        /\ (FromSecond(o) # Idle => /\ FromSecond(o).target = o.target
                                    /\ FromSecond(o).expected = o.expected)
  BY <1>1 DEF FromSecond, WellFormed, Handlers, Phases, Idle
<1>3. WellFormed(FromFirst(o)) /\ FromFirst(o).phase \in {"first", "idle"}
        /\ (FromFirst(o) # Idle => /\ FromFirst(o).target = o.target
                                   /\ FromFirst(o).expected = o.expected)
  BY <1>1 DEF FromFirst, WellFormed, Handlers, Phases, Idle
<1>4. ASSUME o.phase = "status" PROVE
        /\ WellFormed(FromReport(o))
        /\ FromReport(o).phase \in {"report", "first", "idle"}
        /\ (FromReport(o) # Idle => /\ FromReport(o).target = o.target
                                    /\ FromReport(o).expected = o.expected)
  <2>1. CASE o.decides
    BY <1>1, <1>4, <2>1 DEF FromReport, WellFormed, Handlers, Phases, Idle
  <2>2. CASE ~o.decides
    BY <1>3, <2>2 DEF FromReport
  <2> QED
    BY <2>1, <2>2
<1>5. WellFormed(OnError(o)) /\ Follows(o, OnError(o))
  BY <1>1 DEF OnError, Follows, WellFormed, Handlers, Phases, Idle
<1>6. WellFormed(Idle) /\ Follows(o, Idle) /\ Idle.phase # "restore"
  BY DEF WellFormed, Follows, Idle
<1>7. CASE o.phase = "garden"
  <2>1. ~o.decides
    BY <1>7
  <2>2. WellFormed([o EXCEPT !.phase = "status"])
    BY <1>1, <1>7, <2>1 DEF WellFormed, Handlers, Phases, Idle
  <2>3. Proceed(o) = IF o.todo = {} THEN [o EXCEPT !.phase = "status"] ELSE o
    BY <1>7 DEF Proceed
  <2> QED
    BY <1>1, <1>5, <1>7, <2>2, <2>3 DEF Follows, Handlers
<1>8. CASE o.phase = "status"
  <2>1. Proceed(o) = FromReport(o)
    BY <1>8 DEF Proceed
  <2> QED
    BY <1>4, <1>5, <1>8, <2>1 DEF Follows
<1>9. CASE o.phase = "report"
  <2>1. Proceed(o) = FromFirst(o)
    BY <1>9 DEF Proceed
  <2> QED
    BY <1>3, <1>5, <1>9, <2>1 DEF Follows
<1>10. CASE o.phase = "first"
  <2>1. Proceed(o) = FromSecond(o)
    BY <1>10 DEF Proceed
  <2> QED
    BY <1>2, <1>5, <1>10, <2>1 DEF Follows
<1>11. CASE o.phase \notin {"garden", "status", "report", "first"}
  <2>1. Proceed(o) = Idle
    BY <1>11 DEF Proceed
  <2> QED
    BY <1>5, <1>6, <2>1
<1> QED
  BY <1>7, <1>8, <1>9, <1>10, <1>11

-----------------------------------------------------------------------------
(* The steps, sorted by what they do to the handlers.                      *)

AllWellFormed == \A u \in Admins : WellFormed(op[u])

LEMMA AnsweredStep ==
  ASSUME TypeOK, NEW u \in Admins, NEW o, WellFormed(o), o # Idle,
         o.phase = "garden" => ~o.decides,
         o.target = op[u].target, o.expected = op[u].expected,
         o.phase = op[u].phase, Answered(u, o)
  PROVE  /\ op' = [op EXCEPT ![u] = op'[u]]
         /\ WellFormed(op'[u])
         /\ Follows(op[u], op'[u])
         /\ op'[u].phase = "restore" => past' \in {"lost", "decided"}
<1>1. PICK n \in {Proceed(o), OnError(o)} :
        /\ op' = [op EXCEPT ![u] = n]
        /\ n = Proceed(o) \/ past' \in {"lost", "decided"}
  BY DEF Answered, Happens, Milder, Pasts, TypeOK
<1>2. op'[u] = n
  BY <1>1 DEF TypeOK
<1>3. WellFormed(n) /\ Follows(o, n) /\ Proceed(o).phase # "restore"
  BY Continues
<1> QED
  BY <1>1, <1>2, <1>3 DEF Follows

(* Beginning a handler changes nothing but what is remembered of it.       *)
LEMMA BeginStep ==
  ASSUME TypeOK, NEW u \in Admins, BeginUpdate(u)
  PROVE  /\ op[u] = Idle
         /\ op' = [op EXCEPT ![u] = op'[u]]
         /\ WellFormed(op'[u])
         /\ op'[u].phase \in {"garden", "status"}
         /\ op'[u].expected = status
         /\ UNCHANGED <<status, workflow, visit, report, stage, gardenVars,
                        calls>>
<1> DEFINE rec(t, p, d, c) == [target |-> t, expected |-> status, phase |-> p,
                               decides |-> d, todo |-> c]
<1>1. ASSUME NEW t \in Targets, NEW p \in {"garden", "status"},
             NEW d \in BOOLEAN, NEW c \in SUBSET Crops, status \in From[t],
             p = "garden" => t \in {"implements_installed", "seeds",
                                    "final_install"},
             p = "garden" /\ d => t = "implements_installed",
             p = "status" /\ d => t \in {"accepted", "rejected"},
             Begin(u, t, p, d, c)
      PROVE  /\ op[u] = Idle /\ op' = [op EXCEPT ![u] = op'[u]]
             /\ WellFormed(op'[u]) /\ op'[u].phase \in {"garden", "status"}
             /\ op'[u].expected = status
             /\ UNCHANGED <<status, workflow, visit, report, stage, gardenVars,
                            calls>>
  <2>1. op'[u] = rec(t, p, d, c) /\ op' = [op EXCEPT ![u] = rec(t, p, d, c)]
    BY <1>1 DEF Begin, TypeOK
  <2>2. rec(t, p, d, c) \in Handlers
    BY <1>1 DEF Handlers, TypeOK, Phases
  <2>3. /\ WellFormed(rec(t, p, d, c))
        /\ rec(t, p, d, c).phase = p /\ rec(t, p, d, c).expected = status
    BY <1>1, <2>2 DEF WellFormed
  <2>4. UNCHANGED <<status, workflow, visit, report, stage, gardenVars, calls>>
          /\ op[u] = Idle
    BY <1>1 DEF Begin, rows
  <2> HIDE DEF rec
  <2> QED
    BY <2>1, <2>3, <2>4
<1>2. CASE BeginSchedule(u)
  <2>1. "inspection_scheduled" \in Targets /\ status \in From["inspection_scheduled"]
    BY <1>2, TargetsExpanded DEF BeginSchedule, From
  <2>2. PICK d \in BOOLEAN : ~d /\ Begin(u, "inspection_scheduled", "status", d, {})
    BY <1>2 DEF BeginSchedule
  <2> QED
    BY <1>1, <2>1, <2>2
<1>3. CASE BeginAccept(u)
  <2>1. "accepted" \in Targets /\ status \in From["accepted"]
    BY <1>3, TargetsExpanded DEF BeginAccept, From
  <2>2. PICK d \in BOOLEAN : Begin(u, "accepted", "status", d, {})
    BY <1>3 DEF BeginAccept
  <2> QED
    BY <1>1, <2>1, <2>2
<1>4. CASE BeginReject(u)
  <2>1. "rejected" \in Targets /\ status \in From["rejected"]
    BY <1>4, TargetsExpanded DEF BeginReject, From
  <2>2. PICK d \in BOOLEAN : Begin(u, "rejected", "status", d, {})
    BY <1>4 DEF BeginReject
  <2> QED
    BY <1>1, <2>1, <2>2
<1>5. CASE BeginImplements(u)
  <2>1. "needing_implements" \in Targets /\ status \in From["needing_implements"]
    BY <1>5, TargetsExpanded DEF BeginImplements, From
  <2>2. PICK d \in BOOLEAN : ~d /\ Begin(u, "needing_implements", "status", d, {})
    BY <1>5 DEF BeginImplements
  <2> QED
    BY <1>1, <2>1, <2>2
<1>6. CASE BeginLive(u)
  <2>1. "live" \in Targets /\ status \in From["live"]
    BY <1>6, TargetsExpanded DEF BeginLive, From
  <2>2. PICK d \in BOOLEAN : ~d /\ Begin(u, "live", "status", d, {})
    BY <1>6 DEF BeginLive
  <2> QED
    BY <1>1, <2>1, <2>2
<1>7. CASE BeginCancel(u)
  <2>1. "cancelled" \in Targets /\ status \in From["cancelled"]
    BY <1>7, TargetsExpanded DEF BeginCancel, From, TypeOK, Lifecycle!Terminal
  <2>2. PICK d \in BOOLEAN : ~d /\ Begin(u, "cancelled", "status", d, {})
    BY <1>7 DEF BeginCancel
  <2> QED
    BY <1>1, <2>1, <2>2
<1>8. CASE BeginInstallation(u)
  <2>1. "implements_installed" \in Targets /\ status \in From["implements_installed"]
    BY <1>8, TargetsExpanded DEF BeginInstallation, From
  <2>2. PICK d \in BOOLEAN : Begin(u, "implements_installed", "garden", d, {})
    BY <1>8 DEF BeginInstallation
  <2> QED
    BY <1>1, <2>1, <2>2
<1>9. CASE BeginAllocation(u)
  <2>1. "seeds" \in Targets /\ status \in From["seeds"]
    BY <1>9, TargetsExpanded DEF BeginAllocation, From
  <2>2. PICK c \in SUBSET Crops : Begin(u, "seeds", "garden", FALSE, c)
    BY <1>9 DEF BeginAllocation
  <2> QED
    BY <1>1, <2>1, <2>2
<1>10. CASE BeginPlanting(u)
  <2>1. "final_install" \in Targets /\ status \in From["final_install"]
    BY <1>10, TargetsExpanded DEF BeginPlanting, From
  <2>2. Begin(u, "final_install", "garden", FALSE, Planted)
    BY <1>10 DEF BeginPlanting
  <2>3. Planted \in SUBSET Crops
    BY DEF Planted
  <2> QED
    BY <1>1, <2>1, <2>2, <2>3
<1> QED
  BY <1>2, <1>3, <1>4, <1>5, <1>6, <1>7, <1>8, <1>9, <1>10 DEF BeginUpdate

(* A call of a handler, with what it writes to the request and the report. *)
LEMMA CallStep ==
  ASSUME TypeOK, AllWellFormed, NEW u \in Admins,
         Step(u) \/ Fail(u) \/ Stop(u)
  PROVE  /\ op[u] # Idle
         /\ op' = [op EXCEPT ![u] = op'[u]]
         /\ WellFormed(op'[u])
         /\ Follows(op[u], op'[u])
         /\ \/ status' = status
            \/ /\ op[u].phase \in {"status", "gone"} /\ Matches(op[u])
               /\ status' = op[u].target
            \/ /\ op[u].phase = "restore" /\ status = op[u].target
               /\ status' = op[u].expected /\ op'[u] = Idle
         /\ op[u].phase = "status" =>
              op'[u] = Idle \/ (Matches(op[u]) /\ status' = op[u].target)
         /\ \/ report' = report
            \/ op[u].phase = "report" /\ report' = Decision(op[u])
         /\ op'[u].phase = "restore" /\ past' \notin {"lost", "decided"}
              => report' = report
<1> USE IdleIsNoHandler DEF AllWellFormed
<1>0. op[u] \in Handlers \cup {Idle} /\ WellFormed(op[u])
  BY DEF TypeOK
<1>i. WellFormed(Idle) /\ Follows(op[u], Idle) /\ Idle.phase # "restore"
  BY DEF WellFormed, Follows, Idle
<1>1. CASE WriteInstallation(u)
  <2>1. op[u] \in Handlers /\ op[u] # Idle
    BY <1>0, <1>1 DEF WriteInstallation, Phases, Idle
  <2>2. CASE op[u].decides /\ install = "none"
    <3>1. op'[u] = [op[u] EXCEPT !.phase = "gone"]
      BY <1>1, <2>2 DEF WriteInstallation, TypeOK
    <3>2. WellFormed(op'[u])
      BY <1>0, <1>1, <2>1, <3>1 DEF WriteInstallation, WellFormed, Handlers,
           Phases
    <3>3. Follows(op[u], op'[u]) /\ op'[u].phase # "restore"
      BY <2>1, <3>1 DEF Follows, Handlers
    <3> QED
      BY <1>1, <2>1, <2>2, <3>1, <3>2, <3>3 DEF WriteInstallation, TypeOK
  <2>3. CASE ~(op[u].decides /\ install = "none")
    <3> DEFINE o == [op[u] EXCEPT !.decides = FALSE]
    <3>1. /\ WellFormed(o) /\ o # Idle /\ ~o.decides
          /\ o.target = op[u].target /\ o.expected = op[u].expected
          /\ o.phase = op[u].phase
      BY <1>0, <1>1, <2>1 DEF WriteInstallation, WellFormed, Handlers, Idle,
           Phases
    <3>2. Answered(u, o)
      BY <1>1, <2>3 DEF WriteInstallation
    <3> HIDE DEF o
    <3> QED
      BY <1>1, <2>1, <3>1, <3>2, AnsweredStep DEF WriteInstallation
  <2> QED
    BY <2>2, <2>3
<1>2. CASE WriteAllocation(u)
  <2>1. op[u] \in Handlers /\ op[u] # Idle
    BY <1>0, <1>2 DEF WriteAllocation, Phases, Idle
  <2> DEFINE o == [op[u] EXCEPT !.todo = {}]
  <2>2. /\ WellFormed(o) /\ o # Idle /\ ~o.decides
        /\ o.target = op[u].target /\ o.expected = op[u].expected
        /\ o.phase = op[u].phase
    BY <1>0, <1>2, <2>1 DEF WriteAllocation, WellFormed, Handlers, Idle, Phases
  <2>3. Answered(u, o)
    BY <1>2 DEF WriteAllocation
  <2> HIDE DEF o
  <2> QED
    BY <1>2, <2>1, <2>2, <2>3, AnsweredStep DEF WriteAllocation
<1>3. ASSUME NEW c \in Crops, WritePlanting(u, c)
      PROVE  WritePlanting(u, c) /\ /\ op[u] # Idle
             /\ op' = [op EXCEPT ![u] = op'[u]] /\ WellFormed(op'[u])
             /\ Follows(op[u], op'[u])
             /\ (op'[u].phase = "restore" => past' \in {"lost", "decided"})
  <2>1. op[u] \in Handlers /\ op[u] # Idle
    BY <1>0, <1>3 DEF WritePlanting, Phases, Idle
  <2> DEFINE o == [op[u] EXCEPT !.todo = @ \ {c}]
  <2>2. /\ WellFormed(o) /\ o # Idle /\ ~o.decides
        /\ o.target = op[u].target /\ o.expected = op[u].expected
        /\ o.phase = op[u].phase
    BY <1>0, <1>3, <2>1 DEF WritePlanting, WellFormed, Handlers, Idle, Phases
  <2>3. Answered(u, o)
    BY <1>3 DEF WritePlanting
  <2> HIDE DEF o
  <2> QED
    BY <1>3, <2>1, <2>2, <2>3, AnsweredStep
<1>4. ASSUME op[u].phase \in {"status", "gone", "report", "restore", "first",
                              "second"}, Answered(u, op[u])
      PROVE  /\ op[u] # Idle
             /\ op' = [op EXCEPT ![u] = op'[u]] /\ WellFormed(op'[u])
             /\ Follows(op[u], op'[u])
             /\ (op'[u].phase = "restore" => past' \in {"lost", "decided"})
  BY <1>0, <1>4, AnsweredStep DEF Idle
<1>5. CASE WriteStatus(u)
  BY <1>5, <1>4 DEF WriteStatus
<1>6. CASE WriteReport(u)
  BY <1>6, <1>4 DEF WriteReport
<1>7. CASE WriteRestore(u)
  <2>1. op'[u] = Idle
    BY <1>0, <1>7 DEF WriteRestore, Answered, Proceed, OnError, TypeOK
  <2> QED
    BY <1>7, <1>4, <2>1 DEF WriteRestore, Restores
<1>8. CASE WriteStage(u)
  BY <1>8, <1>4 DEF WriteStage
<1>9. CASE Refuse(u)
  <2>1. op[u] # Idle /\ op'[u] = Idle
    BY <1>9 DEF Refuse, TypeOK, Phases
  <2>2. op' = [op EXCEPT ![u] = op'[u]] /\ status' = status /\ report' = report
    BY <1>9, <2>1 DEF Refuse, rows
  <2> QED
    BY <1>i, <2>1, <2>2
<1>10. CASE Fail(u)
  <2>1. op[u] \in Handlers /\ op[u] # Idle
    BY <1>0, <1>10 DEF Fail
  <2>2. WellFormed(OnError(op[u])) /\ Follows(op[u], OnError(op[u]))
    BY <1>0, <2>1, <1>i DEF OnError, Follows, WellFormed, Handlers, Phases, Idle
  <2>3. op[u].phase = "status" => OnError(op[u]) = Idle
    BY DEF OnError
  <2>4. op'[u] = OnError(op[u])
    BY <1>10 DEF Fail, TypeOK
  <2>5. op' = [op EXCEPT ![u] = op'[u]] /\ status' = status /\ report' = report
    BY <1>10, <2>4 DEF Fail, rows
  <2> QED
    BY <2>1, <2>2, <2>3, <2>4, <2>5
<1>11. CASE Stop(u)
  <2>1. op[u] # Idle /\ op'[u] = Idle
    BY <1>11 DEF Stop, TypeOK
  <2>2. op' = [op EXCEPT ![u] = op'[u]] /\ status' = status /\ report' = report
    BY <1>11, <2>1 DEF Stop, rows
  <2> QED
    BY <1>i, <2>1, <2>2
<1> QED
  BY <1>1, <1>2, <1>3, <1>5, <1>6, <1>7, <1>8, <1>9, <1>10, <1>11
     DEF Step, WritePlanting

(* Everything else leaves the administrators' handlers alone, and gives the*)
(* report no decision.                                                     *)
LEMMA OtherStep ==
  ASSUME TypeOK,
         DataRoute \/ Inspect
           \/ (\E s \in {"accepted", "needing_implements", "rejected"} :
                  ApplyDecision(s))
  PROVE  /\ op' = op
         /\ status' = status \/ past' = "decided"
         /\ report' = report \/ report' \in {"draft", "submitted_for_approval"}
<1>1. CASE Inspect
  BY <1>1 DEF Inspect, StartReport, PreviewStart, SubmitReport, PreviewSubmit,
       WriteVisit, BeginAssessment, CommitSave, CommitSubmit, Drop, rows
<1> QED
  BY <1>1 DEF DataRoute, EnterVisit, EditInstallation, UpsertRequest,
       ApplyDecision, Happens, Milder, TypeOK

(* Administrators may overlap, but nothing else is disturbed.              *)
Calm == {"alone", "together"}

(* What has happened has happened.                                         *)
LEMMA PastStep ==
  ASSUME TypeOK, [Next]_vars
  PROVE  /\ past' \in Pasts
         /\ past' # "decided" => past # "decided"
         /\ past' \notin {"lost", "decided"} => past \notin {"lost", "decided"}
         /\ past' \in Calm => past \in Calm
         /\ past' = "alone" => past = "alone"
<1> USE DEF Happens, Milder, Pasts, Calm
<1>0. past \in Pasts
  BY DEF TypeOK
<1> DEFINE Goal == /\ past' \in Pasts
                   /\ past' # "decided" => past # "decided"
                   /\ past' \notin {"lost", "decided"}
                        => past \notin {"lost", "decided"}
                   /\ past' \in Calm => past \in Calm
                   /\ past' = "alone" => past = "alone"
<1>3. ASSUME NEW u \in Admins, BeginUpdate(u) PROVE Goal
  <2>1. PICK t, p, d, c : Begin(u, t, p, d, c)
    BY <1>3 DEF BeginUpdate, BeginSchedule, BeginAccept, BeginReject,
         BeginImplements, BeginLive, BeginCancel, BeginInstallation,
         BeginAllocation, BeginPlanting
  <2> QED
    BY <1>0, <2>1 DEF Begin
<1>4. ASSUME NEW u \in Admins, Step(u) PROVE Goal
  <2>1. \/ UNCHANGED past
        \/ \E o : Answered(u, o)
    BY <1>4 DEF Step, WriteInstallation, WriteAllocation, WritePlanting,
         WriteStatus, WriteReport, WriteRestore, WriteStage, Refuse
  <2> QED
    BY <1>0, <2>1 DEF Answered
<1>5. ASSUME NEW u \in Admins, Fail(u) \/ Stop(u) PROVE Goal
  BY <1>0, <1>5 DEF Fail, Stop
<1>6. CASE Inspect
  BY <1>0, <1>6 DEF Inspect, StartReport, PreviewStart, SubmitReport,
       PreviewSubmit, WriteVisit, BeginAssessment, CommitSave, CommitSubmit, Drop
<1>7. ASSUME NEW s, EnterVisit(s) PROVE Goal
  BY <1>0, <1>7 DEF EnterVisit
<1>8. ASSUME NEW s, EditInstallation(s) \/ UpsertRequest(s) \/ ApplyDecision(s)
      PROVE  Goal
  BY <1>0, <1>8 DEF EditInstallation, UpsertRequest, ApplyDecision
<1> QED
  BY <1>0, <1>3, <1>4, <1>5, <1>6, <1>7, <1>8 DEF Next, DataRoute, vars

-----------------------------------------------------------------------------
(* Types.                                                                  *)

LEMMA OpType ==
  ASSUME TypeOK, NEW u \in Admins, WellFormed(op'[u]),
         op' = [op EXCEPT ![u] = op'[u]]
  PROVE  op' \in [Admins -> Handlers \cup {Idle}]
BY DEF TypeOK, WellFormed

LEMMA WellFormedStep ==
  ASSUME TypeOK, AllWellFormed, [Next]_vars
  PROVE  AllWellFormed' /\ op' \in [Admins -> Handlers \cup {Idle}]
<1>1. ASSUME NEW u \in Admins,
             BeginUpdate(u) \/ Step(u) \/ Fail(u) \/ Stop(u)
      PROVE  AllWellFormed' /\ op' \in [Admins -> Handlers \cup {Idle}]
  <2>1. WellFormed(op'[u]) /\ op' = [op EXCEPT ![u] = op'[u]]
    BY <1>1, BeginStep, CallStep
  <2> QED
    BY <2>1, OpType DEF AllWellFormed, TypeOK
<1>2. CASE op' = op
  BY <1>2 DEF AllWellFormed, TypeOK
<1> QED
  BY <1>1, <1>2, OtherStep DEF Next, vars, rows

LEMMA TypeInit == Init => TypeOK /\ AllWellFormed
BY DEF Init, TypeOK, AllWellFormed, WellFormed, Statuses, Lifecycle!Statuses,
     VisitStatuses, ReportStatuses, StageStatuses, Pasts

(* A stage is given a status its column knows.                             *)
LEMMA StagesKnown ==
  /\ \A t \in DOMAIN FirstStage : /\ FirstStage[t][1] \in StageKeys
                                  /\ FirstStage[t][2] \in StageStatuses
  /\ \A t \in DOMAIN SecondStage : /\ SecondStage[t][1] \in StageKeys
                                   /\ SecondStage[t][2] \in StageStatuses
BY DEF FirstStage, SecondStage, StageKeys, StageStatuses

LEMMA TypeStep ==
  ASSUME TypeOK, AllWellFormed, [Next]_vars
  PROVE  TypeOK' /\ AllWellFormed'
<1>o. AllWellFormed' /\ op' \in [Admins -> Handlers \cup {Idle}]
  BY WellFormedStep
<1>p. past' \in Pasts
  BY PastStep
<1> USE <1>o, <1>p DEF TypeOK, gardenVars, rows
<1>1. ASSUME NEW u \in Admins, BeginUpdate(u) PROVE TypeOK'
  BY <1>1, BeginStep
<1>2. ASSUME NEW u \in Admins, Step(u) PROVE TypeOK'
  <2>0. WellFormed(op[u])
    BY DEF AllWellFormed
  <2>1. CASE WriteInstallation(u)
    BY <2>1 DEF WriteInstallation
  <2>2. CASE WriteAllocation(u)
    BY <2>2 DEF WriteAllocation
  <2>3. ASSUME NEW c \in Crops, WritePlanting(u, c) PROVE TypeOK'
    BY <2>3 DEF WritePlanting
  <2>4. CASE WriteStatus(u)
    BY <2>0, <2>4, IdleIsNoHandler DEF WriteStatus, WellFormed, Handlers,
         Targets, Phases
  <2>5. CASE WriteReport(u)
    BY <2>5 DEF WriteReport, Decision, ReportStatuses
  <2>6. CASE WriteRestore(u)
    BY <2>0, <2>6, IdleIsNoHandler DEF WriteRestore, WellFormed, Handlers,
         Phases
  <2>7. CASE WriteStage(u)
    <3> DEFINE w == IF op[u].phase = "first" THEN FirstStage[op[u].target]
                                             ELSE SecondStage[op[u].target]
    <3>1. w[1] \in StageKeys /\ w[2] \in StageStatuses
      BY <2>0, <2>7, StagesKnown, IdleIsNoHandler DEF WriteStage, WellFormed,
           Phases
    <3>2. /\ stage' = [stage EXCEPT ![w[1]] = w[2]]
          /\ workflow' = IF Closes(w[2]) THEN "cancelled" ELSE workflow
      BY <2>7 DEF WriteStage
    <3> HIDE DEF w
    <3> QED
      BY <2>7, <3>1, <3>2 DEF WriteStage
  <2>8. CASE Refuse(u)
    BY <2>8 DEF Refuse
  <2> QED
    BY <1>2, <2>1, <2>2, <2>3, <2>4, <2>5, <2>6, <2>7, <2>8 DEF Step
<1>3. ASSUME NEW u \in Admins, Fail(u) \/ Stop(u) PROVE TypeOK'
  BY <1>3 DEF Fail, Stop
<1>4. CASE Inspect
  <2>1. Calls = {"save", "submit", "in_progress", "completed", "failed",
                 "flagged"}
    BY DEF Calls, VisitStatuses
  <2>2. \A c : Synced(c) \in [StageKeys -> StageStatuses]
    BY DEF Synced, StageStatuses
  <2> USE <2>1 DEF VisitStatuses, ReportStatuses
  <2>3. CASE StartReport \/ PreviewStart
    BY <2>3 DEF StartReport, PreviewStart
  <2>4. ASSUME NEW s \in {"completed", "failed", "flagged"},
               SubmitReport(s) \/ PreviewSubmit(s)
        PROVE  TypeOK'
    BY <2>4 DEF SubmitReport, PreviewSubmit
  <2>5. ASSUME NEW s \in calls, s \notin {"save", "submit"}, WriteVisit(s)
        PROVE  TypeOK'
    BY <2>5 DEF WriteVisit
  <2>6. ASSUME NEW c \in {"save", "submit"}, BeginAssessment(c) PROVE TypeOK'
    BY <2>6 DEF BeginAssessment
  <2>7. CASE CommitSave \/ CommitSubmit
    BY <2>2, <2>7 DEF CommitSave, CommitSubmit
  <2>8. ASSUME NEW c \in calls, Drop(c) PROVE TypeOK'
    BY <2>8 DEF Drop
  <2> QED
    BY <1>4, <2>3, <2>4, <2>5, <2>6, <2>7, <2>8 DEF Inspect
<1>5. CASE DataRoute
  <2>1. ASSUME NEW s \in VisitStatuses, EnterVisit(s) PROVE TypeOK'
    BY <2>1 DEF EnterVisit
  <2>2. ASSUME NEW s \in {"none", "planned"}, EditInstallation(s) PROVE TypeOK'
    BY <2>2 DEF EditInstallation
  <2>3. ASSUME NEW s \in Statuses, UpsertRequest(s) PROVE TypeOK'
    BY <2>3 DEF UpsertRequest
  <2> QED
    BY <1>5, <2>1, <2>2, <2>3 DEF DataRoute
<1>6. ASSUME NEW s \in {"accepted", "needing_implements", "rejected"},
             ApplyDecision(s)
      PROVE  TypeOK'
  BY <1>6 DEF ApplyDecision, Statuses, Lifecycle!Statuses
<1>7. CASE UNCHANGED vars
  BY <1>7 DEF vars, rows
<1> QED
  BY <1>o, <1>1, <1>2, <1>3, <1>4, <1>5, <1>6, <1>7 DEF Next

(* No handler or trigger writes a value its column cannot hold, whatever   *)
(* fails and whoever interferes.                                           *)
THEOREM TypeCorrect == Spec => []TypeOK
<1>1. Init => TypeOK /\ AllWellFormed
  BY TypeInit
<1>2. TypeOK /\ AllWellFormed /\ [Next]_vars => TypeOK' /\ AllWellFormed'
  BY TypeStep
<1> QED
  BY <1>1, <1>2, PTL DEF Spec

-----------------------------------------------------------------------------
(* The request.                                                            *)

(* What OneApproval and DecisionsAgree promise while their condition holds.*)
SoleApprover ==
    /\ \A u, v \in Approving : u = v
    /\ Approving # {} => status \notin {"submitted", "inspection_scheduled",
                                        "rejected"}

DecidedTogether ==
    /\ report = "approved" => status \in Accepted \cup {"cancelled"}
    /\ report = "rejected" => status = "rejected"

(* A rejection still to be written into the report has rejected the        *)
(* request, and an allocation works on a request that was installed.       *)
RejectingAgrees ==
    \A u \in Admins : op[u].target = "rejected" /\ op[u].phase = "report"
                      => status = "rejected"

AllocatingAgrees ==
    \A u \in Admins :
        op[u].target = "seeds" /\ op[u].phase \in {"garden", "status"}
          => status \in Installed \cup {"cancelled"}

RequestInv == /\ TypeOK /\ AllWellFormed
              /\ SoleApprover /\ RejectingAgrees /\ AllocatingAgrees

Moved == \/ status' = status
         \/ <<status, status'>> \in Lifecycle!Forward
         \/ status \in Lifecycle!Undecided /\ status' = "rejected"
         \/ status \notin Lifecycle!Terminal /\ status' = "cancelled"
         \/ status = "accepted" /\ status' = "inspection_scheduled"
         \/ status \in Growing \cup {"cancelled"} /\ status' = "seeds"

(* A handler's call moves the request only along the listed edges.         *)
LEMMA CallMoves ==
  ASSUME RequestInv, NEW u \in Admins, Step(u) \/ Fail(u) \/ Stop(u)
  PROVE  Moved
<1> USE DEF RequestInv
<1>0. /\ op[u] # Idle /\ WellFormed(op[u])
      /\ op[u].target \in Targets /\ op[u].expected \in From[op[u].target]
  BY CallStep DEF AllWellFormed, WellFormed, Handlers
<1>1. CASE /\ op[u].phase \in {"status", "gone"} /\ Matches(op[u])
           /\ status' = op[u].target
  <2>1. CASE op[u].target = "seeds"
    <3>1. status \in Installed \cup {"cancelled"}
      BY <1>0, <1>1, <2>1 DEF WellFormed, AllocatingAgrees
    <3> QED
      BY <1>1, <2>1, <3>1 DEF Moved, Installed, Growing, Lifecycle!Forward
  <2>2. CASE op[u].target # "seeds"
    <3>1. status = op[u].expected
      BY <1>1, <2>2 DEF Matches
    <3>2. status \in From[status']
      BY <1>0, <1>1, <3>1
    <3> QED
      BY <1>0, <1>1, <2>2, <3>2, TargetsExpanded
         DEF From, Moved, Lifecycle!Forward, Lifecycle!Undecided,
             Lifecycle!Terminal
  <2> QED
    BY <2>1, <2>2
<1>2. CASE /\ op[u].phase = "restore" /\ status = op[u].target
           /\ status' = op[u].expected
  BY <1>0, <1>2 DEF WellFormed, From, Moved
<1> QED
  BY <1>1, <1>2, CallStep DEF Moved

(* Acceptance is written by one handler at a time: whoever comes to the    *)
(* report found the request undecided, when nobody was there.              *)
LEMMA CallInv ==
  ASSUME RequestInv, NEW u \in Admins, Step(u) \/ Fail(u) \/ Stop(u)
  PROVE  SoleApprover' /\ RejectingAgrees' /\ AllocatingAgrees'
<1> USE DEF RequestInv
<1>0. /\ op[u] # Idle /\ WellFormed(op[u]) /\ op[u] \in Handlers
      /\ op[u].target \in Targets /\ op[u].expected \in From[op[u].target]
      /\ Follows(op[u], op'[u]) /\ WellFormed(op'[u])
      /\ \A v \in Admins \ {u} : op'[v] = op[v]
  BY CallStep DEF AllWellFormed, WellFormed, Handlers, TypeOK
<1>m. Moved
  BY CallMoves
<1>s. \/ status' = status
      \/ /\ op[u].phase \in {"status", "gone"} /\ Matches(op[u])
         /\ status' = op[u].target
      \/ /\ op[u].phase = "restore" /\ status = op[u].target
         /\ status' = op[u].expected /\ op'[u] = Idle
  BY CallStep
<1>n. op[u].phase = "status" =>
        op'[u] = Idle \/ (Matches(op[u]) /\ status' = op[u].target)
  BY CallStep
<1>d. op[u].phase \in {"status", "gone"} /\ Matches(op[u])
        /\ status' = op[u].target
        /\ op[u].target \in {"accepted", "rejected", "inspection_scheduled"}
        => status \in {"submitted", "inspection_scheduled"}
  BY <1>0 DEF Matches, From
<1>1. SoleApprover'
  <2>1. CASE op[u].phase = "status" /\ op[u].target = "accepted"
    <3>1. CASE op'[u] = Idle
      <4>1. Approving' \subseteq Approving
        BY <1>0, <3>1, IdleIsNoHandler DEF Approving, Idle
      <4>2. status' = status \/ status' = "accepted"
        BY <1>s, <2>1
      <4> QED
        BY <4>1, <4>2 DEF SoleApprover
    <3>2. CASE op'[u] # Idle
      <4>1. status' = "accepted" /\ Approving = {}
        BY <1>d, <1>n, <2>1, <3>2 DEF SoleApprover
      <4>2. Approving' \subseteq {u}
        BY <1>0, <4>1 DEF Approving
      <4> QED
        BY <4>1, <4>2 DEF SoleApprover
    <3> QED
      BY <3>1, <3>2
  <2>2. CASE ~(op[u].phase = "status" /\ op[u].target = "accepted")
    <3>1. Approving' \subseteq Approving
      BY <1>0, <2>2, IdleIsNoHandler DEF Approving, Follows, WellFormed, Phases,
           Idle
    <3>2. CASE status' = status
      BY <3>1, <3>2 DEF SoleApprover
    <3>3. CASE /\ op[u].phase \in {"status", "gone"} /\ Matches(op[u])
               /\ status' = op[u].target
      <4>1. CASE status' \in {"submitted", "inspection_scheduled", "rejected"}
        <5>1. Approving = {}
          BY <1>0, <1>d, <3>3, <4>1, TargetsExpanded DEF SoleApprover
        <5> QED
          BY <3>1, <5>1 DEF SoleApprover
      <4>2. CASE status' \notin {"submitted", "inspection_scheduled", "rejected"}
        BY <3>1, <4>2 DEF SoleApprover
      <4> QED
        BY <4>1, <4>2
    <3>4. CASE op[u].phase = "restore" /\ op'[u] = Idle
      <4>1. u \in Approving
        BY <1>0, <3>4 DEF Approving, WellFormed
      <4>2. u \notin Approving'
        BY <3>4, IdleIsNoHandler DEF Approving, Idle
      <4>3. Approving' = {}
        BY <3>1, <4>1, <4>2 DEF SoleApprover
      <4> QED
        BY <4>3 DEF SoleApprover
    <3> QED
      BY <1>s, <3>2, <3>3, <3>4
  <2> QED
    BY <2>1, <2>2
<1>2. RejectingAgrees'
  <2> SUFFICES ASSUME NEW v \in Admins, op'[v].target = "rejected",
                      op'[v].phase = "report"
               PROVE  status' = "rejected"
    BY DEF RejectingAgrees
  <2>1. CASE v = u
    <3>1. op[u].phase = "status" /\ op[u].target = "rejected" /\ op'[u] # Idle
      BY <1>0, <2>1, IdleIsNoHandler DEF Follows, Phases, Idle
    <3> QED
      BY <1>n, <3>1
  <2>2. CASE v # u
    <3>1. status = "rejected"
      BY <1>0, <2>2 DEF RejectingAgrees
    <3> QED
      BY <1>m, <3>1 DEF Moved, Growing, Lifecycle!Forward,
           Lifecycle!Undecided, Lifecycle!Terminal
  <2> QED
    BY <2>1, <2>2
<1>3. AllocatingAgrees'
  <2> SUFFICES ASSUME NEW v \in Admins, op'[v].target = "seeds",
                      op'[v].phase \in {"garden", "status"}
               PROVE  status' \in Installed \cup {"cancelled"}
    BY DEF AllocatingAgrees
  <2>1. op[v].target = "seeds" /\ op[v].phase \in {"garden", "status"}
    BY <1>0, IdleIsNoHandler DEF Follows, Phases, Idle
  <2>2. status \in Installed \cup {"cancelled"}
    BY <2>1 DEF AllocatingAgrees
  <2> QED
    BY <1>m, <2>2 DEF Moved, Installed, Growing, Lifecycle!Forward,
         Lifecycle!Undecided, Lifecycle!Terminal
<1> QED
  BY <1>1, <1>2, <1>3

LEMMA RequestInit == Init => RequestInv
<1> SUFFICES ASSUME Init PROVE RequestInv
  OBVIOUS
<1>1. \A u \in Admins : op[u].phase = "idle"
  BY DEF Init, Idle
<1>2. Approving = {}
  BY <1>1 DEF Approving
<1> QED
  BY <1>1, <1>2, TypeInit DEF RequestInv, SoleApprover, RejectingAgrees,
       AllocatingAgrees

LEMMA RequestStep ==
  ASSUME RequestInv, [Next]_vars, past' # "decided"
  PROVE  RequestInv' /\ Moved
<1> USE DEF RequestInv
<1>1. TypeOK' /\ AllWellFormed'
  BY TypeStep
<1>2. ASSUME NEW u \in Admins, BeginUpdate(u) PROVE RequestInv' /\ Moved
  <2>1. /\ op'[u].phase \in {"garden", "status"} /\ status' = status
        /\ op'[u].expected = status /\ WellFormed(op'[u]) /\ op'[u] # Idle
        /\ \A v \in Admins \ {u} : op'[v] = op[v]
    BY <1>2, BeginStep, IdleIsNoHandler DEF TypeOK, Phases
  <2>2. Approving' \subseteq Approving
    BY <2>1 DEF Approving
  <2>3. SoleApprover' /\ RejectingAgrees'
    BY <2>1, <2>2 DEF SoleApprover, RejectingAgrees
  <2>4. AllocatingAgrees'
    BY <2>1 DEF AllocatingAgrees, WellFormed, From, Installed
  <2> QED
    BY <1>1, <2>1, <2>3, <2>4 DEF Moved
<1>3. ASSUME NEW u \in Admins, Step(u) \/ Fail(u) \/ Stop(u)
      PROVE  RequestInv' /\ Moved
  BY <1>1, <1>3, CallInv, CallMoves
<1>4. CASE op' = op /\ status' = status
  <2>1. Approving' = Approving
    BY <1>4 DEF Approving
  <2> QED
    BY <1>1, <1>4, <2>1 DEF SoleApprover, RejectingAgrees, AllocatingAgrees, Moved
<1> QED
  BY <1>2, <1>3, <1>4, OtherStep DEF Next, vars, rows

LEMMA RequestAlways == Spec => [](TypeOK /\ AllWellFormed
                                    /\ (past # "decided" => RequestInv))
<1>1. Init => TypeOK /\ AllWellFormed /\ RequestInv
  BY RequestInit, TypeInit
<1>2. TypeOK /\ AllWellFormed /\ (past # "decided" => RequestInv) /\ [Next]_vars
        => TypeOK' /\ AllWellFormed' /\ (past # "decided" => RequestInv)'
  BY TypeStep, PastStep, RequestStep
<1> QED
  BY <1>1, <1>2, PTL DEF Spec

(* Unless a status is written past the handlers, at most one handler is    *)
(* about to approve the report or to take its acceptance back, and none    *)
(* while the request is undecided or rejected.                             *)
THEOREM OneApprovalCorrect == Spec => []OneApproval
<1>1. (past # "decided" => RequestInv) => OneApproval
  BY DEF RequestInv, SoleApprover, OneApproval
<1> QED
  BY <1>1, RequestAlways, PTL

(* Under the same condition the request leaves the pipeline only where an  *)
(* approval is taken back and where an allocation is written.              *)
THEOREM MovesCorrect == Spec => PipelineMoves
<1>1. TypeOK /\ AllWellFormed /\ (past # "decided" => RequestInv) /\ [Next]_vars =>
        [\/ past' = "decided"
         \/ <<status, status'>> \in Lifecycle!Forward
         \/ status \in Lifecycle!Undecided /\ status' = "rejected"
         \/ status \notin Lifecycle!Terminal /\ status' = "cancelled"
         \/ status = "accepted" /\ status' = "inspection_scheduled"
         \/ status \in Growing \cup {"cancelled"} /\ status' = "seeds"]_status
  BY PastStep, RequestStep DEF Moved
<1> QED
  BY <1>1, RequestAlways, PTL DEF Spec, PipelineMoves

-----------------------------------------------------------------------------
(* The assessment.  While a handler is about to approve, nobody has.       *)
DecisionInv == /\ RequestInv /\ DecidedTogether
               /\ Approving # {} => report # "approved"

LEMMA DecisionStep ==
  ASSUME DecisionInv, [Next]_vars, past' \notin {"lost", "decided"}
  PROVE  DecisionInv'
<1> USE DEF DecisionInv
<1>1. RequestInv' /\ Moved
  BY RequestStep
<1>2. CASE report' = report
  <2>1. ASSUME report = "approved" PROVE Approving' = {}
    <3>1. Approving = {}
      BY <2>1
    <3>2. ASSUME NEW u \in Admins, BeginUpdate(u) PROVE Approving' = {}
      BY <3>1, <3>2, BeginStep, IdleIsNoHandler
         DEF Approving, RequestInv, TypeOK
    <3>3. ASSUME NEW u \in Admins, Step(u) \/ Fail(u) \/ Stop(u)
          PROVE  Approving' = {}
      <4>1. \A v \in Admins \ {u} : op'[v] = op[v]
        BY <3>3, CallStep DEF RequestInv, TypeOK
      <4>2. CASE u \in Approving'
        <5>1. /\ op[u] # Idle /\ op'[u] # Idle /\ op[u].target = "accepted"
              /\ op[u].phase = "status"
          BY <3>1, <3>3, <4>2, CallStep, IdleIsNoHandler
             DEF Approving, RequestInv, Follows, Phases
        <5>2. status \in From["accepted"]
          BY <3>3, <5>1, CallStep
             DEF RequestInv, AllWellFormed, WellFormed, Matches
        <5> QED
          BY <2>1, <5>2 DEF From, DecidedTogether, Accepted
      <4>3. CASE u \notin Approving'
        BY <3>1, <4>1, <4>3 DEF Approving
      <4> QED
        BY <4>2, <4>3
    <3>4. CASE op' = op
      BY <3>1, <3>4 DEF Approving
    <3> QED
      BY <3>2, <3>3, <3>4, OtherStep DEF Next, vars, rows, RequestInv
  <2>2. ASSUME report = "approved"
        PROVE  status' \in Accepted \cup {"cancelled"}
    <3>1. Approving = {}
      BY <2>2
    <3>2. status' # "inspection_scheduled"
      <4>1. ASSUME NEW u \in Admins, Step(u) \/ Fail(u) \/ Stop(u)
            PROVE  status' # "inspection_scheduled"
        <5>1. op[u].phase # "restore"
          BY <3>1, <4>1, CallStep
             DEF Approving, RequestInv, AllWellFormed, WellFormed
        <5>2. status # "submitted" /\ status # "inspection_scheduled"
          BY <2>2 DEF DecidedTogether, Accepted
        <5>3. CASE /\ op[u].phase \in {"status", "gone"} /\ Matches(op[u])
                   /\ status' = op[u].target
          <6>1. op[u].expected \in From[op[u].target] /\ op[u] # Idle
            BY <4>1, CallStep DEF RequestInv, AllWellFormed, WellFormed
          <6> QED
            BY <5>2, <5>3, <6>1 DEF Matches, From
        <5> QED
          BY <4>1, <5>1, <5>2, <5>3, CallStep DEF RequestInv
      <4>2. CASE status' = status
        BY <2>2, <4>2 DEF DecidedTogether, Accepted
      <4> QED
        BY <4>1, <4>2, BeginStep, OtherStep DEF Next, vars, rows, RequestInv
    <3> QED
      BY <1>1, <2>2, <3>2 DEF DecidedTogether, Moved, Accepted,
           Lifecycle!Forward, Lifecycle!Undecided, Lifecycle!Terminal, Growing
  <2>3. ASSUME report = "rejected" PROVE status' = "rejected"
    BY <1>1, <2>3 DEF DecidedTogether, Moved, Lifecycle!Forward,
         Lifecycle!Undecided, Lifecycle!Terminal, Growing
  <2> QED
    BY <1>1, <1>2, <2>1, <2>2, <2>3 DEF DecidedTogether
<1>3. CASE report' \in {"draft", "submitted_for_approval"}
  BY <1>1, <1>3 DEF DecidedTogether
<1>4. ASSUME NEW u \in Admins, Step(u) \/ Fail(u) \/ Stop(u),
             report' # report
      PROVE  DecisionInv'
  <2>1. /\ op[u].phase = "report" /\ report' = Decision(op[u])
        /\ op[u] # Idle /\ WellFormed(op[u]) /\ Follows(op[u], op'[u])
        /\ op'[u].phase # "restore" /\ status' = status
        /\ \A v \in Admins \ {u} : op'[v] = op[v]
    BY <1>4, CallStep DEF RequestInv, AllWellFormed, TypeOK
  <2>2. CASE op[u].target = "accepted"
    <3>1. u \in Approving
      BY <2>1, <2>2 DEF Approving
    <3>2. Approving' = {}
      BY <2>1, <3>1, IdleIsNoHandler
         DEF Approving, RequestInv, SoleApprover, Follows, Phases
    <3>3. status \in Accepted \cup {"cancelled"}
      BY <3>1 DEF RequestInv, SoleApprover, TypeOK, Statuses,
           Lifecycle!Statuses, Accepted
    <3> QED
      BY <1>1, <2>1, <2>2, <3>2, <3>3 DEF Decision, DecidedTogether
  <2>3. CASE op[u].target = "rejected"
    <3>1. status = "rejected"
      BY <2>1, <2>3 DEF RequestInv, RejectingAgrees
    <3> QED
      BY <1>1, <2>1, <2>3, <3>1 DEF Decision, DecidedTogether
  <2> QED
    BY <2>1, <2>2, <2>3 DEF WellFormed
<1> QED
  BY <1>2, <1>3, <1>4, BeginStep, OtherStep DEF Next, vars, rows, RequestInv

(* When calls that fail are not carried out and no status is written past  *)
(* the handlers, an assessment is approved only with its request and       *)
(* rejected only with it, though no transaction holds the two together.    *)
THEOREM DecisionsCorrect == Spec => []DecisionsAgree
<1> DEFINE Inv == /\ TypeOK /\ AllWellFormed
                  /\ past \notin {"lost", "decided"} => DecisionInv
<1>1. Init => Inv
  <2> SUFFICES ASSUME Init PROVE Inv
    OBVIOUS
  <2>1. RequestInv
    BY RequestInit
  <2>2. DecidedTogether /\ report # "approved"
    BY DEF Init, DecidedTogether
  <2> QED
    BY <2>1, <2>2, TypeInit DEF DecisionInv
<1>2. Inv /\ [Next]_vars => Inv'
  BY TypeStep, PastStep, DecisionStep
<1>3. Inv => DecisionsAgree
  BY DEF DecisionInv, DecidedTogether, DecisionsAgree
<1> QED
  BY <1>1, <1>2, <1>3, PTL DEF Spec
-----------------------------------------------------------------------------
(* The workflow.  While nothing but other administrators disturbs them,    *)
(* handlers come to their end in their order.                              *)
LEMMA CalmStep ==
  ASSUME TypeOK, AllWellFormed, NEW u \in Admins, past' \in Calm,
         Step(u) \/ Fail(u) \/ Stop(u)
  PROVE  /\ Step(u)
         /\ ~Refuse(u) /\ op[u].phase # "garden" => op'[u] = Proceed(op[u])
         /\ op[u].phase = "garden" => stage' = stage /\ workflow' = workflow
<1> USE DEF Happens, Milder, Pasts, Calm
<1>1. Step(u)
  BY DEF Fail, Stop, TypeOK
<1>2. ASSUME NEW o, Answered(u, o) PROVE op'[u] = Proceed(o)
  BY <1>2 DEF Answered, TypeOK
<1>3. CASE WriteInstallation(u) \/ WriteAllocation(u)
             \/ (\E c \in Crops : WritePlanting(u, c))
  BY <1>1, <1>3 DEF WriteInstallation, WriteAllocation, WritePlanting
<1>4. CASE WriteStatus(u) \/ WriteReport(u) \/ WriteRestore(u) \/ WriteStage(u)
  <2>1. Answered(u, op[u]) /\ op[u].phase # "garden"
    BY <1>4 DEF WriteStatus, WriteReport, WriteRestore, WriteStage
  <2> QED
    BY <1>1, <1>2, <2>1
<1>5. CASE Refuse(u)
  BY <1>1, <1>5 DEF Refuse, rows
<1> QED
  BY <1>1, <1>3, <1>4, <1>5 DEF Step

(* A closed request has a closed workflow or such a handler.               *)
ClosingInv == status \in {"rejected", "cancelled"} /\ workflow # "cancelled"
                => \E u \in Admins : Closing(u)

(* A handler that closes the request goes on to close the workflow.        *)
LEMMA CallCloses ==
  ASSUME TypeOK, AllWellFormed, NEW u \in Admins, past' \in Calm,
         Step(u) \/ Fail(u) \/ Stop(u)
  PROVE  /\ workflow' # "cancelled" => workflow # "cancelled"
         /\ Closing(u) => workflow' = "cancelled" \/ Closing(u)'
         /\ status' \in {"rejected", "cancelled"}
              => status' = status \/ Closing(u)'
<1>0. op[u] # Idle /\ op[u] \in Handlers /\ WellFormed(op[u])
  BY CallStep DEF AllWellFormed, WellFormed
<1>1. Step(u)
  BY CalmStep
<1>2. workflow' # "cancelled" => workflow # "cancelled"
  BY <1>1 DEF Step, WriteInstallation, WriteAllocation, WritePlanting,
       WriteStatus, WriteReport, WriteRestore, WriteStage, Refuse, rows
<1>3. ASSUME Closing(u) PROVE workflow' = "cancelled" \/ Closing(u)'
  <2>1. ~Refuse(u) /\ op'[u] = Proceed(op[u])
    BY <1>3, CalmStep DEF Closing, Refuse
  <2>2. CASE op[u].phase = "report"
    BY <1>0, <1>3, <2>1, <2>2 DEF Closing, Proceed, FromFirst, FirstStage, Handlers
  <2>3. CASE op[u].phase = "first"
    <3>1. WriteStage(u)
      BY <1>1, <1>3, <2>3 DEF Closing, Step, WriteInstallation, WriteAllocation,
           WritePlanting, WriteStatus, WriteReport, WriteRestore, Refuse
    <3> QED
      BY <1>3, <2>3, <3>1 DEF Closing, WriteStage, FirstStage, Closes
  <2> QED
    BY <1>3, <2>2, <2>3 DEF Closing
<1>4. ASSUME status' \in {"rejected", "cancelled"}, status' # status
      PROVE  Closing(u)'
  <2>1. CASE op[u].phase \in {"status", "gone"} /\ status' = op[u].target
    <3>1. op[u].phase = "status"
      BY <1>0, <1>4, <2>1 DEF WellFormed
    <3>2. ~Refuse(u)
      BY <1>4 DEF Refuse, rows
    <3>3. op'[u] = FromReport(op[u])
      BY <3>1, <3>2, CalmStep DEF Proceed
    <3> QED
      BY <1>0, <1>4, <2>1, <3>3
         DEF Closing, FromReport, FromFirst, FirstStage, Handlers
  <2>2. CASE op[u].phase = "restore" /\ status' = op[u].expected
    BY <1>0, <1>4, <2>2 DEF WellFormed, From
  <2> QED
    BY <1>4, <2>1, <2>2, CallStep
<1> QED
  BY <1>2, <1>3, <1>4

(* Nobody else closes anything.                                            *)
LEMMA OthersStep ==
  ASSUME TypeOK, past' \in Calm,
         DataRoute \/ Inspect
           \/ (\E s \in {"accepted", "needing_implements", "rejected"} :
                  ApplyDecision(s))
  PROVE  op' = op /\ status' = status /\ workflow' = workflow
<1>1. past' # "decided"
  BY DEF Calm
<1>2. workflow' = workflow
  BY <1>1, OtherStep DEF DataRoute, EnterVisit, EditInstallation,
     UpsertRequest, ApplyDecision, Inspect, StartReport, PreviewStart, SubmitReport, PreviewSubmit, WriteVisit, BeginAssessment,
     CommitSave, CommitSubmit, Drop, rows
<1> QED
  BY <1>1, <1>2, OtherStep

LEMMA ClosingStep ==
  ASSUME TypeOK, AllWellFormed, ClosingInv, [Next]_vars, past' \in Calm
  PROVE  ClosingInv'
<1>1. ASSUME NEW u \in Admins, BeginUpdate(u) PROVE ClosingInv'
  <2>1. /\ op[u] = Idle /\ status' = status /\ workflow' = workflow
        /\ \A v \in Admins \ {u} : op'[v] = op[v]
    BY <1>1, BeginStep DEF TypeOK
  <2>2. ~Closing(u)
    BY <2>1, IdleIsNoHandler DEF Closing, Phases
  <2> QED
    BY <2>1, <2>2 DEF ClosingInv, Closing
<1>2. ASSUME NEW u \in Admins, Step(u) \/ Fail(u) \/ Stop(u) PROVE ClosingInv'
  <2>1. \A v \in Admins \ {u} : op'[v] = op[v]
    BY <1>2, CallStep DEF TypeOK
  <2>2. \A v \in Admins \ {u} : Closing(v) => Closing(v)'
    BY <2>1 DEF Closing
  <2> QED
    BY <1>2, <2>2, CallCloses DEF ClosingInv
<1>3. CASE op' = op /\ status' = status /\ workflow' = workflow
  BY <1>3 DEF ClosingInv, Closing
<1> QED
  BY <1>1, <1>2, <1>3, OthersStep DEF Next, vars, rows

(* While administrators only overlap, a rejected or cancelled request has  *)
(* a closed workflow once the handlers are over.                           *)
THEOREM ClosesCorrect == Spec => []ClosesWorkflow
<1> DEFINE Inv == TypeOK /\ AllWellFormed /\ (past \in Calm => ClosingInv)
<1>1. Init => Inv
  BY TypeInit DEF Init, ClosingInv, Calm
<1>2. Inv /\ [Next]_vars => Inv'
  BY TypeStep, PastStep, ClosingStep
<1>3. Inv => ClosesWorkflow
  BY IdleIsNoHandler DEF ClosesWorkflow, Calm, ClosingInv, Closing, Quiet, Phases
<1> QED
  BY <1>1, <1>2, <1>3, PTL DEF Spec
-----------------------------------------------------------------------------
(* The pipeline, with the workflow as closing handlers will leave it.      *)

(* Nobody compensates while every call is answered.                        *)
NoneRestores == \A u \in Admins : op[u].phase # "restore"

(* Only a handler that closes the request touches the workflow, and it     *)
(* comes to that from its write of the request alone.                      *)
LEMMA CallWorkflow ==
  ASSUME TypeOK, AllWellFormed, NEW u \in Admins, past' \in Calm,
         Step(u) \/ Fail(u) \/ Stop(u)
  PROVE  /\ workflow' = workflow \/ (Closing(u) /\ workflow' = "cancelled")
         /\ Closing(u)' => \/ Closing(u)
                           \/ /\ op[u].phase = "status" /\ op'[u] # Idle
                              /\ op[u].target \in {"rejected", "cancelled"}
         /\ \A v \in Admins \ {u} : Closing(v)' <=> Closing(v)
         /\ op'[u].phase # "restore"
<1>0. /\ op[u] # Idle /\ op[u] \in Handlers /\ WellFormed(op[u])
      /\ Follows(op[u], op'[u]) /\ \A v \in Admins \ {u} : op'[v] = op[v]
  BY CallStep DEF AllWellFormed, WellFormed, TypeOK
<1>1. /\ Step(u)
      /\ ~Refuse(u) /\ op[u].phase # "garden" => op'[u] = Proceed(op[u])
  BY CalmStep
<1>2. workflow' = workflow \/ (Closing(u) /\ workflow' = "cancelled")
  <2>1. CASE WriteStage(u)
    BY <1>0, <2>1 DEF WriteStage, WellFormed, FirstStage, SecondStage, Closes,
         Closing
  <2>2. CASE ~WriteStage(u)
    BY <1>1, <2>2 DEF Step, WriteInstallation, WriteAllocation, WritePlanting,
         WriteStatus, WriteReport, WriteRestore, Refuse, rows
  <2> QED
    BY <2>1, <2>2
<1>3. ASSUME op'[u] # Idle
      PROVE  /\ op'[u].target = op[u].target
             /\ op'[u].phase # "restore"
             /\ Closing(u)' => op[u].phase \in {"status", "report", "first"}
  <2>1. op'[u].target = op[u].target
    BY <1>0, <1>3 DEF Follows
  <2>2. CASE op[u].phase = "garden"
    BY <1>0, <1>3, <2>1, <2>2 DEF Follows, WellFormed, Closing
  <2>3. CASE op[u].phase # "garden"
    <3>1. ~Refuse(u)
      BY <1>3 DEF Refuse, TypeOK
    <3>2. op'[u] = Proceed(op[u])
      BY <1>1, <2>3, <3>1
    <3> QED
      BY <1>0, <1>3, <2>1, <2>3, <3>2 DEF Proceed, FromReport, FromFirst,
         FromSecond, Handlers, Phases, Closing
  <2> QED
    BY <2>1, <2>2, <2>3
<1>4. \A v \in Admins \ {u} : Closing(v)' <=> Closing(v)
  BY <1>0 DEF Closing
<1> QED
  BY <1>2, <1>3, <1>4, IdleIsNoHandler DEF Closing, Idle

(* What the workflow is to be changes only with the request.               *)
LEMMA PipelineCall ==
  ASSUME RequestInv, NoneRestores, NEW u \in Admins, past' \in Calm,
         Step(u) \/ Fail(u) \/ Stop(u)
  PROVE  \/ Pipeline!Next
         \/ UNCHANGED <<status, WorkflowToBe>>
         \/ /\ status \in Growing \cup {"cancelled"} /\ status' = "seeds"
            /\ UNCHANGED WorkflowToBe
<1>0. /\ TypeOK /\ AllWellFormed /\ op[u] # Idle /\ WellFormed(op[u])
      /\ op[u].target \in Targets /\ op[u].expected \in From[op[u].target]
      /\ op[u].phase # "restore"
  BY CallStep DEF RequestInv, NoneRestores, AllWellFormed, WellFormed, Handlers
<1>1. Moved
  BY CallMoves
<1>2. /\ \/ status' = status
         \/ /\ op[u].phase \in {"status", "gone"} /\ Matches(op[u])
            /\ status' = op[u].target
      /\ op[u].phase = "status" =>
           op'[u] = Idle \/ (Matches(op[u]) /\ status' = op[u].target)
  BY <1>0, CallStep
<1>3. /\ workflow' = workflow \/ (Closing(u) /\ workflow' = "cancelled")
      /\ Closing(u)' => \/ Closing(u)
                        \/ /\ op[u].phase = "status" /\ op'[u] # Idle
                           /\ op[u].target \in {"rejected", "cancelled"}
      /\ \A v \in Admins \ {u} : Closing(v)' <=> Closing(v)
      /\ Closing(u) => workflow' = "cancelled" \/ Closing(u)'
      /\ status' \in {"rejected", "cancelled"}
           => status' = status \/ Closing(u)'
  BY <1>0, CallWorkflow, CallCloses
<1>4. Closing(u)' /\ ~Closing(u)
        => /\ op[u].target \in {"rejected", "cancelled"}
           /\ status' = op[u].target /\ status' # status
  BY <1>0, <1>2, <1>3 DEF From, Matches
<1>5. status' = status \/ status' \notin {"rejected", "cancelled"}
        => UNCHANGED WorkflowToBe
  <2>1. CASE Closing(u)
    BY <1>3, <2>1 DEF WorkflowToBe
  <2>2. CASE ~Closing(u)
    <3> SUFFICES ASSUME status' = status \/ status' \notin {"rejected", "cancelled"}
                 PROVE  UNCHANGED WorkflowToBe
      OBVIOUS
    <3>1. ~Closing(u)'
      BY <1>4, <2>2
    <3>2. (\E v \in Admins : Closing(v))' <=> \E v \in Admins : Closing(v)
      BY <1>3, <2>2, <3>1
    <3> QED
      BY <1>3, <2>2, <3>2 DEF WorkflowToBe
  <2> QED
    BY <2>1, <2>2
<1>6. CASE status' = status
  BY <1>5, <1>6
<1>7. CASE status' # status /\ status' \in {"rejected", "cancelled"}
  <2>1. WorkflowToBe' = "cancelled"
    BY <1>3, <1>7 DEF WorkflowToBe
  <2> QED
    BY <1>1, <1>7, <2>1 DEF Moved, Lifecycle!Forward, Lifecycle!Undecided,
       Lifecycle!Terminal, Pipeline!Undecided, Pipeline!Terminal,
       Pipeline!Next, Pipeline!Reject, Pipeline!Cancel
<1>8. CASE status' # status /\ status' \notin {"rejected", "cancelled"}
  <2>1. ~(status = "accepted" /\ status' = "inspection_scheduled")
    BY <1>0, <1>2, <1>8 DEF From, Matches
  <2>2. UNCHANGED WorkflowToBe
    BY <1>5, <1>8
  <2> QED
    BY <1>1, <1>8, <2>1, <2>2 DEF Moved, Lifecycle!Forward,
       Pipeline!Forward, Pipeline!Next, Pipeline!Advance
<1> QED
  BY <1>6, <1>7, <1>8

LEMMA PipelineStep ==
  ASSUME RequestInv, NoneRestores, [Next]_vars, past' \in Calm
  PROVE  /\ NoneRestores'
         /\ \/ Pipeline!Next
            \/ UNCHANGED <<status, WorkflowToBe>>
            \/ /\ status \in Growing \cup {"cancelled"} /\ status' = "seeds"
               /\ UNCHANGED WorkflowToBe
<1>0. TypeOK /\ AllWellFormed
  BY DEF RequestInv
<1>1. ASSUME NEW u \in Admins, BeginUpdate(u)
      PROVE  NoneRestores' /\ UNCHANGED <<status, WorkflowToBe>>
  <2>1. /\ op[u] = Idle /\ status' = status /\ workflow' = workflow
        /\ op'[u].phase \in {"garden", "status"}
        /\ \A v \in Admins \ {u} : op'[v] = op[v]
    BY <1>0, <1>1, BeginStep DEF TypeOK
  <2>2. ~Closing(u) /\ ~Closing(u)'
    BY <2>1 DEF Closing, Idle
  <2>3. (\E v \in Admins : Closing(v))' <=> \E v \in Admins : Closing(v)
    BY <2>1, <2>2 DEF Closing
  <2> QED
    BY <2>1, <2>3 DEF NoneRestores, WorkflowToBe
<1>2. ASSUME NEW u \in Admins, Step(u) \/ Fail(u) \/ Stop(u)
      PROVE  NoneRestores'
  <2>1. op'[u].phase # "restore"
    BY <1>0, <1>2, CallWorkflow
  <2>2. \A v \in Admins \ {u} : op'[v] = op[v]
    BY <1>0, <1>2, CallStep DEF TypeOK
  <2> QED
    BY <2>1, <2>2 DEF NoneRestores
<1>3. CASE op' = op /\ status' = status /\ workflow' = workflow
  BY <1>3 DEF NoneRestores, WorkflowToBe, Closing
<1> QED
  BY <1>0, <1>1, <1>2, <1>3, PipelineCall, OthersStep
     DEF Next, vars, rows

(* While administrators only overlap, the handlers without transactions    *)
(* implement GardenLifecycle but for the allocation's one edge.            *)
THEOREM Implements == Spec => FollowsLifecycle
<1> DEFINE Inv == /\ TypeOK /\ AllWellFormed
                  /\ past \in Calm => RequestInv /\ NoneRestores
<1>1. Init => Inv /\ (past # "decided" => Pipeline!Init)
  <2> SUFFICES ASSUME Init PROVE Inv /\ (past # "decided" => Pipeline!Init)
    OBVIOUS
  <2>1. \A u \in Admins : op[u].phase = "idle"
    BY DEF Init, Idle
  <2> QED
    BY <2>1, TypeInit, RequestInit
       DEF Init, NoneRestores, Pipeline!Init, WorkflowToBe, Closing
<1>2. Inv /\ [Next]_vars => Inv'
  BY TypeStep, PastStep, RequestStep, PipelineStep DEF Calm
<1>3. Inv /\ [Next]_vars =>
        [past' \in {"alone", "together"} =>
             \/ Pipeline!Next
             \/ UNCHANGED <<status, WorkflowToBe>>
             \/ /\ status \in Growing \cup {"cancelled"} /\ status' = "seeds"
                /\ UNCHANGED WorkflowToBe
        ]_vars
  BY PastStep, PipelineStep DEF Calm
<1> QED
  BY <1>1, <1>2, <1>3, PTL DEF Spec, FollowsLifecycle

-----------------------------------------------------------------------------
(* The stages, while one administrator at a time is at work.               *)

(* The stages g after the entry of the table for a handler's target, and   *)
(* after both of its entries.                                              *)
Entered(table, t, g) ==
    IF t \in DOMAIN table THEN [g EXCEPT ![table[t][1]] = table[t][2]] ELSE g

Ended(t, g) == Entered(SecondStage, t, Entered(FirstStage, t, g))

(* A handler about to write the request, or on its way from there, will    *)
(* leave the stages telling what the request tells.                        *)
Keeps(o) ==
    /\ o.phase \in {"garden", "status", "report", "first", "second"}
    /\ o.phase = "garden" /\ o.decides => install # "none"
    /\ o.phase \in {"garden", "status"}
         => status = o.expected /\ StagesTell(status, stage)
    /\ o.phase \in {"report", "first"}
         => status = o.target /\ StagesTell(status, Ended(status, stage))
    /\ o.phase = "second"
         => /\ status = o.target
            /\ StagesTell(status, Entered(SecondStage, status, stage))

AloneInv ==
    /\ \A u, v \in Admins : op[u] # Idle /\ op[v] # Idle => u = v
    /\ Quiet => StagesTell(status, stage)
    /\ \A u \in Admins : op[u] # Idle => Keeps(op[u])

(* Entry by entry.                                                         *)
LEMMA Entries ==
  ASSUME NEW g \in [StageKeys -> StageStatuses]
  PROVE  /\ Ended("inspection_scheduled", g) = g
         /\ Ended("live", g) = g
         /\ Ended("rejected", g) = [g EXCEPT !["approval"] = "rejected"]
         /\ Ended("cancelled", g) = [g EXCEPT !["approval"] = "skipped"]
         /\ Ended("needing_implements", g)
              = [g EXCEPT !["installation"] = "in_progress"]
         /\ Ended("final_install", g)
              = [g EXCEPT !["maintenance_tasks"] = "in_progress"]
         /\ Ended("accepted", g) = [g EXCEPT !["approval"] = "completed",
                                             !["installation"] = "ready"]
         /\ Ended("implements_installed", g)
              = [g EXCEPT !["installation"] = "completed",
                          !["crop_allocation"] = "ready"]
         /\ Ended("seeds", g) = [g EXCEPT !["crop_allocation"] = "completed",
                                          !["maintenance_tasks"] = "ready"]
         /\ Entered(SecondStage, "accepted", g)
              = [g EXCEPT !["installation"] = "ready"]
         /\ Entered(SecondStage, "implements_installed", g)
              = [g EXCEPT !["crop_allocation"] = "ready"]
         /\ Entered(SecondStage, "seeds", g)
              = [g EXCEPT !["maintenance_tasks"] = "ready"]
BY DEF Ended, Entered, FirstStage, SecondStage, StageKeys, StageStatuses

(* From stages that tell the status a handler was begun from, its entries  *)
(* lead to stages that tell the status it writes.                          *)
LEMMA EndsTell ==
  ASSUME NEW g \in [StageKeys -> StageStatuses], NEW t \in Targets,
         NEW s \in From[t], StagesTell(s, g)
  PROVE  StagesTell(t, Ended(t, g))
<1> USE Entries DEF StagesTell, From, Accepted, Installed, Allocated, Growing,
                    StageKeys, Lifecycle!Undecided
<1>1. CASE t = "inspection_scheduled"
  BY <1>1
<1>2. CASE t = "accepted"
  BY <1>2
<1>3. CASE t = "rejected"
  BY <1>3
<1>4. CASE t = "cancelled"
  BY <1>4
<1>5. CASE t = "needing_implements"
  BY <1>5
<1>6. CASE t = "implements_installed"
  BY <1>6
<1>7. CASE t = "seeds"
  BY <1>7
<1>8. CASE t = "final_install"
  BY <1>8
<1>9. CASE t = "live"
  BY <1>9
<1> QED
  BY <1>1, <1>2, <1>3, <1>4, <1>5, <1>6, <1>7, <1>8, <1>9, TargetsExpanded

(* Readying an approval stage nobody touched makes no difference to what   *)
(* the stages tell, now or when a handler is over.                         *)
LEMMA ReadiedTells ==
  ASSUME NEW g \in [StageKeys -> StageStatuses], g["approval"] = "not_started",
         NEW h, h = [g EXCEPT !["approval"] = "ready"], NEW s \in Statuses
  PROVE  /\ StagesTell(s, g) => StagesTell(s, h)
         /\ s \in Targets /\ StagesTell(s, Ended(s, g))
              => StagesTell(s, Ended(s, h))
         /\ s \in DOMAIN SecondStage
              /\ StagesTell(s, Entered(SecondStage, s, g))
              => StagesTell(s, Entered(SecondStage, s, h))
<1> USE DEF StagesTell, Accepted, Installed, Allocated, Growing, StageKeys,
            Lifecycle!Undecided
<1>0. h \in [StageKeys -> StageStatuses]
  BY DEF StageStatuses
<1>1. StagesTell(s, g) => StagesTell(s, h)
  BY DEF Statuses, Lifecycle!Statuses
<1>2. ASSUME s \in Targets, StagesTell(s, Ended(s, g))
      PROVE  StagesTell(s, Ended(s, h))
  <2>0. \A x \in StageStatuses :
          [h EXCEPT !["approval"] = x] = [g EXCEPT !["approval"] = x]
    BY <1>0
  <2>1. CASE s = "inspection_scheduled"
    BY <1>0, <1>1, <1>2, <2>1, Entries
  <2>2. CASE s = "live"
    BY <1>0, <1>2, <2>2, Entries
  <2>3. CASE s = "rejected"
    BY <1>0, <1>2, <2>0, <2>3, Entries DEF StageStatuses
  <2>4. CASE s = "cancelled"
    BY <1>0, <1>2, <2>0, <2>4, Entries DEF StageStatuses
  <2>5. CASE s = "accepted"
    <3>1. \A k \in StageKeys : Ended("accepted", h)[k] = Ended("accepted", g)[k]
      <4>1. /\ Ended("accepted", h) = [h EXCEPT !["approval"] = "completed",
                                               !["installation"] = "ready"]
            /\ Ended("accepted", g) = [g EXCEPT !["approval"] = "completed",
                                               !["installation"] = "ready"]
        BY <1>0, Entries
      <4> QED
        BY <1>0, <4>1
    <3> QED
      BY <1>2, <2>5, <3>1
  <2>6. CASE s = "needing_implements"
    BY <1>0, <1>2, <2>6, Entries
  <2>7. CASE s = "implements_installed"
    BY <1>0, <1>2, <2>7, Entries
  <2>8. CASE s = "seeds"
    BY <1>0, <1>2, <2>8, Entries
  <2>9. CASE s = "final_install"
    BY <1>0, <1>2, <2>9, Entries
  <2> QED
    BY <1>2, <2>1, <2>2, <2>3, <2>4, <2>5, <2>6, <2>7, <2>8, <2>9,
       TargetsExpanded
<1>3. ASSUME s \in DOMAIN SecondStage, StagesTell(s, Entered(SecondStage, s, g))
      PROVE  StagesTell(s, Entered(SecondStage, s, h))
  <2>1. s \in {"accepted", "implements_installed", "seeds"}
    BY <1>3 DEF SecondStage
  <2> QED
    BY <1>0, <1>3, <2>1, Entries
<1> QED
  BY <1>1, <1>2, <1>3

(* A call of the administrator who is alone.                               *)
LEMMA AloneCall ==
  ASSUME TypeOK, AllWellFormed, NEW u \in Admins, Keeps(op[u]),
         Step(u) \/ Fail(u) \/ Stop(u), past' = "alone"
  PROVE  IF op'[u] = Idle THEN StagesTell(status', stage') ELSE Keeps(op[u])'
<1>0. /\ op[u] # Idle /\ op[u] \in Handlers /\ WellFormed(op[u])
      /\ stage \in [StageKeys -> StageStatuses]
  BY CallStep DEF AllWellFormed, WellFormed, TypeOK
<1>1. /\ Step(u)
      /\ ~Refuse(u) /\ op[u].phase # "garden" => op'[u] = Proceed(op[u])
      /\ op[u].phase = "garden" => stage' = stage
  BY CalmStep DEF Calm
<1>2. CASE op[u].phase = "garden"
  <2>1. status' = status /\ stage' = stage
    BY <1>1, <1>2, CallStep
  <2>2. CASE Refuse(u)
    BY <1>2, <2>1, <2>2 DEF Keeps, Refuse, TypeOK
  <2>3. ASSUME NEW o \in Handlers, Answered(u, o), o.phase = "garden", ~o.decides,
               o.expected = op[u].expected
        PROVE  Keeps(op[u])' /\ op'[u] # Idle
    <3>1. op'[u] = Proceed(o)
      BY <2>3 DEF Answered, Happens, Milder, Pasts, TypeOK
    <3>2. /\ op'[u].phase \in {"garden", "status"} /\ ~op'[u].decides
          /\ op'[u].expected = op[u].expected
      BY <2>3, <3>1 DEF Proceed, Handlers
    <3> QED
      BY <1>2, <2>1, <3>2 DEF Keeps, Idle
  <2>4. CASE WriteInstallation(u)
    <3> DEFINE o == [op[u] EXCEPT !.decides = FALSE]
    <3>1. Answered(u, o)
      BY <1>2, <2>4 DEF WriteInstallation, Keeps
    <3>2. /\ o \in Handlers /\ o.phase = "garden" /\ ~o.decides
          /\ o.expected = op[u].expected
      BY <1>0, <1>2, <3>1 DEF Handlers
    <3> HIDE DEF o
    <3> QED
      BY <2>3, <3>1, <3>2
  <2>5. CASE WriteAllocation(u)
    <3> DEFINE o == [op[u] EXCEPT !.todo = {}]
    <3>1. Answered(u, o) /\ ~op[u].decides
      BY <1>0, <1>2, <2>5 DEF WriteAllocation, WellFormed
    <3>2. /\ o \in Handlers /\ o.phase = "garden" /\ ~o.decides
          /\ o.expected = op[u].expected
      BY <1>0, <1>2, <3>1 DEF Handlers
    <3> HIDE DEF o
    <3> QED
      BY <2>3, <3>1, <3>2
  <2>6. ASSUME NEW c \in Crops, WritePlanting(u, c)
        PROVE  Keeps(op[u])' /\ op'[u] # Idle
    <3> DEFINE o == [op[u] EXCEPT !.todo = @ \ {c}]
    <3>1. Answered(u, o) /\ ~op[u].decides
      BY <1>0, <1>2, <2>6 DEF WritePlanting, WellFormed
    <3>2. /\ o \in Handlers /\ o.phase = "garden" /\ ~o.decides
          /\ o.expected = op[u].expected
      BY <1>0, <1>2, <3>1 DEF Handlers
    <3> HIDE DEF o
    <3> QED
      BY <2>3, <3>1, <3>2
  <2> QED
    BY <1>1, <1>2, <2>2, <2>4, <2>5, <2>6
       DEF Step, WriteStatus, WriteReport, WriteRestore, WriteStage
<1>3. ASSUME op'[u] = FromFirst(op[u]), status' = op[u].target, stage' = stage,
             StagesTell(status', Ended(status', stage))
      PROVE  IF op'[u] = Idle THEN StagesTell(status', stage')
                              ELSE Keeps(op[u])'
  <2>1. CASE op[u].target \in DOMAIN FirstStage
    <3>1. /\ op'[u].phase = "first" /\ op'[u].target = op[u].target
      BY <1>0, <1>3, <2>1 DEF FromFirst, Handlers
    <3> QED
      BY <1>3, <3>1 DEF Keeps, Idle
  <2>2. CASE op[u].target \notin DOMAIN FirstStage
    <3>1. op[u].target \in {"inspection_scheduled", "live"}
      BY <1>0, <2>2, TargetsExpanded DEF FirstStage, Handlers
    <3> QED
      BY <1>0, <1>3, <2>2, <3>1, Entries DEF FromFirst
  <2> QED
    BY <2>1, <2>2
<1>4. CASE op[u].phase = "status"
  <2>1. Matches(op[u]) /\ WriteStatus(u)
    BY <1>1, <1>4 DEF Keeps, Matches, Step, WriteInstallation, WriteAllocation,
         WritePlanting, WriteReport, WriteRestore, WriteStage, Refuse
  <2>2. /\ status' = op[u].target /\ stage' = stage
        /\ op'[u] = FromReport(op[u])
    BY <1>1, <1>4, <2>1 DEF WriteStatus, Refuse, Proceed
  <2>3. /\ op[u].target \in Targets /\ status \in From[op[u].target]
        /\ StagesTell(status, stage)
    BY <1>0, <1>4 DEF Keeps, WellFormed, Handlers
  <2>4. StagesTell(status', Ended(status', stage))
    BY <1>0, <2>2, <2>3, EndsTell
  <2>5. CASE op[u].decides
    <3>1. op'[u].phase = "report" /\ op'[u].target = op[u].target
      BY <1>0, <2>2, <2>5 DEF FromReport, Handlers
    <3> QED
      BY <2>2, <2>4, <3>1 DEF Keeps, Idle
  <2> QED
    BY <1>3, <2>2, <2>4, <2>5 DEF FromReport
<1>5. CASE op[u].phase = "report"
  <2>1. WriteReport(u) /\ ~Refuse(u)
    BY <1>1, <1>5 DEF Step, WriteInstallation, WriteAllocation, WritePlanting,
         WriteStatus, WriteRestore, WriteStage, Refuse
  <2> QED
    BY <1>1, <1>3, <1>5, <2>1 DEF WriteReport, Keeps, Proceed
<1>6. CASE op[u].phase \in {"first", "second"}
  <2>1. WriteStage(u) /\ ~Refuse(u)
    BY <1>1, <1>6 DEF Step, WriteInstallation, WriteAllocation, WritePlanting,
         WriteStatus, WriteReport, WriteRestore, Refuse
  <2>2. status' = status /\ status = op[u].target
    BY <1>6, <2>1 DEF WriteStage, Keeps
  <2>3. CASE op[u].phase = "first"
    <3>1. /\ stage' = Entered(FirstStage, status, stage)
          /\ op[u].target \in DOMAIN FirstStage
      BY <1>0, <2>1, <2>2, <2>3 DEF WriteStage, Entered, WellFormed
    <3>2. StagesTell(status', Entered(SecondStage, status', stage'))
      BY <2>2, <2>3, <3>1 DEF Keeps, Ended
    <3>3. op'[u] = FromSecond(op[u])
      BY <1>1, <2>1, <2>3 DEF Proceed
    <3>4. CASE op[u].target \in DOMAIN SecondStage
      <4>1. op'[u].phase = "second" /\ op'[u].target = op[u].target
        BY <1>0, <3>3, <3>4 DEF FromSecond, Handlers
      <4> QED
        BY <2>2, <3>2, <4>1 DEF Keeps, Idle
    <3>5. CASE op[u].target \notin DOMAIN SecondStage
      BY <2>2, <3>2, <3>3, <3>5 DEF FromSecond, Entered
    <3> QED
      BY <3>4, <3>5
  <2>4. CASE op[u].phase = "second"
    <3>1. /\ stage' = Entered(SecondStage, status, stage)
          /\ op'[u] = Idle
      BY <1>0, <1>1, <2>1, <2>2, <2>4
         DEF WriteStage, Entered, WellFormed, Proceed
    <3> QED
      BY <2>2, <2>4, <3>1 DEF Keeps
  <2> QED
    BY <1>6, <2>3, <2>4
<1> QED
  BY <1>2, <1>4, <1>5, <1>6 DEF Keeps

LEMMA AloneStep ==
  ASSUME TypeOK, AllWellFormed, AloneInv, [Next]_vars, past' = "alone"
  PROVE  AloneInv'
<1>1. ASSUME NEW u \in Admins, BeginUpdate(u) PROVE AloneInv'
  <2>1. /\ op[u] = Idle /\ status' = status /\ stage' = stage
        /\ install' = install
        /\ op'[u].phase \in {"garden", "status"} /\ op'[u].expected = status
        /\ \A v \in Admins \ {u} : op'[v] = op[v]
    BY <1>1, BeginStep DEF TypeOK, gardenVars
  <2>2. Quiet
    <3>1. PICK t, p, d, c : Begin(u, t, p, d, c)
      BY <1>1 DEF BeginUpdate, BeginSchedule, BeginAccept, BeginReject,
           BeginImplements, BeginLive, BeginCancel, BeginInstallation,
           BeginAllocation, BeginPlanting
    <3> QED
      BY <3>1 DEF Begin, Quiet, Happens, Milder, TypeOK, Pasts
  <2>3. op'[u].phase = "garden" /\ op'[u].decides => install # "none"
    <3>1. ASSUME NEW t, NEW p, NEW d, NEW c, Begin(u, t, p, d, c),
                 p = "garden" /\ d => install # "none"
          PROVE  op'[u].phase = "garden" /\ op'[u].decides => install # "none"
      BY <3>1 DEF Begin, TypeOK
    <3>2. CASE BeginInstallation(u)
      <4>1. PICK d \in BOOLEAN : /\ d => install # "none"
                                 /\ Begin(u, "implements_installed", "garden",
                                          d, {})
        BY <3>2 DEF BeginInstallation
      <4> QED
        BY <3>1, <4>1
    <3>3. CASE BeginReject(u)
      <4>1. PICK d \in BOOLEAN : Begin(u, "rejected", "status", d, {})
        BY <3>3 DEF BeginReject
      <4> QED
        BY <3>1, <4>1
    <3> QED
      BY <1>1, <3>1, <3>2, <3>3 DEF BeginUpdate, BeginSchedule, BeginAccept,
         BeginImplements, BeginLive, BeginCancel, BeginAllocation, BeginPlanting
  <2>4. op'[u] # Idle
    BY <2>1 DEF Idle
  <2>5. Keeps(op[u])'
    BY <2>1, <2>2, <2>3 DEF AloneInv, Keeps
  <2>6. \A v \in Admins \ {u} : op'[v] = Idle
    BY <2>1, <2>2 DEF Quiet
  <2> QED
    BY <2>4, <2>5, <2>6 DEF AloneInv, Quiet
<1>2. ASSUME NEW u \in Admins, Step(u) \/ Fail(u) \/ Stop(u) PROVE AloneInv'
  <2>1. op[u] # Idle /\ \A v \in Admins \ {u} : op'[v] = op[v]
    BY <1>2, CallStep DEF TypeOK
  <2>2. \A v \in Admins \ {u} : op'[v] = Idle
    BY <2>1 DEF AloneInv
  <2>3. IF op'[u] = Idle THEN StagesTell(status', stage') ELSE Keeps(op[u])'
    BY <1>2, <2>1, AloneCall DEF AloneInv
  <2> QED
    BY <2>2, <2>3 DEF AloneInv, Quiet
<1>3. ASSUME op' = op, status' = status, install' = install,
             \/ stage' = stage
             \/ /\ stage["approval"] = "not_started"
                /\ stage' = [stage EXCEPT !["approval"] = "ready"]
      PROVE  AloneInv'
  <2>1. CASE stage' = stage
    BY <1>3, <2>1 DEF AloneInv, Quiet, Keeps
  <2>2. CASE stage["approval"] = "not_started"
               /\ stage' = [stage EXCEPT !["approval"] = "ready"]
    <3> DEFINE r == [stage EXCEPT !["approval"] = "ready"]
    <3>0. stage \in [StageKeys -> StageStatuses] /\ status \in Statuses
      BY DEF TypeOK
    <3>1. /\ StagesTell(status, stage) => StagesTell(status, r)
          /\ status \in Targets /\ StagesTell(status, Ended(status, stage))
               => StagesTell(status, Ended(status, r))
          /\ status \in DOMAIN SecondStage
               /\ StagesTell(status, Entered(SecondStage, status, stage))
               => StagesTell(status, Entered(SecondStage, status, r))
      BY <2>2, <3>0, ReadiedTells
    <3>r. stage' = r
      BY <2>2
    <3> HIDE DEF r
    <3>2. \A u \in Admins : op[u] # Idle =>
             /\ op[u].target \in Targets
             /\ op[u].phase = "second" => op[u].target \in DOMAIN SecondStage
      BY DEF AllWellFormed, WellFormed, Handlers
    <3>3. ASSUME NEW u \in Admins, op[u] # Idle PROVE Keeps(op[u])'
      BY <1>3, <3>1, <3>r, <3>2, <3>3 DEF AloneInv, Keeps
    <3> QED
      BY <1>3, <3>1, <3>r, <3>3 DEF AloneInv, Quiet
  <2> QED
    BY <1>3, <2>1, <2>2
<1>4. CASE (\E s \in VisitStatuses : EnterVisit(s)) \/ UNCHANGED vars
  BY <1>3, <1>4 DEF EnterVisit, vars, rows, gardenVars
<1>5. CASE Inspect
  <2>1. CASE CommitSave \/ CommitSubmit
    BY <1>3, <2>1 DEF CommitSave, CommitSubmit, Synced, gardenVars
  <2> QED
    BY <1>3, <1>5, <2>1 DEF Inspect, StartReport, PreviewStart, SubmitReport,
         PreviewSubmit, WriteVisit, BeginAssessment, Drop, rows, gardenVars
<1>6. \A s : ~ApplyDecision(s) /\ ~UpsertRequest(s) /\ ~EditInstallation(s)
  BY DEF ApplyDecision, UpsertRequest, EditInstallation, Happens, Milder, TypeOK,
     Pasts
<1> QED
  BY <1>1, <1>2, <1>4, <1>5, <1>6 DEF Next, DataRoute

(* One administrator at a time and nothing disturbed: between his handlers *)
(* the stages tell what the request tells.                                 *)
THEOREM StagesCorrect == Spec => []StagesAgree
<1> DEFINE Inv == TypeOK /\ AllWellFormed /\ (past = "alone" => AloneInv)
<1>1. Init => Inv
  <2> SUFFICES ASSUME Init PROVE Inv
    OBVIOUS
  <2>1. TypeOK /\ AllWellFormed
    BY TypeInit
  <2>2. past = "alone" => StagesTell(status, stage)
    BY DEF Init, StagesTell, StageKeys, Accepted, Installed, Allocated, Growing,
           Lifecycle!Undecided
  <2> QED
    BY <2>1, <2>2 DEF Init, AloneInv
<1>2. Inv /\ [Next]_vars => Inv'
  BY TypeStep, PastStep, AloneStep
<1>3. Inv => StagesAgree
  BY DEF StagesAgree, AloneInv
<1> QED
  BY <1>1, <1>2, <1>3, PTL DEF Spec
=============================================================================
