----------------------- MODULE InspectionEvidenceProofs -----------------------
(* Proofs about InspectionEvidence, for every checklist, every set of      *)
(* categories and any number of tabs.                                      *)
EXTENDS InspectionEvidence, TLAPS

Holds(t) == step[t] \in {"locked", "read"}

(* One transaction at a time has the report's lock.                        *)
OneHolder == \A s, t \in Tabs : Holds(s) /\ Holds(t) => s = t

(* What a transaction read of the checklist stays true while it judges it. *)
ReadsStand == \A t \in Tabs : step[t] = "read" => seen = items

(* While a transaction has the lock the report does not become submitted.  *)
LockedOpen == \A t \in Tabs : Holds(t) => status # "submitted_for_approval"

IInv == TypeOK /\ OneHolder /\ ReadsStand /\ LockedOpen

LEMMA InitInvariant == Init => IInv
<1> SUFFICES ASSUME Init PROVE IInv
  OBVIOUS
<1>1. items \in Checklists /\ seen \in Checklists
  BY EvidenceAssumption DEF Init, Checklists, ItemRows, Answers, NoItems
<1>2. TypeOK
  BY <1>1 DEF Init, TypeOK, Statuses, Steps
<1> QED
  BY <1>2 DEF Init, IInv, OneHolder, ReadsStand, LockedOpen, Holds

(* Every row and request keeps its type.                                   *)
LEMMA TypeStep ==
  ASSUME TypeOK, Next
  PROVE  TypeOK'
<1> USE DEF TypeOK, Statuses, Steps, Checklists, evidenceVars
<1>1. ASSUME NEW i \in Items, NEW row \in ItemRows, UpsertItem(i, row)
      PROVE  TypeOK'
  BY <1>1 DEF UpsertItem
<1>2. ASSUME NEW i \in Items \cup {None}, NEW c \in Categories \cup {None},
             UploadPhoto(i, c)
      PROVE  TypeOK'
  BY <1>2 DEF UploadPhoto
<1>3. CASE Decide
  BY <1>3 DEF Decide
<1>4. ASSUME NEW t \in Tabs, Request(t)
      PROVE  TypeOK'
  <2>1. NoItems \in Checklists
    BY DEF NoItems
  <2>2. CASE BeginSave(t) \/ CommitSave(t) \/ BeginSubmit(t)
    BY <2>2 DEF BeginSave, CommitSave, BeginSubmit
  <2>3. CASE LockReport(t) \/ LockItems(t)
    BY <2>3 DEF LockReport, LockItems
  <2>4. CASE Submit(t) \/ Abandon(t)
    BY <2>1, <2>4 DEF Submit, Abandon
  <2> QED
    BY <1>4, <2>2, <2>3, <2>4 DEF Request
<1> QED
  BY <1>1, <1>2, <1>3, <1>4 DEF Next, Collect

(* The locks do what the transaction relies on.                            *)
LEMMA LockStep ==
  ASSUME IInv, Next
  PROVE  OneHolder' /\ ReadsStand' /\ LockedOpen'
<1> USE DEF IInv, TypeOK, OneHolder, ReadsStand, LockedOpen, Holds, Steps,
            ReportLocked, ItemsLocked, evidenceVars
<1>1. ASSUME NEW i \in Items, NEW row \in ItemRows, UpsertItem(i, row)
      PROVE  OneHolder' /\ ReadsStand' /\ LockedOpen'
  BY <1>1 DEF UpsertItem
<1>2. ASSUME NEW i \in Items \cup {None}, NEW c \in Categories \cup {None},
             UploadPhoto(i, c)
      PROVE  OneHolder' /\ ReadsStand' /\ LockedOpen'
  BY <1>2 DEF UploadPhoto
<1>3. CASE Decide
  BY <1>3 DEF Decide
<1>4. ASSUME NEW t \in Tabs, Request(t)
      PROVE  OneHolder' /\ ReadsStand' /\ LockedOpen'
  <2>1. CASE BeginSave(t) \/ BeginSubmit(t)
    BY <2>1 DEF BeginSave, BeginSubmit
  <2>2. CASE CommitSave(t)
    BY <2>2 DEF CommitSave
  <2>3. CASE LockReport(t)
    BY <2>3 DEF LockReport
  <2>4. CASE LockItems(t)
    BY <2>4 DEF LockItems
  <2>5. CASE Submit(t)
    BY <2>5 DEF Submit
  <2>6. CASE Abandon(t)
    BY <2>6 DEF Abandon
  <2> QED
    BY <1>4, <2>1, <2>2, <2>3, <2>4, <2>5, <2>6 DEF Request
<1> QED
  BY <1>1, <1>2, <1>3, <1>4 DEF Next, Collect

LEMMA StepInvariant == IInv /\ [Next]_vars => IInv'
<1>1. ASSUME IInv, Next PROVE IInv'
  BY <1>1, TypeStep, LockStep DEF IInv
<1>2. ASSUME IInv, UNCHANGED vars PROVE IInv'
  BY <1>2 DEF vars, IInv, TypeOK, OneHolder, ReadsStand, LockedOpen, Holds
<1> QED
  BY <1>1, <1>2

LEMMA Invariant == Spec => []IInv
BY InitInvariant, StepInvariant, PTL DEF Spec

-----------------------------------------------------------------------------
(* Only a submission counts one.                                           *)
LEMMA SubmissionStep ==
  ASSUME IInv, [Next]_vars, submissions' # submissions
  PROVE  \E t \in Tabs : step[t] = "read" /\ Complete(seen)
<1>1. Next
  BY DEF vars
<1>2. PICK t \in Tabs : Submit(t)
  BY <1>1 DEF Next, Collect, Request, UpsertItem, UploadPhoto, Decide,
              BeginSave, CommitSave, BeginSubmit, LockReport, LockItems, Abandon
<1> QED
  BY <1>2 DEF Submit

(* No tab changes a value into one its column cannot hold.                 *)
THEOREM TypeCorrect == Spec => []TypeOK
<1>1. IInv => TypeOK
  BY DEF IInv
<1> QED
  BY <1>1, Invariant, PTL

(* Whatever tabs do to the checklist, a submission is complete at commit.  *)
THEOREM EvidenceCorrect == Spec => EvidenceGate
<1>1. IInv /\ [Next]_vars => [submissions' # submissions => Complete(items)]_vars
  BY SubmissionStep DEF IInv, ReadsStand
<1> QED
  BY <1>1, Invariant, PTL DEF Spec, EvidenceGate

(* However many tabs submit, a waiting report is not submitted again.      *)
THEOREM OnceCorrect == Spec => SubmittedOnce
<1>1. IInv /\ [Next]_vars
      => [submissions' # submissions => status # "submitted_for_approval"]_vars
  BY SubmissionStep DEF IInv, LockedOpen, Holds
<1> QED
  BY <1>1, Invariant, PTL DEF Spec, SubmittedOnce

(* A step of a tab is one of the report, and a submission, which judges    *)
(* what was read before, finds the checklist as it was read.               *)
LEMMA GateStep ==
  ASSUME IInv, Next
  PROVE  UNCHANGED Gate!vars \/ Gate!Next
<1> USE DEF Gate!vars, Gate!Next
<1>0. TypeOK /\ ReadsStand /\ LockedOpen
  BY DEF IInv
<1>1. evidenceVars' = evidenceVars => Complete(items)' = Complete(items)
  BY DEF evidenceVars, Complete, Present, Gap
<1>2. Complete(items)' \in BOOLEAN
  BY DEF Complete
<1>3. CASE Collect
  <2>1. UNCHANGED status /\ status # "none"
    BY <1>0, <1>3 DEF Collect, UpsertItem, UploadPhoto, TypeOK, Statuses
  <2> QED
    BY <1>2, <2>1 DEF Gate!Collect
<1>4. CASE Decide
  BY <1>1, <1>4 DEF Decide, Gate!Decide
<1>5. ASSUME NEW t \in Tabs, Request(t)
      PROVE  UNCHANGED Gate!vars \/ Gate!Next
  <2>1. Complete(items)' = Complete(items)
    BY <1>1, <1>5 DEF Request, BeginSave, CommitSave, BeginSubmit, LockReport,
       LockItems, Submit, Abandon
  <2>2. CASE CommitSave(t)
    BY <1>0, <2>1, <2>2 DEF CommitSave, TypeOK, Statuses, Gate!Revise
  <2>3. CASE Submit(t) /\ Complete(seen)
    <3>1. seen = items /\ status # "submitted_for_approval"
      BY <1>0, <2>3 DEF Submit, ReadsStand, LockedOpen, Holds
    <3>2. status # "none" /\ status' = "submitted_for_approval"
      BY <1>0, <2>3 DEF Submit, TypeOK, Statuses
    <3> QED
      BY <2>1, <2>3, <3>1, <3>2 DEF Gate!Submit
  <2>4. CASE ~CommitSave(t) /\ ~(Submit(t) /\ Complete(seen))
    BY <1>5, <2>1, <2>4 DEF Request, BeginSave, BeginSubmit, LockReport,
       LockItems, Submit, Abandon
  <2> QED
    BY <2>2, <2>3, <2>4
<1> QED
  BY <1>3, <1>4, <1>5 DEF Next

(* The tabs, their locks and the checklist implement SubmissionGate.       *)
THEOREM ImplementsGate == Spec => FollowsGate
<1>1. Init => Gate!Init
  BY DEF Init, Gate!Init, Complete
<1>2. IInv /\ [Next]_vars => [Gate!Next]_(Gate!vars)
  <2>1. ASSUME UNCHANGED vars PROVE UNCHANGED Gate!vars
    BY <2>1 DEF vars, Gate!vars, Complete, Present, Gap
  <2>2. ASSUME IInv, Next PROVE [Gate!Next]_(Gate!vars)
    BY <2>2, GateStep
  <2> QED
    BY <2>1, <2>2
<1> QED
  BY <1>1, <1>2, Invariant, PTL DEF Spec, FollowsGate, Gate!Spec
=============================================================================
