-------------------------- MODULE InspectionEvidence --------------------------
(***************************************************************************)
(* Evidence of one inspection report, and the transaction that submits the *)
(* report only if its evidence is complete.                                *)
(*                                                                         *)
(* Several browser tabs, of the inspector or of an administrator who       *)
(* previews as the inspector, edit the checklist, add photos, save and     *)
(* submit at once.  submit_inspection_for_approval is modelled lock by     *)
(* lock: it locks the report, then the checklist, then judges what it read *)
(* and writes.  Inserting a checklist item or a photo waits for the        *)
(* report's lock too, because its foreign key takes a share of that lock.  *)
(*                                                                         *)
(* Each required category of the code names one photo type, and no two the *)
(* same: a photo type is identified with the category it satisfies.        *)
(***************************************************************************)
EXTENDS Naturals

CONSTANTS
    Items,      \* ids of checklist items
    Seeded,     \* the items a new report starts with
    Categories, \* PHOTO_TYPES_BY_REQUIRED_CHECK
    CategoryOf, \* the category of a seeded item, or None
    Tabs,       \* concurrent requests
    None        \* no item, or a category or photo type outside Categories

ASSUME EvidenceAssumption ==
    /\ Seeded \subseteq Items /\ Seeded # {}
    /\ CategoryOf \in [Seeded -> Categories \cup {None}]
    /\ None \notin Items \cup Categories

VARIABLES
    status,     \* inspection_reports.assessment_status
    items,      \* inspection_checklist_items of the report
    linked,     \* items with a photo of their own
    captured,   \* categories some photo's type satisfies
    step,       \* how far each tab's save or submission has come
    seen,       \* the items the transaction in step "read" has read
    submissions \* number of submissions so far

evidenceVars == <<items, linked, captured>>
vars == <<status, items, linked, captured, step, seen, submissions>>

(* "blank" is na without a comment, "explained" na with one, "given" pass, *)
(* warning or fail.                                                        *)
Answers == {"blank", "explained", "given"}

ItemRows == [requires : BOOLEAN, category : Categories \cup {None},
             answer : Answers]

Checklists == [Items -> ItemRows \cup {None}]

(* "decided" is approved or rejected.                                      *)
Statuses == {"draft", "submitted_for_approval", "decided"}

Steps == {"idle", "save", "submit", "locked", "read"}

TypeOK ==
    /\ status \in Statuses
    /\ items \in Checklists
    /\ linked \subseteq Items
    /\ captured \subseteq Categories
    /\ step \in [Tabs -> Steps]
    /\ seen \in Checklists
    /\ submissions \in Nat

NoItems == [i \in Items |-> None]

Present(list) == {i \in Items : list[i] # None}

(* inspection_evidence_gaps; only items that require a photo are looked at.*)
Gap(row, hasPhoto) ==
    /\ row.requires
    /\ \/ row.answer = "blank"
       \/ ~hasPhoto /\ row.category \notin captured

Complete(list) ==
    /\ Present(list) # {}
    /\ \A i \in Present(list) : ~Gap(list[i], i \in linked)

Gate == INSTANCE SubmissionGate
            WITH report <- status, complete <- Complete(items)

ReportLocked == \E t \in Tabs : step[t] \in {"locked", "read"}

ItemsLocked == \E t \in Tabs : step[t] = "read"

(* seed_checklist_items: the required items are those of a category with a *)
(* photo type.                                                             *)
Init ==
    /\ status = "draft"
    /\ items = [i \in Items |->
                  IF i \in Seeded
                  THEN [requires |-> CategoryOf[i] # None,
                        category |-> CategoryOf[i], answer |-> "blank"]
                  ELSE None]
    /\ linked = {}
    /\ captured = {}
    /\ step = [t \in Tabs |-> "idle"]
    /\ seen = NoItems
    /\ submissions = 0

-----------------------------------------------------------------------------
(* Collecting evidence, which no status forbids.                           *)

(* upsert_checklist_item: the payload replaces the requirement of a photo  *)
(* and the category, too.  The faulty variant updates a locked row.        *)
FaultyUpsertItem(i, row) ==
    /\ items[i] = None => ~ReportLocked
    /\ items' = [items EXCEPT ![i] = row]
    /\ UNCHANGED <<status, linked, captured, step, seen, submissions>>

UpsertItem(i, row) ==
    /\ IF items[i] = None THEN ~ReportLocked ELSE ~ItemsLocked
    /\ items' = [items EXCEPT ![i] = row]
    /\ UNCHANGED <<status, linked, captured, step, seen, submissions>>

(* A photo may name an item, and its type may satisfy a category.  The     *)
(* faulty variant takes "no item" for the id of one.                       *)
FaultyUploadPhoto(i, c) ==
    /\ ~ReportLocked
    /\ i = None \/ i \in Present(items)
    /\ linked' = linked \cup {i}
    /\ captured' = captured \cup ({c} \ {None})
    /\ UNCHANGED <<status, items, step, seen, submissions>>

UploadPhoto(i, c) ==
    /\ ~ReportLocked
    /\ i = None \/ i \in Present(items)
    /\ linked' = linked \cup ({i} \ {None})
    /\ captured' = captured \cup ({c} \ {None})
    /\ UNCHANGED <<status, items, step, seen, submissions>>

-----------------------------------------------------------------------------
(* save_assessment and the decision.                                       *)

BeginSave(t) ==
    /\ step[t] = "idle" /\ status # "submitted_for_approval"
    /\ step' = [step EXCEPT ![t] = "save"]
    /\ UNCHANGED <<status, evidenceVars, seen, submissions>>

(* By report id, whatever the status has become.                           *)
CommitSave(t) ==
    /\ step[t] = "save" /\ ~ReportLocked
    /\ status' = "draft"
    /\ step' = [step EXCEPT ![t] = "idle"]
    /\ UNCHANGED <<evidenceVars, seen, submissions>>

Decide ==
    /\ status = "submitted_for_approval" /\ ~ReportLocked
    /\ status' = "decided"
    /\ UNCHANGED <<evidenceVars, step, seen, submissions>>

-----------------------------------------------------------------------------
(* submit_for_approval.  What the handler itself finds missing it refuses  *)
(* earlier; the transaction looks again.                                   *)

BeginSubmit(t) ==
    /\ step[t] = "idle" /\ status # "submitted_for_approval"
    /\ step' = [step EXCEPT ![t] = "submit"]
    /\ UNCHANGED <<status, evidenceVars, seen, submissions>>

(* The faulty variant relies on the handler's look at the status.          *)
FaultyLockReport(t) ==
    /\ step[t] = "submit" /\ ~ReportLocked
    /\ step' = [step EXCEPT ![t] = "locked"]
    /\ UNCHANGED <<status, evidenceVars, seen, submissions>>

LockReport(t) ==
    /\ step[t] = "submit" /\ ~ReportLocked
    /\ step' = [step EXCEPT ![t] =
                  IF status = "submitted_for_approval" THEN "idle"
                                                       ELSE "locked"]
    /\ UNCHANGED <<status, evidenceVars, seen, submissions>>

LockItems(t) ==
    /\ step[t] = "locked"
    /\ seen' = items
    /\ step' = [step EXCEPT ![t] = "read"]
    /\ UNCHANGED <<status, evidenceVars, submissions>>

(* A gap rolls the transaction back.                                       *)
Submit(t) ==
    /\ step[t] = "read"
    /\ step' = [step EXCEPT ![t] = "idle"]
    /\ IF Complete(seen)
       THEN /\ status' = "submitted_for_approval"
            /\ submissions' = submissions + 1
       ELSE UNCHANGED <<status, submissions>>
    /\ seen' = NoItems
    /\ UNCHANGED evidenceVars

(* An error or a crash; locks go with the transaction.                     *)
Abandon(t) ==
    /\ step[t] # "idle"
    /\ step' = [step EXCEPT ![t] = "idle"]
    /\ seen' = IF step[t] = "read" THEN NoItems ELSE seen
    /\ UNCHANGED <<status, evidenceVars, submissions>>

Collect ==
    \/ \E i \in Items, row \in ItemRows : UpsertItem(i, row)
    \/ \E i \in Items \cup {None}, c \in Categories \cup {None} :
          UploadPhoto(i, c)

Request(t) ==
    \/ BeginSave(t) \/ CommitSave(t)
    \/ BeginSubmit(t) \/ LockReport(t) \/ LockItems(t) \/ Submit(t)
    \/ Abandon(t)

Next == Collect \/ Decide \/ \E t \in Tabs : Request(t)

Spec == Init /\ [][Next]_vars

-----------------------------------------------------------------------------
(* Properties.                                                             *)

(* "Validate evidence and submit as one transaction"                       *)
(* (postgres_gateway.py:136): at the very step that submits a report, and  *)
(* not only when it was looked at, its evidence has no gap, whatever other *)
(* tabs do to the checklist meanwhile.                                     *)
EvidenceGate ==
    [][submissions' # submissions => Complete(items)]_vars

(* Two tabs that submit one assessment submit it once: a report that is    *)
(* waiting for a decision is not submitted again.                          *)
SubmittedOnce ==
    [][submissions' # submissions => status # "submitted_for_approval"]_vars

(* To the administrator all this is one report and one question, whether   *)
(* its evidence is complete: every step of every tab is one of the report  *)
(* of SubmissionGate, or none.                                             *)
FollowsGate == Gate!Spec
=============================================================================
