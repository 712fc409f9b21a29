----------------------------- MODULE CareAction ------------------------------
(***************************************************************************)
(* Care actions of one garden and one kind (watering, feeding, ...).       *)
(* record_care_action logs the work, looks for the open task that is due   *)
(* first, completes it by its id and creates the next one: four            *)
(* transactions, which calls of several people interleave and a failure    *)
(* cuts short.  Tasks of another kind or garden are never touched.         *)
(*                                                                         *)
(* A due date is the day the resident says the work was done plus a        *)
(* constant, so any open task may be the one that is due first.            *)
(***************************************************************************)
CONSTANTS
    Calls,      \* calls of record_care_action; each creates at most one task
    Extras,     \* tasks seeded with the garden or entered by hand
    None        \* no task

ASSUME CareAssumption == Calls \cap Extras = {} /\ None \notin Calls \cup Extras

VARIABLES
    task,       \* status of each task, "none" for no such row
    step,       \* how far each call has come
    found,      \* the open task a call found
    edited      \* the resident has changed or deleted a task by hand

vars == <<task, step, found, edited>>

Tasks == Calls \cup Extras

(* "open" is pending, in_progress or blocked.                              *)
TaskStatuses == {"none", "open", "done", "cancelled"}

Steps == {"new", "logged", "found", "completed", "finished", "failed"}

Open == {t \in Tasks : task[t] = "open"}

InFlight == {a \in Calls : step[a] \in {"logged", "found", "completed"}}

TypeOK ==
    /\ task \in [Tasks -> TaskStatuses]
    /\ step \in [Calls -> Steps]
    /\ found \in [Calls -> Tasks \cup {None}]
    /\ \A a \in Calls : step[a] = "found" => found[a] \in Tasks
    /\ edited \in BOOLEAN

(* A new garden starts with a task of some kinds and none of the others.    *)
SeedTasks ==
    \E seeded \in SUBSET Extras :
       task = [t \in Tasks |-> IF t \in seeded THEN "open" ELSE "none"]

Init ==
    /\ SeedTasks
    /\ step = [a \in Calls |-> "new"]
    /\ found = [a \in Calls |-> None]
    /\ edited = FALSE

-----------------------------------------------------------------------------
(* record_care_action.                                                     *)

LogActivity(a) ==
    /\ step[a] = "new"
    /\ step' = [step EXCEPT ![a] = "logged"]
    /\ UNCHANGED <<task, found, edited>>

(* The faulty variant goes on to complete a task although it found none.   *)
FaultyFindOpen(a) ==
    /\ step[a] = "logged"
    /\ \E t \in IF Open = {} THEN {None} ELSE Open :
          found' = [found EXCEPT ![a] = t]
    /\ step' = [step EXCEPT ![a] = "found"]
    /\ UNCHANGED <<task, edited>>

FindOpen(a) ==
    /\ step[a] = "logged"
    /\ IF Open = {}
       THEN /\ step' = [step EXCEPT ![a] = "completed"]
            /\ UNCHANGED found
       ELSE /\ step' = [step EXCEPT ![a] = "found"]
            /\ \E t \in Open : found' = [found EXCEPT ![a] = t]
    /\ UNCHANGED <<task, edited>>

(* By id, whatever has become of the task since; a deleted row matches     *)
(* nothing.                                                                *)
CompleteTask(a) ==
    /\ step[a] = "found"
    /\ task' = [task EXCEPT ![found[a]] = IF @ = "none" THEN @ ELSE "done"]
    /\ step' = [step EXCEPT ![a] = "completed"]
    /\ UNCHANGED <<found, edited>>

(* The faulty variant creates the next task only if there was no open one. *)
FaultyInsertNext(a) ==
    /\ step[a] = "completed"
    /\ task' = IF found[a] = None THEN [task EXCEPT ![a] = "open"] ELSE task
    /\ step' = [step EXCEPT ![a] = "finished"]
    /\ UNCHANGED <<found, edited>>

InsertNext(a) ==
    /\ step[a] = "completed"
    /\ task' = [task EXCEPT ![a] = "open"]
    /\ step' = [step EXCEPT ![a] = "finished"]
    /\ UNCHANGED <<found, edited>>

Fail(a) ==
    /\ a \in InFlight
    /\ step' = [step EXCEPT ![a] = "failed"]
    /\ UNCHANGED <<task, found, edited>>

-----------------------------------------------------------------------------
(* The resident: create_garden_task, and the generic data route.           *)

CreateTask(t) ==
    /\ task[t] = "none"
    /\ task' = [task EXCEPT ![t] = "open"]
    /\ UNCHANGED <<step, found, edited>>

EditTask(t, s) ==
    /\ task[t] # "none"
    /\ task' = [task EXCEPT ![t] = s]
    /\ edited' = TRUE
    /\ UNCHANGED <<step, found>>

Record(a) == LogActivity(a) \/ FindOpen(a) \/ CompleteTask(a) \/ InsertNext(a)

Next ==
    \/ \E a \in Calls : Record(a) \/ Fail(a)
    \/ \E t \in Extras : CreateTask(t)
    \/ \E t \in Tasks, s \in TaskStatuses : EditTask(t, s)

Spec == Init /\ [][Next]_vars

(* A call that was logged runs on until it ends or fails: nothing in it    *)
(* waits.                                                                  *)
LiveSpec ==
    /\ Spec
    /\ \A a \in Calls : WF_vars(FindOpen(a) \/ CompleteTask(a) \/ InsertNext(a))

-----------------------------------------------------------------------------
(* Properties.                                                             *)

(* Nothing has failed and the resident has left the tasks alone.           *)
Undisturbed == ~edited /\ \A a \in Calls : step[a] # "failed"

(* However calls interleave, the garden is never left without a next task: *)
(* when no call is running and nothing was disturbed, a garden that was    *)
(* ever cared for has an open task                                         *)
(* (services/gardens.py, record_care_action).                              *)
NextTaskExists ==
    Undisturbed /\ InFlight = {} /\ (\E a \in Calls : step[a] = "finished")
      => Open # {}

(* Where nothing fails and the resident leaves the tasks alone, once       *)
(* somebody records an action the garden comes to have an open task and,   *)
(* when the last call is over, keeps one (record_care_action).             *)
StaysCaredFor ==
    []Undisturbed => <>[]((\E a \in Calls : step[a] # "new") => Open # {})
=============================================================================
