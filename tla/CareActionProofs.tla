-------------------------- MODULE CareActionProofs ---------------------------
(* Proofs about CareAction, for every set of calls and of other tasks.     *)
EXTENDS CareAction, TLAPS

(* While nothing went wrong, a garden somebody cared for has an open task  *)
(* or a call that completed one and is about to create the next.           *)
NextTaskComes ==
    /\ ~edited
    /\ \A a \in Calls : step[a] # "failed"
    /\ \E a \in Calls : step[a] \in {"completed", "finished"}
    => \/ Open # {}
       \/ \E a \in Calls : step[a] = "completed"

IInv == TypeOK /\ NextTaskComes

LEMMA InitInvariant == Init => IInv
BY CareAssumption
   DEF Init, SeedTasks, IInv, TypeOK, NextTaskComes, Tasks, TaskStatuses, Steps

(* No call and no edit writes a value its column cannot hold.              *)
LEMMA TypeStep ==
  ASSUME TypeOK, Next
  PROVE  TypeOK'
<1> USE CareAssumption DEF TypeOK, Tasks, TaskStatuses, Steps, Open
<1>1. ASSUME NEW a \in Calls, Record(a) \/ Fail(a)
      PROVE  TypeOK'
  <2>1. CASE LogActivity(a) \/ Fail(a)
    BY <2>1 DEF LogActivity, Fail
  <2>2. CASE FindOpen(a)
    BY <2>2 DEF FindOpen
  <2>3. CASE CompleteTask(a)
    BY <2>3 DEF CompleteTask
  <2>4. CASE InsertNext(a)
    BY <2>4 DEF InsertNext
  <2> QED
    BY <1>1, <2>1, <2>2, <2>3, <2>4 DEF Record
<1>2. ASSUME NEW t \in Extras, CreateTask(t)
      PROVE  TypeOK'
  BY <1>2 DEF CreateTask
<1>3. ASSUME NEW t \in Tasks, NEW s \in TaskStatuses, EditTask(t, s)
      PROVE  TypeOK'
  BY <1>3 DEF EditTask
<1> QED
  BY <1>1, <1>2, <1>3 DEF Next

(* The call that closes the last open task has yet to create its own.      *)
LEMMA NextTaskStep ==
  ASSUME TypeOK, NextTaskComes, Next
  PROVE  NextTaskComes'
<1> USE CareAssumption DEF TypeOK, NextTaskComes, Tasks, Steps, Open
<1>1. ASSUME NEW a \in Calls, Record(a) \/ Fail(a)
      PROVE  NextTaskComes'
  <2>1. CASE LogActivity(a)
    BY <2>1 DEF LogActivity
  <2>2. CASE FindOpen(a)
    BY <2>2 DEF FindOpen
  <2>3. CASE CompleteTask(a)
    BY <2>3 DEF CompleteTask
  <2>4. CASE InsertNext(a)
    BY <2>4 DEF InsertNext
  <2>5. CASE Fail(a)
    BY <2>5 DEF Fail
  <2> QED
    BY <1>1, <2>1, <2>2, <2>3, <2>4, <2>5 DEF Record
<1>2. ASSUME NEW t \in Extras, CreateTask(t)
      PROVE  NextTaskComes'
  BY <1>2 DEF CreateTask
<1>3. ASSUME NEW t \in Tasks, NEW s \in TaskStatuses, EditTask(t, s)
      PROVE  NextTaskComes'
  BY <1>3 DEF EditTask
<1> QED
  BY <1>1, <1>2, <1>3 DEF Next

LEMMA StepInvariant == IInv /\ [Next]_vars => IInv'
<1>1. ASSUME IInv, Next PROVE IInv'
  BY <1>1, TypeStep, NextTaskStep DEF IInv
<1>2. ASSUME IInv, UNCHANGED vars PROVE IInv'
  BY <1>2 DEF vars, IInv, TypeOK, NextTaskComes, Open, Tasks
<1> QED
  BY <1>1, <1>2

(* Tasks and calls keep their types in every behaviour.                    *)
THEOREM TypeCorrect == Spec => []TypeOK
<1>1. IInv => TypeOK
  BY DEF IInv
<1> QED
  BY <1>1, InitInvariant, StepInvariant, PTL DEF Spec

(* However many people record however many actions, the garden is not left *)
(* without a next task.                                                    *)
THEOREM NextTaskCorrect == Spec => []NextTaskExists
<1>1. IInv => NextTaskExists
  BY DEF IInv, NextTaskComes, NextTaskExists, Undisturbed, InFlight
<1> QED
  BY <1>1, InitInvariant, StepInvariant, PTL DEF Spec
=============================================================================
