--------------------------- MODULE MCGardenRequest ---------------------------
(* Small instances of GardenRequest for TLC.                               *)
EXTENDS GardenRequest, Naturals, FiniteSets, TLC

(* Administrators, inspectors, assignments and crops are interchangeable.  *)
Symmetry == Permutations(Admins) \cup Permutations(Inspectors)
              \cup Permutations(Assignments) \cup Permutations(Crops)

(* Two handlers are in flight between their read and their write, and one   *)
(* alone as soon as a second visit exists.  There the instance stops at the *)
(* decision and at delivery, which do not depend on the number of visits.   *)
Deciding == Cardinality({u \in Admins : op[u] # Idle})

Writing == Cardinality(saves) + Cardinality(closing)

OneVisit == \E a \in Assignments : assign[a] = "none"

Handlers ==
    IF OneVisit
    THEN Deciding + Writing <= 2
    ELSE /\ Deciding + Writing <= 1
         /\ status \in Lifecycle!Undecided \cup {"accepted"}

(* The data route writes past the workflow once.  TLC goes on from there    *)
(* with one visit, its assessment suitable and complete once it is scored,  *)
(* and at most an administrator's PATCH in flight; of every other state it  *)
(* still checks the step that passes the workflow.                          *)
PastWorkflow ==
    /\ OneVisit
    /\ \A a \in Assignments :
          band[a] # None => band[a] = "suitable" /\ evidence[a]
    /\ Deciding <= 1 /\ Writing = 0

Bounds == Handlers /\ (bypassed # {} => PastWorkflow)

OneBypass ==
    /\ bypassed' # bypassed => bypassed = {} /\ PastWorkflow
    /\ "status" \in bypassed => ~Written

(* The endpoints alone.                                                     *)
Guarded == bypassed = {}
=============================================================================
