------------------------------ MODULE MCBilling ------------------------------
(* A small instance of Billing for TLC; no symmetry, because the run checks   *)
(* liveness.                                                                  *)
EXTENDS Billing, FiniteSets

(* Subscriptions are interchangeable and opened in their order.               *)
InOrder == \A s, t \in Subs : state[s] = "none" /\ state'[s] # "none" /\ t < s
                                => state[t] # "none"

(* The user writes once over what came from Stripe: that he has premium by    *)
(* the second subscription and the first one's customer, or nothing, as when  *)
(* he deletes the row.  Events may come late, and subscriptions overlap, from *)
(* then on.                                                                   *)
MCClaims == {[sub |-> 2, customer |-> 1, status |-> "active", ending |-> TRUE]}

OneEdit == "subscription" \in written' /\ (written = {} \/ row' # row)
             => written = {} /\ applied # 0 /\ ~late /\ ~overlap

FewSteps == InOrder /\ OneEdit

(* One of the events is an update: the others are of the two subscriptions'   *)
(* beginnings and of an end.  Nothing is claimed of subscriptions that        *)
(* overlap, and little of their behaviour explored.                           *)
OneUpdate == /\ Cardinality({n \in DOMAIN log : log[n].type = "updated"}) <= 1
             /\ overlap => Len(log) <= 4
=============================================================================
