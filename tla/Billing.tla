------------------------------- MODULE Billing -------------------------------
(***************************************************************************)
(* The subscription of one user: what Stripe holds, the events it sends,   *)
(* and the columns of user_settings that the webhook writes                *)
(* (services/billing.py, routers/billing.py).                              *)
(*                                                                         *)
(* Stripe is external.  It sends an event again until it is answered with  *)
(* success, and promises no order; the webhook applies each as it comes,   *)
(* without a look at its age or at the subscription it belongs to.         *)
(* The columns are in a row that its user may write through the generic    *)
(* data route; the history variable written tells which of them hold what  *)
(* he wrote.  Signatures, plans, prices and other users' customers are left*)
(* out; "ending" stands for the two columns a checkout event leaves alone, *)
(* the end of the period and whether the subscription ends with it.        *)
(***************************************************************************)
EXTENDS Naturals, Sequences

CONSTANTS Subs,       \* subscriptions, in the order of nothing
          MaxEvents,  \* bound: the events Stripe sends
          Claims,     \* the rows that the user may write
          None        \* NULL

VARIABLES
    state,      \* what Stripe holds of a subscription, "open" while a
                \* checkout session waits for its customer
    customer,   \* its customer; one created for it has its name
    ending,     \* its cancel_at_period_end
    log,        \* the events Stripe has sent or will send, oldest first
    answered,   \* those it will not send again
    row,        \* the billing columns of user_settings
    applied,    \* the event that was applied last, 0 before the first
    late,       \* an event was applied after a newer one
    overlap,    \* a second subscription began before the first was over
    written     \* history: the columns that hold what the user wrote

stripe == <<state, customer, ending, log, overlap>>
billingVars == <<state, customer, ending, log, overlap, answered, row, applied,
                 late, written>>

(* ACTIVE_SUBSCRIPTION_STATUSES.                                           *)
ActiveStatuses == {"active", "trialing"}

SubscriptionStatuses == ActiveStatuses \cup {"past_due", "canceled"}

Event == [type : {"checkout", "created", "updated", "deleted"}, sub : Subs,
          customer : Subs, status : SubscriptionStatuses, ending : BOOLEAN]

Row == [sub : Subs \cup {None}, customer : Subs \cup {None},
        status : SubscriptionStatuses \cup {"inactive"}, ending : BOOLEAN]

ASSUME BillingAssumption ==
    None \notin Subs /\ MaxEvents \in Nat /\ Claims \subseteq Row

BillingTypeOK ==
    /\ state \in [Subs -> SubscriptionStatuses \cup {"none", "open"}]
    /\ customer \in [Subs -> Subs \cup {None}]
    /\ ending \in [Subs -> BOOLEAN]
    /\ log \in Seq(Event)
    /\ answered \subseteq DOMAIN log
    /\ row \in Row
    /\ applied \in {0} \cup DOMAIN log
    /\ late \in BOOLEAN /\ overlap \in BOOLEAN
    /\ written \subseteq {"subscription", "ending"}

(* What a missing row, or one without billing, is read as.                 *)
NoRow == [sub |-> None, customer |-> None, status |-> "inactive",
          ending |-> FALSE]

BillingInit ==
    /\ state = [s \in Subs |-> "none"]
    /\ customer = [s \in Subs |-> None]
    /\ ending = [s \in Subs |-> FALSE]
    /\ log = <<>> /\ answered = {}
    /\ row = NoRow
    /\ applied = 0
    /\ late = FALSE /\ overlap = FALSE
    /\ written = {}

Running == {s \in Subs : state[s] \in SubscriptionStatuses \ {"canceled"}}

-----------------------------------------------------------------------------
(* The user.                                                               *)

(* create_checkout_session: a customer the row knows is used again, and    *)
(* Stripe refuses one that it does not know.                               *)
OpenCheckout(s) ==
    /\ state[s] = "none"
    /\ \/ row.customer = None
       \/ \E t \in Subs : /\ state[t] \in SubscriptionStatuses
                          /\ customer[t] = row.customer
    /\ state' = [state EXCEPT ![s] = "open"]
    /\ customer' = [customer EXCEPT ![s] =
                      IF row.customer = None THEN s ELSE row.customer]
    /\ UNCHANGED <<ending, log, overlap, answered, row, applied, late, written>>

(* mutate_data: user_settings is the user's own to update, upsert and      *)
(* delete, its billing columns included.  Stripe is not told.              *)
EditSettings(r) ==
    /\ row' = r
    /\ written' = {"subscription", "ending"}
    /\ UNCHANGED <<stripe, answered, applied, late>>

-----------------------------------------------------------------------------
(* Stripe.                                                                 *)

EventOf(type, s, status, end) ==
    [type |-> type, sub |-> s, customer |-> customer[s], status |-> status,
     ending |-> end]

(* The customer pays: the subscription begins, and its two first events    *)
(* are of either order.                                                    *)
CompleteCheckout(s, status) ==
    LET created  == EventOf("created", s, status, FALSE)
        checkout == EventOf("checkout", s, status, FALSE)
    IN  /\ state[s] = "open" /\ Len(log) + 2 <= MaxEvents
        /\ state' = [state EXCEPT ![s] = status]
        /\ log' \in {log \o <<created, checkout>>, log \o <<checkout, created>>}
        /\ overlap' = (overlap \/ Running # {})
        /\ UNCHANGED <<customer, ending, answered, row, applied, late, written>>

(* A period ends or begins, a payment fails, the customer changes his mind.*)
Change(s, status, end) ==
    /\ s \in Running /\ Len(log) < MaxEvents
    /\ status # "canceled"
    /\ state' = [state EXCEPT ![s] = status]
    /\ ending' = [ending EXCEPT ![s] = end]
    /\ log' = Append(log, EventOf("updated", s, status, end))
    /\ UNCHANGED <<customer, overlap, answered, row, applied, late, written>>

Delete(s) ==
    /\ s \in Running /\ Len(log) < MaxEvents
    /\ state' = [state EXCEPT ![s] = "canceled"]
    /\ log' = Append(log, EventOf("deleted", s, "canceled", ending[s]))
    /\ UNCHANGED <<customer, ending, overlap, answered, row, applied, late,
                   written>>

-----------------------------------------------------------------------------
(* The webhook.                                                            *)

(* billing_update_from_event: the columns an event overwrites.  The faulty *)
(* variants take the kind of the event for the status, and leave the       *)
(* subscription that the row knows.                                        *)
FaultyStatus(e) ==
    [sub |-> e.sub, customer |-> e.customer, status |-> e.type,
     ending |-> e.ending]

FaultyKeepSub(e) ==
    [sub |-> IF row.sub = None THEN e.sub ELSE row.sub, customer |-> e.customer,
     status |-> IF e.type = "checkout" THEN "active" ELSE e.status,
     ending |-> IF e.type = "checkout" THEN row.ending ELSE e.ending]

UpdateFrom(e) ==
    [sub      |-> e.sub,
     customer |-> e.customer,
     status   |-> CASE e.type = "checkout" -> "active"
                    [] e.type = "deleted"  -> "canceled"
                    [] OTHER               -> e.status,
     ending   |-> IF e.type = "checkout" THEN row.ending ELSE e.ending]

(* post_webhook: the upsert is one statement.  The answer may be lost, and *)
(* the event is then sent again.                                           *)
Webhook(n) ==
    /\ n \in DOMAIN log \ answered
    /\ row' = UpdateFrom(log[n])
    /\ answered' \in {answered, answered \cup {n}}
    /\ late' = (late \/ n < applied)
    /\ applied' = n
    /\ written' = IF log[n].type = "checkout" THEN written \ {"subscription"}
                                              ELSE {}
    /\ UNCHANGED stripe

(* The event is answered with success.                                     *)
Answer(n) == Webhook(n) /\ n \in answered'

-----------------------------------------------------------------------------
BillingNext ==
    \/ \E s \in Subs :
          \/ OpenCheckout(s)
          \/ Delete(s)
          \/ \E status \in ActiveStatuses : CompleteCheckout(s, status)
          \/ \E status \in SubscriptionStatuses, end \in BOOLEAN :
                Change(s, status, end)
    \/ \E r \in Claims \cup {NoRow} : EditSettings(r)
    \/ \E n \in 1..MaxEvents : Webhook(n)

(* Stripe sends an event until it is answered, and in the end an answer    *)
(* arrives.  Nobody need pay, and nothing need change.                     *)
BillingSpec == /\ BillingInit /\ [][BillingNext]_billingVars
               /\ \A n \in 1..MaxEvents : WF_billingVars(Answer(n))

-----------------------------------------------------------------------------
(* Properties.                                                             *)

(* What the overview shows of the subscription s (subscription_from_       *)
(* settings): its customer, and premium exactly while Stripe runs one.     *)
Shows(s) ==
    /\ row.sub = s /\ row.customer = customer[s]
    /\ row.status \in ActiveStatuses
         <=> \E t \in Subs : state[t] \in ActiveStatuses

(* Whatever was lost, repeated, late or written by the user before, once   *)
(* the newest event is applied last, and the user has not written since,   *)
(* he is shown what Stripe holds.  He is shown the end of his period as    *)
(* well if that event tells it; a checkout does not, and leaves the end    *)
(* that an earlier subscription had, or the user wrote, until the event    *)
(* that created the new one came, too.  It needs subscriptions that do not *)
(* overlap: the row has room for one, and the end of an old one would be   *)
(* shown in place of the new one                                           *)
(* (billing_update_from_event, upsert_user_billing_settings).              *)
ShowsNewest ==
    /\ applied = Len(log) /\ log # <<>> /\ ~overlap
    /\ "subscription" \notin written
    => LET newest == log[applied] IN
         /\ Shows(newest.sub)
         /\ /\ newest.type # "checkout" \/ (answered = DOMAIN log /\ ~late)
            /\ "ending" \notin written
            => row.ending = ending[newest.sub]

(* If no event ever comes late and no subscriptions overlap, then answers  *)
(* may be lost and events repeated: once Stripe has nothing new to tell and*)
(* events have replaced what the user wrote for good, the overview comes to*)
(* show what Stripe holds and goes on showing it.                          *)
Converges ==
    [](~late /\ ~overlap) /\ <>[](written = {})
      => <>[](\A s \in Subs : log # <<>> /\ s = log[Len(log)].sub
                              => Shows(s) /\ row.ending = ending[s])
=============================================================================
