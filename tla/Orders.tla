------------------------------- MODULE Orders --------------------------------
(***************************************************************************)
(* Orders of the marketplace: a buyer's create_order stores the order and  *)
(* its items in two transactions, and administrators move an order along   *)
(* ORDER_TRANSITIONS with update_order_status, which reads the status,     *)
(* then updates the row only where it is still the one read, then mails    *)
(* the buyer.                                                              *)
(*                                                                         *)
(* CommerceProofs extends this module and Billing: what both have carries  *)
(* the name of its module.                                                 *)
(***************************************************************************)
EXTENDS Naturals

CONSTANTS
    OrderIds,   \* ids of orders
    Admins,     \* concurrent administrator requests
    NoOrder     \* no order

ASSUME OrderAssumption == NoOrder \notin OrderIds

VARIABLES
    order,      \* orders.status, "none" for no such order
    items,      \* orders whose rows in order_items exist
    buying,     \* create_order calls between their two inserts
    job,        \* each administrator's update_order_status
    mails       \* number of mails sent for an order and a status

ordersVars == <<order, items, buying, job, mails>>

Transitions ==
    [draft      |-> {"pending", "cancelled"},
     pending    |-> {"confirmed", "cancelled"},
     confirmed  |-> {"fulfilling", "cancelled"},
     fulfilling |-> {"shipped", "cancelled"},
     shipped    |-> {"delivered"},
     delivered  |-> {},
     cancelled  |-> {}]

OrderStatuses == DOMAIN Transitions

(* Statuses the route accepts: every one but "draft".                      *)
Targets == OrderStatuses \ {"draft"}

Idle == [step |-> "idle", order |-> NoOrder, seen |-> "draft",
         target |-> "draft"]

Jobs == [step : {"idle", "write", "mail"}, order : OrderIds \cup {NoOrder},
         seen : OrderStatuses, target : OrderStatuses]

OrdersTypeOK ==
    /\ order \in [OrderIds -> OrderStatuses \cup {"none"}]
    /\ items \subseteq OrderIds
    /\ buying \subseteq OrderIds
    /\ job \in [Admins -> Jobs]
    /\ \A u \in Admins : job[u].step # "idle" => job[u].order \in OrderIds
    /\ mails \in [OrderIds -> [OrderStatuses -> Nat]]

OrdersInit ==
    /\ order = [o \in OrderIds |-> "none"]
    /\ items = {}
    /\ buying = {}
    /\ job = [u \in Admins |-> Idle]
    /\ mails = [o \in OrderIds |-> [s \in OrderStatuses |-> 0]]

-----------------------------------------------------------------------------
(* create_order: two inserts; a failure between them leaves the order      *)
(* without items.  The faulty variant stores a status the enumeration of   *)
(* the column does not have.                                               *)
FaultyInsertOrder(o) ==
    /\ order[o] = "none"
    /\ order' = [order EXCEPT ![o] = "new"]
    /\ buying' = buying \cup {o}
    /\ UNCHANGED <<items, job, mails>>

InsertOrder(o) ==
    /\ order[o] = "none"
    /\ order' = [order EXCEPT ![o] = "pending"]
    /\ buying' = buying \cup {o}
    /\ UNCHANGED <<items, job, mails>>

InsertItems(o) ==
    /\ o \in buying
    /\ items' = items \cup {o}
    /\ buying' = buying \ {o}
    /\ UNCHANGED <<order, job, mails>>

FailItems(o) ==
    /\ o \in buying
    /\ buying' = buying \ {o}
    /\ UNCHANGED <<order, items, job, mails>>

-----------------------------------------------------------------------------
(* update_order_status.                                                    *)

(* The order is read and the move checked against the table.               *)
ReadOrder(u, o, target) ==
    /\ job[u].step = "idle"
    /\ order[o] # "none"
    /\ target \in Transitions[order[o]]
    /\ job' = [job EXCEPT ![u] = [step |-> "write", order |-> o,
                                  seen |-> order[o], target |-> target]]
    /\ UNCHANGED <<order, items, buying, mails>>

(* The update names the id and the status read; no row answers 409.  The   *)
(* faulty variant names the id alone.                                      *)
FaultyWriteStatus(u) ==
    /\ job[u].step = "write"
    /\ order' = [order EXCEPT ![job[u].order] = job[u].target]
    /\ job' = [job EXCEPT ![u].step = "mail"]
    /\ UNCHANGED <<items, buying, mails>>

WriteStatus(u) ==
    /\ job[u].step = "write"
    /\ IF order[job[u].order] = job[u].seen
       THEN /\ order' = [order EXCEPT ![job[u].order] = job[u].target]
            /\ job' = [job EXCEPT ![u].step = "mail"]
       ELSE /\ job' = [job EXCEPT ![u] = Idle]
            /\ UNCHANGED order
    /\ UNCHANGED <<items, buying, mails>>

SendMail(u) ==
    /\ job[u].step = "mail"
    /\ mails' = [mails EXCEPT ![job[u].order][job[u].target] = @ + 1]
    /\ job' = [job EXCEPT ![u] = Idle]
    /\ UNCHANGED <<order, items, buying>>

(* The buyer has no profile with an address, the mail fails, or the server *)
(* stops.                                                                  *)
Abandon(u) ==
    /\ job[u].step # "idle"
    /\ job' = [job EXCEPT ![u] = Idle]
    /\ UNCHANGED <<order, items, buying, mails>>

OrdersNext ==
    \/ \E o \in OrderIds : InsertOrder(o) \/ InsertItems(o) \/ FailItems(o)
    \/ \E u \in Admins :
         \/ \E o \in OrderIds, target \in Targets : ReadOrder(u, o, target)
         \/ WriteStatus(u) \/ SendMail(u) \/ Abandon(u)

OrdersSpec == OrdersInit /\ [][OrdersNext]_ordersVars

-----------------------------------------------------------------------------
(* Properties.                                                             *)

(* Whatever moved an order between an administrator's read and write, every*)
(* change of its status is one the table allows (admin.py:92-104): a       *)
(* cancelled order is never revived, a shipped one never cancelled.        *)
OnlyTableMoves ==
    [][\A o \in OrderIds :
          /\ order[o] # "none" /\ order'[o] # order[o]
          => order'[o] \in Transitions[order[o]]]_ordersVars

(* Two administrators who make the same move send one mail between them:   *)
(* the buyer is told of a status at most once.                             *)
OneMailPerStatus ==
    \A o \in OrderIds, s \in OrderStatuses : mails[o][s] <= 1
=============================================================================
