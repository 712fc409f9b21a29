--------------------------- MODULE CommerceProofs ----------------------------
(* Proofs about Orders, for every set of orders and administrators, and    *)
(* about Billing, for every set of subscriptions and any number of events. *)
EXTENDS Orders, Billing, SequenceTheorems, TLAPS

-----------------------------------------------------------------------------
(* ORDERS.                                                                 *)

(* How far along its life an order with a status is.                       *)
Rank == [draft      |-> 0,
         pending    |-> 1,
         confirmed  |-> 2,
         fulfilling |-> 3,
         shipped    |-> 4,
         delivered  |-> 5,
         cancelled  |-> 5]

(* Every move of the table leads further.                                  *)
LEMMA MovesRise ==
  ASSUME NEW s \in OrderStatuses, NEW t \in Transitions[s]
  PROVE  /\ t \in OrderStatuses
         /\ Rank[s] \in Nat /\ Rank[t] \in Nat
         /\ Rank[s] < Rank[t]
BY DEF OrderStatuses, Transitions, Rank

LEMMA RankNat == \A s \in OrderStatuses : Rank[s] \in Nat
BY DEF OrderStatuses, Transitions, Rank

-----------------------------------------------------------------------------
(* The inductive invariant.                                                *)

(* A move about to be written is one of the table from the status read.    *)
MovesAllowed ==
    \A u \in Admins :
        /\ job[u].step # "idle" => order[job[u].order] # "none"
        /\ job[u].step = "write" => job[u].target \in Transitions[job[u].seen]

(* An order is at least as far as any status its buyer was told of.        *)
SentReached ==
    \A o \in OrderIds, s \in OrderStatuses :
        mails[o][s] > 0 => order[o] # "none" /\ Rank[s] <= Rank[order[o]]

(* One administrator mails a status, after it was reached and before       *)
(* anybody else mailed it.                                                 *)
OneMailer ==
    /\ \A u \in Admins : job[u].step = "mail" =>
         /\ Rank[job[u].target] <= Rank[order[job[u].order]]
         /\ mails[job[u].order][job[u].target] = 0
    /\ \A u, v \in Admins :
         /\ job[u].step = "mail" /\ job[v].step = "mail"
         /\ job[u].order = job[v].order /\ job[u].target = job[v].target
         => u = v

OrdersInv == /\ OrdersTypeOK
        /\ MovesAllowed /\ SentReached /\ OneMailer /\ OneMailPerStatus

-----------------------------------------------------------------------------
(* Type correctness.                                                       *)

LEMMA OrdersTypeInit == OrdersInit => OrdersTypeOK
BY DEF OrdersInit, OrdersTypeOK, Jobs, Idle, OrderStatuses, Transitions

(* The statuses a handler writes are those of the table.                   *)
LEMMA OrdersTypeStep ==
  ASSUME OrdersTypeOK, OrdersNext
  PROVE  OrdersTypeOK'
<1>1. "pending" \in OrderStatuses /\ "draft" \in OrderStatuses
  BY DEF OrderStatuses, Transitions
<1>2. Idle \in Jobs
  BY <1>1 DEF Idle, Jobs
<1>3. ASSUME NEW o \in OrderIds,
             InsertOrder(o) \/ InsertItems(o) \/ FailItems(o)
      PROVE  OrdersTypeOK'
  BY <1>1, <1>3 DEF InsertOrder, InsertItems, FailItems, OrdersTypeOK
<1>4. ASSUME NEW u \in Admins, NEW o \in OrderIds, NEW target \in Targets,
             ReadOrder(u, o, target)
      PROVE  OrdersTypeOK'
  <2>1. order[o] \in OrderStatuses /\ target \in OrderStatuses
    BY <1>4 DEF ReadOrder, OrdersTypeOK, Targets
  <2>2. [step |-> "write", order |-> o, seen |-> order[o],
         target |-> target] \in Jobs
    BY <2>1 DEF Jobs
  <2> QED
    BY <1>4, <2>2 DEF ReadOrder, OrdersTypeOK, Jobs
<1>5. ASSUME NEW u \in Admins, WriteStatus(u)
      PROVE  OrdersTypeOK'
  <2>1. /\ job[u] \in Jobs /\ job[u].order \in OrderIds
        /\ job[u].target \in OrderStatuses
    BY <1>5 DEF WriteStatus, OrdersTypeOK, Jobs
  <2>2. [job[u] EXCEPT !.step = "mail"] \in Jobs
    BY <2>1 DEF Jobs
  <2>3. CASE order[job[u].order] = job[u].seen
    <3>1. /\ order' = [order EXCEPT ![job[u].order] = job[u].target]
          /\ job' = [job EXCEPT ![u].step = "mail"]
      BY <1>5, <2>3 DEF WriteStatus
    <3>2. job' \in [Admins -> Jobs]
      BY <2>2, <3>1 DEF OrdersTypeOK
    <3>3. \A v \in Admins : job'[v].step # "idle" => job'[v].order \in OrderIds
      BY <2>1, <3>1 DEF OrdersTypeOK, Jobs
    <3> QED
      BY <1>5, <2>1, <3>1, <3>2, <3>3 DEF WriteStatus, OrdersTypeOK
  <2>4. CASE order[job[u].order] # job[u].seen
    BY <1>2, <1>5, <2>4 DEF WriteStatus, OrdersTypeOK, Idle
  <2> QED
    BY <2>3, <2>4
<1>6. ASSUME NEW u \in Admins, SendMail(u)
      PROVE  OrdersTypeOK'
  <2>1. job[u].order \in OrderIds /\ job[u].target \in OrderStatuses
    BY <1>6 DEF SendMail, OrdersTypeOK, Jobs
  <2>2. mails' \in [OrderIds -> [OrderStatuses -> Nat]]
    BY <1>6, <2>1 DEF SendMail, OrdersTypeOK
  <2> QED
    BY <1>2, <1>6, <2>2 DEF SendMail, OrdersTypeOK, Idle
<1>7. ASSUME NEW u \in Admins, Abandon(u)
      PROVE  OrdersTypeOK'
  BY <1>2, <1>7 DEF Abandon, OrdersTypeOK, Idle
<1> QED
  BY <1>3, <1>4, <1>5, <1>6, <1>7 DEF OrdersNext

-----------------------------------------------------------------------------
(* The steps.                                                              *)

(* A write that finds the status it read makes a move of the table; one    *)
(* that does not changes nothing.                                          *)
LEMMA WriteRises ==
  ASSUME OrdersTypeOK, MovesAllowed, NEW u \in Admins, WriteStatus(u),
         order[job[u].order] = job[u].seen
  PROVE  /\ job[u].order \in OrderIds
         /\ job[u].target \in OrderStatuses
         /\ job[u].target \in Transitions[order[job[u].order]]
         /\ order[job[u].order] \in OrderStatuses
         /\ Rank[order[job[u].order]] < Rank[job[u].target]
         /\ order' = [order EXCEPT ![job[u].order] = job[u].target]
         /\ job' = [job EXCEPT ![u].step = "mail"]
<1>1. /\ job[u].step = "write" /\ job[u].order \in OrderIds
      /\ job[u].seen \in OrderStatuses
      /\ job[u].target \in Transitions[job[u].seen]
  BY DEF WriteStatus, OrdersTypeOK, Jobs, MovesAllowed
<1> QED
  BY <1>1, MovesRise DEF WriteStatus

LEMMA MovesStep ==
  ASSUME OrdersInv, OrdersNext, OrdersTypeOK'
  PROVE  MovesAllowed'
<1> USE DEF MovesAllowed, OrdersTypeOK, Jobs, Idle
<1>1. OrdersTypeOK /\ MovesAllowed
  BY DEF OrdersInv
<1>2. ASSUME NEW o \in OrderIds,
             InsertOrder(o) \/ InsertItems(o) \/ FailItems(o)
      PROVE  MovesAllowed'
  BY <1>1, <1>2 DEF InsertOrder, InsertItems, FailItems
<1>3. ASSUME NEW u \in Admins, NEW o \in OrderIds, NEW target \in Targets,
             ReadOrder(u, o, target)
      PROVE  MovesAllowed'
  BY <1>1, <1>3 DEF ReadOrder
<1>4. ASSUME NEW u \in Admins, WriteStatus(u)
      PROVE  MovesAllowed'
  <2>1. CASE order[job[u].order] = job[u].seen
    <3>1. /\ job[u].order \in OrderIds /\ job[u].target \in OrderStatuses
          /\ order' = [order EXCEPT ![job[u].order] = job[u].target]
          /\ job' = [job EXCEPT ![u].step = "mail"]
      BY <1>1, <1>4, <2>1, WriteRises
    <3>2. job[u].target # "none"
      BY <3>1 DEF OrderStatuses, Transitions
    <3>3. \A v \in Admins :
            /\ job'[v].order = job[v].order
            /\ job'[v].seen = job[v].seen
            /\ job'[v].target = job[v].target
            /\ job'[v].step = "write" => job[v].step = "write"
      BY <1>1, <3>1
    <3>4. \A v \in Admins : job'[v].step # "idle" => job[v].step # "idle"
      BY <1>1, <1>4, <3>1 DEF WriteStatus
    <3>5. \A p \in OrderIds : order[p] # "none" => order'[p] # "none"
      BY <1>1, <3>1, <3>2
    <3>6. ASSUME NEW v \in Admins, job'[v].step # "idle"
          PROVE  order'[job'[v].order] # "none"
      <4>1. job[v].order \in OrderIds /\ order[job[v].order] # "none"
        BY <1>1, <3>4, <3>6
      <4> QED
        BY <3>3, <3>5, <4>1
    <3>7. ASSUME NEW v \in Admins, job'[v].step = "write"
          PROVE  job'[v].target \in Transitions[job'[v].seen]
      <4>1. job[v].step = "write" /\ job'[v].target = job[v].target
            /\ job'[v].seen = job[v].seen
        BY <3>3, <3>7
      <4> QED
        BY <1>1, <4>1
    <3> QED
      BY <3>6, <3>7
  <2>2. CASE order[job[u].order] # job[u].seen
    BY <1>1, <1>4, <2>2 DEF WriteStatus
  <2> QED
    BY <2>1, <2>2
<1>5. ASSUME NEW u \in Admins, SendMail(u) \/ Abandon(u)
      PROVE  MovesAllowed'
  BY <1>1, <1>5 DEF SendMail, Abandon
<1> QED
  BY <1>2, <1>3, <1>4, <1>5 DEF OrdersNext

(* An order only ever gets further, so the statuses already mailed stay    *)
(* behind it.                                                              *)
LEMMA SentStep ==
  ASSUME OrdersInv, OrdersNext, OrdersTypeOK'
  PROVE  SentReached'
<1> USE DEF SentReached, OrdersTypeOK, Jobs
<1>1. OrdersTypeOK /\ MovesAllowed /\ SentReached /\ OneMailer
  BY DEF OrdersInv
<1>2. ASSUME NEW o \in OrderIds,
             InsertOrder(o) \/ InsertItems(o) \/ FailItems(o)
      PROVE  SentReached'
  BY <1>1, <1>2 DEF InsertOrder, InsertItems, FailItems
<1>3. ASSUME NEW u \in Admins, NEW o \in OrderIds, NEW target \in Targets,
             ReadOrder(u, o, target)
      PROVE  SentReached'
  BY <1>1, <1>3 DEF ReadOrder
<1>4. ASSUME NEW u \in Admins, WriteStatus(u)
      PROVE  SentReached'
  <2>1. CASE order[job[u].order] = job[u].seen
    <3> DEFINE o == job[u].order
               t == job[u].target
    <3>1. /\ o \in OrderIds /\ t \in OrderStatuses /\ order[o] \in OrderStatuses
          /\ Rank[order[o]] < Rank[t]
          /\ order' = [order EXCEPT ![o] = t]
          /\ mails' = mails
      BY <1>1, <1>4, <2>1, WriteRises DEF WriteStatus
    <3>2. t # "none"
      BY <3>1 DEF OrderStatuses, Transitions
    <3>3. order'[o] = t /\ \A p \in OrderIds \ {o} : order'[p] = order[p]
      BY <1>1, <3>1
    <3>4. ASSUME NEW s \in OrderStatuses, mails[o][s] > 0
          PROVE  Rank[s] <= Rank[t]
      <4>1. Rank[s] <= Rank[order[o]]
        BY <1>1, <3>1, <3>4
      <4> QED
        BY <3>1, <4>1, RankNat
    <3> QED
      BY <1>1, <3>1, <3>2, <3>3, <3>4
  <2>2. CASE order[job[u].order] # job[u].seen
    BY <1>1, <1>4, <2>2 DEF WriteStatus
  <2> QED
    BY <2>1, <2>2
<1>5. ASSUME NEW u \in Admins, SendMail(u)
      PROVE  SentReached'
  <2> DEFINE o == job[u].order
             t == job[u].target
  <2>1. /\ o \in OrderIds /\ t \in OrderStatuses
        /\ mails' = [mails EXCEPT ![o][t] = @ + 1] /\ order' = order
        /\ order[o] # "none" /\ Rank[t] <= Rank[order[o]]
    BY <1>1, <1>5 DEF SendMail, MovesAllowed, OneMailer
  <2>2. \A p \in OrderIds, s \in OrderStatuses :
          mails'[p][s] = IF p = o /\ s = t THEN mails[p][s] + 1
                                          ELSE mails[p][s]
    BY <1>1, <2>1
  <2> QED
    BY <1>1, <2>1, <2>2
<1>6. ASSUME NEW u \in Admins, Abandon(u)
      PROVE  SentReached'
  BY <1>1, <1>6 DEF Abandon
<1> QED
  BY <1>2, <1>3, <1>4, <1>5, <1>6 DEF OrdersNext

(* Only the write that reaches a status is followed by its mail.           *)
LEMMA MailerStep ==
  ASSUME OrdersInv, OrdersNext, OrdersTypeOK'
  PROVE  OneMailer'
<1> USE DEF OneMailer, OrdersTypeOK, Jobs
<1>1. OrdersTypeOK /\ MovesAllowed /\ SentReached /\ OneMailer
  BY DEF OrdersInv
<1>2. ASSUME NEW o \in OrderIds,
             InsertOrder(o) \/ InsertItems(o) \/ FailItems(o)
      PROVE  OneMailer'
  BY <1>1, <1>2 DEF InsertOrder, InsertItems, FailItems, MovesAllowed
<1>3. ASSUME NEW u \in Admins, NEW o \in OrderIds, NEW target \in Targets,
             ReadOrder(u, o, target)
      PROVE  OneMailer'
  BY <1>1, <1>3 DEF ReadOrder
<1>4. ASSUME NEW u \in Admins, WriteStatus(u)
      PROVE  OneMailer'
  <2>1. CASE order[job[u].order] = job[u].seen
    <3> DEFINE o == job[u].order
               t == job[u].target
    <3>1. /\ o \in OrderIds /\ t \in OrderStatuses /\ order[o] \in OrderStatuses
          /\ Rank[order[o]] < Rank[t]
          /\ order' = [order EXCEPT ![o] = t]
          /\ job' = [job EXCEPT ![u].step = "mail"]
          /\ mails' = mails
          /\ job[u].step = "write"
      BY <1>1, <1>4, <2>1, WriteRises DEF WriteStatus
    <3>2. /\ Rank[order[o]] \in Nat /\ Rank[t] \in Nat
          /\ ~(Rank[t] <= Rank[order[o]])
      BY <3>1, RankNat
    <3>3. mails[o][t] = 0
      <4>1. ~(mails[o][t] > 0)
        BY <1>1, <3>1, <3>2 DEF SentReached
      <4>2. mails[o][t] \in Nat
        BY <1>1, <3>1
      <4> QED
        BY <4>1, <4>2
    <3>4. \A v \in Admins \ {u} : job'[v] = job[v]
      BY <1>1, <3>1
    <3>5. /\ job'[u].step = "mail" /\ job'[u].order = o /\ job'[u].target = t
      BY <1>1, <3>1
    <3>6. \A v \in Admins \ {u} :
            job[v].step = "mail" /\ job[v].order = o =>
              /\ job[v].target # t
              /\ Rank[job[v].target] <= Rank[t]
      <4>1. ASSUME NEW v \in Admins \ {u}, job[v].step = "mail",
                   job[v].order = o
            PROVE  job[v].target # t /\ Rank[job[v].target] <= Rank[t]
        <5>1. Rank[job[v].target] <= Rank[order[o]]
          BY <1>1, <4>1
        <5>2. Rank[job[v].target] \in Nat
          BY <1>1, <4>1, RankNat
        <5> QED
          BY <3>1, <3>2, <5>1, <5>2
      <4> QED
        BY <4>1
    <3>7. order'[o] = t /\ \A p \in OrderIds \ {o} : order'[p] = order[p]
      BY <1>1, <3>1
    <3>8. ASSUME NEW v \in Admins, job'[v].step = "mail"
          PROVE  /\ Rank[job'[v].target] <= Rank[order'[job'[v].order]]
                 /\ mails'[job'[v].order][job'[v].target] = 0
      <4>1. CASE v = u
        BY <3>1, <3>2, <3>3, <3>5, <3>7, <4>1
      <4>2. CASE v # u
        BY <1>1, <3>1, <3>4, <3>6, <3>7, <3>8, <4>2
      <4> QED
        BY <4>1, <4>2
    <3>9. ASSUME NEW v \in Admins, NEW w \in Admins,
                 job'[v].step = "mail", job'[w].step = "mail",
                 job'[v].order = job'[w].order,
                 job'[v].target = job'[w].target
          PROVE  v = w
      <4>1. CASE v # u /\ w # u
        BY <1>1, <3>4, <3>9, <4>1
      <4>2. CASE v = u \/ w = u
        BY <3>4, <3>5, <3>6, <3>9, <4>2
      <4> QED
        BY <4>1, <4>2
    <3> QED
      BY <3>8, <3>9
  <2>2. CASE order[job[u].order] # job[u].seen
    <3>1. /\ job' = [job EXCEPT ![u] = Idle]
          /\ order' = order /\ mails' = mails
      BY <1>4, <2>2 DEF WriteStatus
    <3>2. \A v \in Admins : job'[v].step = "mail" => v # u /\ job'[v] = job[v]
      BY <1>1, <3>1 DEF Idle
    <3> QED
      BY <1>1, <3>1, <3>2
  <2> QED
    BY <2>1, <2>2
<1>5. ASSUME NEW u \in Admins, SendMail(u)
      PROVE  OneMailer'
  <2> DEFINE o == job[u].order
             t == job[u].target
  <2>1. /\ o \in OrderIds /\ t \in OrderStatuses /\ job[u].step = "mail"
        /\ mails' = [mails EXCEPT ![o][t] = @ + 1] /\ order' = order
        /\ job' = [job EXCEPT ![u] = Idle]
    BY <1>1, <1>5 DEF SendMail
  <2>2. \A p \in OrderIds, s \in OrderStatuses :
          ~(p = o /\ s = t) => mails'[p][s] = mails[p][s]
    BY <1>1, <2>1
  <2>3. \A v \in Admins : job'[v].step = "mail" => v # u /\ job'[v] = job[v]
    BY <1>1, <2>1 DEF Idle
  <2> QED
    BY <1>1, <2>1, <2>2, <2>3
<1>6. ASSUME NEW u \in Admins, Abandon(u)
      PROVE  OneMailer'
  BY <1>1, <1>6 DEF Abandon, Idle
<1> QED
  BY <1>2, <1>3, <1>4, <1>5, <1>6 DEF OrdersNext

(* The mail that is sent is the first for its status.                      *)
LEMMA MailStep ==
  ASSUME OrdersInv, OrdersNext, OrdersTypeOK'
  PROVE  OneMailPerStatus'
<1>1. OrdersTypeOK /\ OneMailer /\ OneMailPerStatus
  BY DEF OrdersInv
<1>2. ASSUME NEW u \in Admins, SendMail(u)
      PROVE  OneMailPerStatus'
  <2> DEFINE o == job[u].order
             t == job[u].target
  <2>1. /\ o \in OrderIds /\ t \in OrderStatuses /\ mails[o][t] = 0
        /\ mails' = [mails EXCEPT ![o][t] = @ + 1]
    BY <1>1, <1>2 DEF SendMail, OneMailer, OrdersTypeOK, Jobs
  <2>2. \A p \in OrderIds, s \in OrderStatuses :
          mails'[p][s] = IF p = o /\ s = t THEN 1 ELSE mails[p][s]
    BY <1>1, <2>1 DEF OrdersTypeOK
  <2> QED
    BY <1>1, <2>2 DEF OneMailPerStatus
<1>3. CASE mails' = mails
  BY <1>1, <1>3 DEF OneMailPerStatus
<1> QED
  BY <1>2, <1>3 DEF OrdersNext, InsertOrder, InsertItems, FailItems, ReadOrder,
       WriteStatus, Abandon

-----------------------------------------------------------------------------
(* The theorems.                                                           *)

LEMMA OrdersInitInvariant == OrdersInit => OrdersInv
<1> SUFFICES ASSUME OrdersInit PROVE OrdersInv
  OBVIOUS
<1>1. OrdersTypeOK
  BY OrdersTypeInit
<1>2. \A u \in Admins : job[u].step = "idle"
  BY DEF OrdersInit, Idle
<1>3. \A o \in OrderIds, s \in OrderStatuses : mails[o][s] = 0
  BY DEF OrdersInit
<1> QED
  BY <1>1, <1>2, <1>3
     DEF OrdersInv, MovesAllowed, SentReached, OneMailer, OneMailPerStatus

LEMMA OrdersStepInvariant == OrdersInv /\ [OrdersNext]_ordersVars => OrdersInv'
<1>1. ASSUME OrdersInv, OrdersNext PROVE OrdersInv'
  <2>1. OrdersTypeOK'
    BY <1>1, OrdersTypeStep DEF OrdersInv
  <2> QED
    BY <1>1, <2>1, MovesStep, SentStep, MailerStep, MailStep DEF OrdersInv
<1>2. ASSUME OrdersInv, UNCHANGED ordersVars PROVE OrdersInv'
  BY <1>2 DEF ordersVars, OrdersInv, OrdersTypeOK, MovesAllowed, SentReached, OneMailer,
         OneMailPerStatus
<1> QED
  BY <1>1, <1>2

LEMMA OrdersInvariant == OrdersSpec => []OrdersInv
BY OrdersInitInvariant, OrdersStepInvariant, PTL DEF OrdersSpec

(* Orders and handlers keep their types in every behaviour.                *)
THEOREM OrdersTypeCorrect == OrdersSpec => []OrdersTypeOK
<1>1. OrdersInv => OrdersTypeOK
  BY DEF OrdersInv
<1> QED
  BY <1>1, OrdersInvariant, PTL

(* However many administrators move however many orders, the buyer is told *)
(* of a status at most once.                                               *)
THEOREM MailsCorrect == OrdersSpec => []OneMailPerStatus
<1>1. OrdersInv => OneMailPerStatus
  BY DEF OrdersInv
<1> QED
  BY <1>1, OrdersInvariant, PTL

(* Every change of an order's status is a move of the table.               *)
THEOREM MovesCorrect == OrdersSpec => OnlyTableMoves
<1>1. ASSUME OrdersInv, OrdersNext, NEW o \in OrderIds,
             order[o] # "none", order'[o] # order[o]
      PROVE  order'[o] \in Transitions[order[o]]
  <2>1. PICK u \in Admins : WriteStatus(u)
    BY <1>1 DEF OrdersInv, OrdersTypeOK, OrdersNext, InsertOrder, InsertItems, FailItems,
         ReadOrder, SendMail, Abandon
  <2>2. order[job[u].order] = job[u].seen
    BY <1>1, <2>1 DEF WriteStatus
  <2> QED
    BY <1>1, <2>1, <2>2, WriteRises DEF OrdersInv, OrdersTypeOK
<1>2. OrdersInv /\ [OrdersNext]_ordersVars =>
        [\A o \in OrderIds :
            /\ order[o] # "none" /\ order'[o] # order[o]
            => order'[o] \in Transitions[order[o]]]_ordersVars
  BY <1>1
<1> QED
  BY <1>2, OrdersInvariant, PTL DEF OrdersSpec, OnlyTableMoves

-----------------------------------------------------------------------------
(* BILLING.  The inductive invariant.                                      *)

(* An event tells of a subscription that began, and of its customer.       *)
EventsTold ==
    \A n \in DOMAIN log :
        /\ log[n].customer = customer[log[n].sub]
        /\ state[log[n].sub] \notin {"none", "open"}
        /\ log[n].type = "deleted" => log[n].status = "canceled"
        /\ log[n].type = "checkout" => log[n].status \in ActiveStatuses

(* The newest event tells what Stripe holds.  A checkout is the newest only *)
(* where the event before it created the same subscription.                *)
NewestTold ==
    \A n \in DOMAIN log :
        n = Len(log) =>
          /\ state[log[n].sub] = log[n].status
          /\ ending[log[n].sub] = log[n].ending
          /\ log[n].type = "checkout" =>
               /\ log[n].ending = FALSE
               /\ n - 1 \in DOMAIN log
               /\ log[n - 1].type # "checkout"
               /\ log[n - 1].ending = FALSE

(* A checkout has a customer, and a subscription that has not begun does   *)
(* not end.                                                                *)
CheckoutsOpened ==
    \A s \in Subs :
        /\ state[s] # "none" => customer[s] # None
        /\ state[s] \in {"none", "open"} => ending[s] = FALSE

(* Until subscriptions overlap, the one that runs is that of the newest    *)
(* event.                                                                  *)
OneRuns ==
    ~overlap => \A t \in Running : log # <<>> /\ t = log[Len(log)].sub

(* The columns the user has not written since hold what the event applied  *)
(* last tells.                                                             *)
RowTold ==
    \A n \in DOMAIN log :
        n = applied =>
          /\ "subscription" \notin written =>
               /\ row.sub = log[n].sub
               /\ row.customer = log[n].customer
               /\ row.status = CASE log[n].type = "checkout" -> "active"
                                 [] log[n].type = "deleted"  -> "canceled"
                                 [] OTHER                    -> log[n].status
          /\ log[n].type # "checkout" /\ "ending" \notin written
               => row.ending = log[n].ending

(* While no event is late, none that was answered is newer than the one    *)
(* applied last, and a checkout that ends the log leaves the end that the  *)
(* event before it told, or that the user wrote.                           *)
InTurn ==
    ~late =>
      /\ \A n \in answered : n <= applied
      /\ \A n \in DOMAIN log :
           /\ n = Len(log) /\ log[n].type = "checkout" /\ n - 1 \in answered
           /\ "ending" \notin written
           => row.ending = FALSE

BillingInv == /\ BillingTypeOK
              /\ CheckoutsOpened /\ EventsTold /\ NewestTold
              /\ OneRuns /\ RowTold /\ InTurn

-----------------------------------------------------------------------------
(* The log.                                                                *)

LEMMA LogProperties ==
  ASSUME BillingTypeOK
  PROVE  /\ log \in Seq(Event) /\ Len(log) \in Nat /\ DOMAIN log = 1..Len(log)
         /\ \A n \in DOMAIN log : log[n] \in Event /\ log[n].sub \in Subs
<1>1. log \in Seq(Event)
  BY DEF BillingTypeOK
<1>2. /\ Len(log) \in Nat /\ DOMAIN log = 1..Len(log)
      /\ \A n \in DOMAIN log : log[n] \in Event
  BY <1>1, LenProperties, ElementOfSeq
<1> QED
  BY <1>1, <1>2 DEF Event

(* Steps that send events, and what they leave of the log.                 *)

(* The event e is sent, alone.                                             *)
Sends(e) == log' = Append(log, e)

LEMMA SendProperties ==
  ASSUME BillingTypeOK, NEW e \in Event, Sends(e)
  PROVE  /\ log' \in Seq(Event) /\ log' # <<>>
         /\ Len(log) \in Nat /\ Len(log') = Len(log) + 1
         /\ DOMAIN log = 1..Len(log) /\ DOMAIN log' = 1..Len(log) + 1
         /\ \A n \in DOMAIN log : log'[n] = log[n]
         /\ log'[Len(log) + 1] = e
<1>1. log \in Seq(Event)
  BY DEF BillingTypeOK
<1> QED
  BY <1>1, AppendProperties, LenProperties DEF Sends

(* The events d and e are sent.                                            *)
SendsBoth(d, e) == log' = log \o <<d, e>>

LEMMA SendBothProperties ==
  ASSUME BillingTypeOK, NEW d \in Event, NEW e \in Event, SendsBoth(d, e)
  PROVE  /\ log' \in Seq(Event) /\ log' # <<>>
         /\ Len(log) \in Nat /\ Len(log') = Len(log) + 2
         /\ DOMAIN log = 1..Len(log) /\ DOMAIN log' = 1..Len(log) + 2
         /\ \A n \in DOMAIN log : log'[n] = log[n]
         /\ log'[Len(log) + 1] = d /\ log'[Len(log) + 2] = e
<1>1. log \in Seq(Event) /\ Len(log) \in Nat /\ DOMAIN log = 1..Len(log)
  BY LenProperties DEF BillingTypeOK
<1>2. <<d, e>> \in Seq(Event) /\ Len(<<d, e>>) = 2
  OBVIOUS
<1>3. /\ log' \in Seq(Event)
      /\ Len(log') = Len(log) + 2
      /\ \A n \in 1..Len(log) + 2 :
            log'[n] = IF n <= Len(log) THEN log[n] ELSE <<d, e>>[n - Len(log)]
  BY <1>1, <1>2, ConcatProperties DEF SendsBoth
<1>4. DOMAIN log' = 1..Len(log) + 2
  BY <1>3, LenProperties
<1>5. log'[Len(log) + 1] = d /\ log'[Len(log) + 2] = e
  BY <1>1, <1>3
<1> QED
  BY <1>1, <1>3, <1>4, <1>5, EmptySeq

LEMMA EventOfType ==
  ASSUME BillingTypeOK, NEW s \in Subs, customer[s] # None,
         NEW type \in {"checkout", "created", "updated", "deleted"},
         NEW status \in SubscriptionStatuses, NEW end \in BOOLEAN
  PROVE  /\ EventOf(type, s, status, end) \in Event
         /\ EventOf(type, s, status, end).type = type
         /\ EventOf(type, s, status, end).sub = s
         /\ EventOf(type, s, status, end).customer = customer[s]
         /\ EventOf(type, s, status, end).status = status
         /\ EventOf(type, s, status, end).ending = end
BY DEF EventOf, Event, BillingTypeOK

-----------------------------------------------------------------------------
(* The steps, one lemma for each.                                          *)

LEMMA OpenCheckoutStep ==
  ASSUME BillingInv, NEW s \in Subs, OpenCheckout(s)
  PROVE  BillingInv'
<1> USE BillingAssumption
<1>1. /\ state[s] = "none" /\ state' = [state EXCEPT ![s] = "open"]
      /\ customer'[s] \in Subs /\ customer'[s] # None
      /\ \A t \in Subs \ {s} : /\ state'[t] = state[t]
                               /\ customer'[t] = customer[t]
      /\ state'[s] = "open"
      /\ UNCHANGED <<ending, log, overlap, answered, row, applied, late,
                     written>>
  BY DEF BillingInv, BillingTypeOK, OpenCheckout, Row
<1>2. BillingTypeOK'
  BY <1>1 DEF BillingInv, BillingTypeOK, OpenCheckout, Row
<1>3. CheckoutsOpened'
  BY <1>1 DEF BillingInv, CheckoutsOpened
<1>4. \A n \in DOMAIN log : log[n] \in Event /\ log[n].sub \in Subs \ {s}
  BY <1>1, LogProperties DEF BillingInv, EventsTold
<1>5. EventsTold'
  BY <1>1, <1>4 DEF BillingInv, EventsTold
<1>6. NewestTold'
  BY <1>1, <1>4 DEF BillingInv, NewestTold
<1>7. OneRuns'
  <2>1. Running' = Running
    BY <1>1 DEF Running, SubscriptionStatuses, ActiveStatuses
  <2> QED
    BY <1>1, <2>1 DEF BillingInv, OneRuns
<1>8. RowTold' /\ InTurn'
  BY <1>1 DEF BillingInv, RowTold, InTurn
<1> QED
  BY <1>2, <1>3, <1>5, <1>6, <1>7, <1>8 DEF BillingInv

(* A subscription that is paid for is the newest of the log, and a         *)
(* checkout that comes second has the event before it that created it.     *)
LEMMA CompleteCheckoutStep ==
  ASSUME BillingInv, NEW s \in Subs, NEW status \in ActiveStatuses,
         CompleteCheckout(s, status)
  PROVE  BillingInv'
<1> DEFINE created  == EventOf("created", s, status, FALSE)
           checkout == EventOf("checkout", s, status, FALSE)
           Either   == \/ SendsBoth(created, checkout)
                       \/ SendsBoth(checkout, created)
<1>0. /\ BillingTypeOK /\ CheckoutsOpened /\ EventsTold /\ NewestTold
      /\ OneRuns /\ RowTold /\ InTurn
  BY DEF BillingInv
<1>1. /\ state[s] = "open" /\ ending[s] = FALSE /\ customer[s] # None
      /\ state' = [state EXCEPT ![s] = status]
      /\ overlap' = (overlap \/ Running # {})
      /\ UNCHANGED <<customer, ending, answered, row, applied, late, written>>
      /\ Either
  BY <1>0 DEF CheckoutsOpened, CompleteCheckout, SendsBoth
<1>2. /\ state'[s] = status /\ \A t \in Subs \ {s} : state'[t] = state[t]
      /\ status \in SubscriptionStatuses \ {"canceled", "none", "open"}
  BY <1>0, <1>1 DEF BillingTypeOK, SubscriptionStatuses, ActiveStatuses
<1>3. /\ created \in Event /\ checkout \in Event
      /\ created.type = "created" /\ checkout.type = "checkout"
      /\ \A e \in {created, checkout} :
            /\ e.sub = s /\ e.customer = customer[s]
            /\ e.status = status /\ e.ending = FALSE
  <2>1. /\ BillingTypeOK /\ customer[s] # None
        /\ status \in SubscriptionStatuses /\ FALSE \in BOOLEAN
    BY <1>0, <1>1, <1>2
  <2>2. /\ created \in Event /\ created.type = "created" /\ created.sub = s
        /\ created.customer = customer[s]
        /\ created.status = status /\ created.ending = FALSE
    BY <2>1 DEF EventOf, Event, BillingTypeOK
  <2>3. /\ checkout \in Event /\ checkout.type = "checkout" /\ checkout.sub = s
        /\ checkout.customer = customer[s]
        /\ checkout.status = status /\ checkout.ending = FALSE
    BY <2>1 DEF EventOf, Event, BillingTypeOK
  <2> HIDE DEF created, checkout
  <2> QED
    BY <2>2, <2>3
<1> HIDE DEF created, checkout
<1>4. /\ log' \in Seq(Event) /\ log' # <<>>
      /\ Len(log) \in Nat /\ Len(log') = Len(log) + 2
      /\ DOMAIN log = 1..Len(log) /\ DOMAIN log' = 1..Len(log) + 2
      /\ \A n \in DOMAIN log : log'[n] = log[n]
      /\ {log'[Len(log) + 1], log'[Len(log) + 2]} = {created, checkout}
      /\ log'[Len(log) + 2] = checkout => log'[Len(log) + 1] = created
  BY <1>0, <1>1, <1>3, SendBothProperties
<1>5. \A n \in DOMAIN log' : n \in DOMAIN log \/ log'[n] \in {created, checkout}
  BY <1>4
<1>6. BillingTypeOK'
  BY <1>0, <1>1, <1>2, <1>4 DEF BillingTypeOK
<1>7. CheckoutsOpened'
  BY <1>0, <1>1, <1>2 DEF CheckoutsOpened
<1>8. EventsTold'
  <2>1. ASSUME NEW n \in DOMAIN log
        PROVE  /\ log'[n].customer = customer'[log'[n].sub]
               /\ state'[log'[n].sub] \notin {"none", "open"}
               /\ log'[n].type = "deleted" => log'[n].status = "canceled"
               /\ log'[n].type = "checkout" => log'[n].status \in ActiveStatuses
    <3>1. log'[n] = log[n] /\ log[n] \in Event
      BY <1>0, <1>4, LogProperties
    <3>2. log[n].sub \in Subs \ {s}
      BY <1>0, <1>1, LogProperties DEF EventsTold
    <3> QED
      BY <1>0, <1>1, <1>2, <3>1, <3>2 DEF EventsTold
  <2>2. ASSUME NEW n \in DOMAIN log', log'[n] \in {created, checkout}
        PROVE  /\ log'[n].customer = customer'[log'[n].sub]
               /\ state'[log'[n].sub] \notin {"none", "open"}
               /\ log'[n].type # "deleted"
               /\ log'[n].type = "checkout" => log'[n].status \in ActiveStatuses
    BY <1>1, <1>2, <1>3, <2>2
  <2> QED
    BY <1>5, <2>1, <2>2 DEF EventsTold
<1>9. NewestTold'
  <2>1. ASSUME NEW n \in DOMAIN log', n = Len(log')
        PROVE  /\ log'[n] \in {created, checkout}
               /\ log'[n].type = "checkout" =>
                    n - 1 \in DOMAIN log' /\ log'[n - 1] = created
    <3>1. n = Len(log) + 2 /\ n - 1 = Len(log) + 1 /\ n - 1 \in DOMAIN log'
      BY <1>4, <2>1
    <3>2. log'[n] = checkout => log'[n - 1] = created
      BY <1>4, <3>1
    <3>3. log'[n] \in {created, checkout}
      BY <1>4, <3>1
    <3> QED
      BY <1>3, <3>1, <3>2, <3>3
  <2> QED
    BY <1>1, <1>2, <1>3, <2>1 DEF NewestTold
<1>10. OneRuns'
  <2>1. log'[Len(log')].sub = s
    BY <1>3, <1>4
  <2>2. ~overlap' => Running = {}
    BY <1>1
  <2>3. Running' \subseteq Running \cup {s}
    BY <1>2 DEF Running
  <2> QED
    BY <1>4, <2>1, <2>2, <2>3 DEF OneRuns
<1>11. RowTold'
  BY <1>0, <1>1, <1>4 DEF RowTold, BillingTypeOK
<1>12. InTurn'
  <2>1. \A n \in DOMAIN log' : n = Len(log') => n - 1 \notin answered'
    BY <1>0, <1>1, <1>4 DEF BillingTypeOK
  <2> QED
    BY <1>0, <1>1, <2>1 DEF InTurn
<1> QED
  BY <1>6, <1>7, <1>8, <1>9, <1>10, <1>11, <1>12 DEF BillingInv

(* A running subscription that changes or ends is the only one that runs,  *)
(* and becomes the one of the newest event.                                *)
LEMMA RunningStep ==
  ASSUME BillingInv, NEW s \in Running,
         NEW type \in {"updated", "deleted"},
         NEW status \in SubscriptionStatuses, NEW end \in BOOLEAN,
         type = "deleted" => status = "canceled",
         state' = [state EXCEPT ![s] = status],
         ending' = [ending EXCEPT ![s] = end],
         Sends(EventOf(type, s, status, end)),
         UNCHANGED <<customer, overlap, answered, row, applied, late, written>>
  PROVE  BillingInv'
<1> DEFINE e == EventOf(type, s, status, end)
<1>0. /\ BillingTypeOK /\ CheckoutsOpened /\ EventsTold /\ NewestTold
      /\ OneRuns /\ RowTold /\ InTurn
  BY DEF BillingInv
<1>1. /\ s \in Subs /\ customer[s] # None
      /\ state[s] \notin {"none", "open", "canceled"}
  BY <1>0 DEF Running, CheckoutsOpened, SubscriptionStatuses, ActiveStatuses
<1>2. /\ state'[s] = status /\ \A t \in Subs \ {s} : state'[t] = state[t]
      /\ ending'[s] = end /\ \A t \in Subs \ {s} : ending'[t] = ending[t]
      /\ status \notin {"none", "open"}
  BY <1>0, <1>1 DEF BillingTypeOK, SubscriptionStatuses, ActiveStatuses
<1>3. /\ e \in Event /\ e.type = type /\ e.sub = s /\ e.customer = customer[s]
      /\ e.status = status /\ e.ending = end
  BY <1>0, <1>1, EventOfType
<1>e. Sends(e)
  OBVIOUS
<1> HIDE DEF e
<1>4. /\ log' \in Seq(Event) /\ log' # <<>>
      /\ Len(log) \in Nat /\ Len(log') = Len(log) + 1
      /\ DOMAIN log = 1..Len(log) /\ DOMAIN log' = 1..Len(log) + 1
      /\ \A n \in DOMAIN log : log'[n] = log[n]
      /\ log'[Len(log) + 1] = e
  BY <1>0, <1>3, <1>e, SendProperties
<1>5. \A n \in DOMAIN log' : n \in DOMAIN log \/ log'[n] = e
  BY <1>4
<1>6. BillingTypeOK'
  BY <1>0, <1>1, <1>4 DEF BillingTypeOK
<1>7. CheckoutsOpened'
  BY <1>0, <1>1, <1>2 DEF CheckoutsOpened
<1>8. EventsTold'
  <2>1. ASSUME NEW n \in DOMAIN log
        PROVE  /\ log'[n].customer = customer'[log'[n].sub]
               /\ state'[log'[n].sub] \notin {"none", "open"}
               /\ log'[n].type = "deleted" => log'[n].status = "canceled"
               /\ log'[n].type = "checkout" => log'[n].status \in ActiveStatuses
    <3>1. log'[n] = log[n] /\ log[n] \in Event /\ log[n].sub \in Subs
      BY <1>0, <1>4, LogProperties
    <3> QED
      BY <1>0, <1>2, <3>1 DEF EventsTold
  <2>2. ASSUME NEW n \in DOMAIN log', log'[n] = e
        PROVE  /\ log'[n].customer = customer'[log'[n].sub]
               /\ state'[log'[n].sub] \notin {"none", "open"}
               /\ log'[n].type = "deleted" => log'[n].status = "canceled"
               /\ log'[n].type # "checkout"
    BY <1>2, <1>3, <2>2
  <2> QED
    BY <1>5, <2>1, <2>2 DEF EventsTold
<1>9. NewestTold'
  BY <1>2, <1>3, <1>4 DEF NewestTold
<1>10. OneRuns'
  <2>1. log'[Len(log')].sub = s
    BY <1>3, <1>4
  <2>2. ~overlap => \A t \in Running : t = s
    BY <1>0 DEF OneRuns
  <2>3. Running' \subseteq Running
    BY <1>1, <1>2 DEF Running
  <2> QED
    BY <1>4, <2>1, <2>2, <2>3 DEF OneRuns
<1>11. RowTold'
  BY <1>0, <1>4 DEF RowTold, BillingTypeOK
<1>12. InTurn'
  BY <1>0, <1>3, <1>4 DEF InTurn
<1> QED
  BY <1>6, <1>7, <1>8, <1>9, <1>10, <1>11, <1>12 DEF BillingInv

LEMMA ChangeStep ==
  ASSUME BillingInv, NEW s \in Subs, NEW status \in SubscriptionStatuses,
         NEW end \in BOOLEAN, Change(s, status, end)
  PROVE  BillingInv'
<1>1. s \in Running
  BY DEF Change
<1> QED
  BY <1>1, RunningStep DEF Change, Sends

LEMMA DeleteStep ==
  ASSUME BillingInv, NEW s \in Subs, Delete(s)
  PROVE  BillingInv'
<1>1. /\ s \in Running /\ ending[s] \in BOOLEAN
      /\ "canceled" \in SubscriptionStatuses
      /\ ending' = [ending EXCEPT ![s] = ending[s]]
  BY DEF Delete, BillingInv, BillingTypeOK, SubscriptionStatuses
<1> QED
  BY <1>1, RunningStep DEF Delete, Sends

(* The webhook applies an event that was not answered.  If it is not late, *)
(* and the event before a checkout that ends the log was answered, then it *)
(* is that checkout.                                                       *)
LEMMA WebhookStep ==
  ASSUME BillingInv, NEW n \in 1..MaxEvents, Webhook(n)
  PROVE  BillingInv'
<1>0. /\ BillingTypeOK /\ CheckoutsOpened /\ EventsTold /\ NewestTold
      /\ OneRuns /\ RowTold /\ InTurn
  BY DEF BillingInv
<1>1. /\ n \in DOMAIN log /\ n \notin answered
      /\ row' = UpdateFrom(log[n])
      /\ answered' \subseteq answered \cup {n} /\ applied' = n
      /\ late' = (late \/ n < applied)
      /\ written' = IF log[n].type = "checkout" THEN written \ {"subscription"}
                                                ELSE {}
      /\ UNCHANGED <<state, customer, ending, log, overlap>>
  BY DEF Webhook, stripe
<1>2. log \in Seq(Event) /\ Len(log) \in Nat /\ DOMAIN log = 1..Len(log)
  BY <1>0, LogProperties
<1>3. log[n] \in Event
  BY <1>0, <1>1, LogProperties
<1>4. row' \in Row
  BY <1>0, <1>1, <1>3
     DEF UpdateFrom, Row, Event, BillingTypeOK, SubscriptionStatuses,
         ActiveStatuses
<1>5. BillingTypeOK'
  BY <1>0, <1>1, <1>4 DEF BillingTypeOK
<1>6. CheckoutsOpened' /\ EventsTold' /\ NewestTold' /\ OneRuns'
  BY <1>0, <1>1
     DEF CheckoutsOpened, EventsTold, NewestTold, OneRuns, Running
<1>7. RowTold'
  BY <1>1 DEF RowTold, UpdateFrom
<1>8. InTurn'
  <2>0. applied \in Nat /\ n \in Nat
    BY <1>0, <1>1, <1>2 DEF BillingTypeOK
  <2> SUFFICES ASSUME ~late, applied <= n
               PROVE  /\ \A m \in answered' : m <= n
                      /\ \A m \in DOMAIN log :
                           /\ m = Len(log) /\ log[m].type = "checkout"
                           /\ m - 1 \in answered' /\ "ending" \notin written'
                           => row'.ending = FALSE
    <3>1. ~late' => ~late /\ ~(n < applied)
      BY <1>1, Zenon
    <3>2. ~(n < applied) => applied <= n
      BY <2>0
    <3> QED
      BY <1>1, <3>1, <3>2 DEF InTurn
  <2>1. \A m \in answered : m <= applied
    BY <1>0 DEF InTurn
  <2>2. applied \in Nat /\ answered \subseteq Nat
    BY <1>0, <1>2 DEF BillingTypeOK
  <2>3. \A m \in answered' : m <= n
    BY <1>1, <1>2, <2>1, <2>2
  <2>4. ASSUME NEW m \in DOMAIN log, m = Len(log), log[m].type = "checkout",
               m - 1 \in answered', "ending" \notin written'
        PROVE  row'.ending = FALSE
    <3>1. CASE m - 1 \in answered
      <4>0. m \in Nat /\ n <= m
        BY <1>1, <1>2, <2>4
      <4>1. m - 1 <= applied /\ n # m - 1
        BY <1>1, <2>1, <3>1
      <4>2. n = m
        BY <2>0, <4>0, <4>1
      <4> QED
        BY <1>0, <1>1, <2>4, <3>1, <4>2 DEF InTurn, UpdateFrom
    <3>2. CASE m - 1 = n
      BY <1>0, <1>1, <2>4, <3>2 DEF NewestTold, UpdateFrom
    <3> QED
      BY <1>1, <2>4, <3>1, <3>2
  <2> QED
    BY <2>3, <2>4
<1> QED
  BY <1>5, <1>6, <1>7, <1>8 DEF BillingInv

(* What the user writes is not claimed to be what Stripe holds.            *)
LEMMA EditSettingsStep ==
  ASSUME BillingInv, NEW r \in Claims \cup {NoRow}, EditSettings(r)
  PROVE  BillingInv'
<1>1. /\ row' = r /\ written' = {"subscription", "ending"}
      /\ UNCHANGED <<state, customer, ending, log, overlap, answered, applied,
                     late>>
  BY DEF EditSettings, stripe
<1>2. r \in Row
  <2>1. NoRow \in Row
    BY DEF NoRow, Row
  <2> QED
    BY <2>1, BillingAssumption
<1>3. BillingTypeOK'
  BY <1>1, <1>2 DEF BillingInv, BillingTypeOK
<1>4. CheckoutsOpened' /\ EventsTold' /\ NewestTold' /\ OneRuns'
  BY <1>1
     DEF BillingInv, CheckoutsOpened, EventsTold, NewestTold, OneRuns, Running
<1>5. RowTold' /\ InTurn'
  BY <1>1 DEF BillingInv, RowTold, InTurn
<1> QED
  BY <1>3, <1>4, <1>5 DEF BillingInv

-----------------------------------------------------------------------------
(* The theorems.                                                           *)

LEMMA BillingInitInvariant == BillingInit => BillingInv
<1> SUFFICES ASSUME BillingInit PROVE BillingInv
  OBVIOUS
<1> USE DEF BillingInit, NoRow
<1>1. log \in Seq(Event) /\ DOMAIN log = {}
  OBVIOUS
<1>2. BillingTypeOK
  BY <1>1 DEF BillingTypeOK, Row
<1>3. Running = {}
  BY DEF Running, SubscriptionStatuses, ActiveStatuses
<1> QED
  BY <1>1, <1>2, <1>3 DEF BillingInv, CheckoutsOpened, EventsTold, NewestTold,
       OneRuns, RowTold, InTurn

LEMMA BillingStepInvariant == BillingInv /\ [BillingNext]_billingVars => BillingInv'
<1>1. ASSUME BillingInv, BillingNext PROVE BillingInv'
  BY <1>1, OpenCheckoutStep, CompleteCheckoutStep, ChangeStep, DeleteStep,
     WebhookStep, EditSettingsStep DEF BillingNext
<1>2. ASSUME BillingInv, UNCHANGED billingVars PROVE BillingInv'
  BY <1>2 DEF billingVars, BillingInv, BillingTypeOK, CheckoutsOpened, EventsTold,
       NewestTold, OneRuns, RowTold, InTurn, Running
<1> QED
  BY <1>1, <1>2

LEMMA BillingInvariant == BillingSpec => []BillingInv
BY BillingInitInvariant, BillingStepInvariant, PTL DEF BillingSpec

(* Subscriptions, events and the row keep their types in every behaviour.  *)
THEOREM BillingTypeCorrect == BillingSpec => []BillingTypeOK
<1>1. BillingInv => BillingTypeOK
  BY DEF BillingInv
<1> QED
  BY <1>1, BillingInvariant, PTL

(* However many subscriptions follow one another, however many events are  *)
(* lost, repeated or late and whatever the user wrote into his row before, *)
(* the newest event, once it is applied last, makes the row show what      *)
(* Stripe holds, until the user writes again.                              *)
THEOREM ShowsNewestCorrect == BillingSpec => []ShowsNewest
<1>1. BillingInv => ShowsNewest
  <2> SUFFICES ASSUME BillingInv, applied = Len(log), log # <<>>, ~overlap,
                      "subscription" \notin written
               PROVE  LET newest == log[applied] IN
                        /\ Shows(newest.sub)
                        /\ /\ newest.type # "checkout"
                                \/ (answered = DOMAIN log /\ ~late)
                           /\ "ending" \notin written
                           => row.ending = ending[newest.sub]
    BY DEF ShowsNewest
  <2> DEFINE e == log[applied]
  <2>0. /\ BillingTypeOK /\ EventsTold /\ NewestTold
        /\ OneRuns /\ RowTold /\ InTurn
    BY DEF BillingInv
  <2>1. /\ log \in Seq(Event) /\ Len(log) \in Nat \ {0}
        /\ applied \in DOMAIN log
    BY <2>0, LenProperties, EmptySeq DEF BillingTypeOK
  <2>2. e \in Event /\ e.sub \in Subs
    BY <2>0, <2>1, LogProperties
  <2>3. /\ e.customer = customer[e.sub]
        /\ e.type = "deleted" => e.status = "canceled"
        /\ e.type = "checkout" => e.status \in ActiveStatuses
    BY <2>0, <2>1 DEF EventsTold
  <2>4. state[e.sub] = e.status /\ ending[e.sub] = e.ending
    BY <2>0, <2>1 DEF NewestTold
  <2>5. \A t \in Running : t = e.sub
    BY <2>0 DEF OneRuns
  <2>6. /\ row.sub = e.sub /\ row.customer = e.customer
        /\ e.type = "checkout" => row.status = "active"
        /\ e.type # "checkout" => row.status = e.status
        /\ e.type # "checkout" /\ "ending" \notin written
             => row.ending = e.ending
    BY <2>0, <2>1, <2>3 DEF RowTold
  <2>7. row.status \in ActiveStatuses <=> e.status \in ActiveStatuses
    BY <2>3, <2>6 DEF ActiveStatuses
  <2>8. e.status \in ActiveStatuses
          <=> \E t \in Subs : state[t] \in ActiveStatuses
    <3>1. \A t \in Subs : state[t] \in ActiveStatuses => t = e.sub
      BY <2>5 DEF Running, SubscriptionStatuses, ActiveStatuses
    <3> QED
      BY <2>2, <2>4, <3>1
  <2>9. Shows(e.sub)
    BY <2>3, <2>6, <2>7, <2>8 DEF Shows
  <2>10. ASSUME e.type = "checkout", answered = DOMAIN log, ~late,
                "ending" \notin written
         PROVE  row.ending = ending[e.sub]
    BY <2>0, <2>1, <2>4, <2>10 DEF NewestTold, InTurn
  <2> QED
    BY <2>4, <2>6, <2>9, <2>10
<1> QED
  BY <1>1, BillingInvariant, PTL
=============================================================================
