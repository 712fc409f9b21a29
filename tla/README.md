# TLA+ verification of the Urban Farming backend

The repository is a FastAPI backend (`src/app`) over PostgreSQL
(`src/database`).  It takes a resident's garden request from submission through
a site inspection, an approval, installation, crop allocation and planting to a
live garden, and keeps beside the request an audited *operational workflow* of
stages that database triggers maintain.  Production runs `PostgresGateway`
(one transaction per gateway method); a compatibility deployment runs
`SupabaseGateway` (one HTTP call per statement, no transactions).

## 1. Inventory

| Part | State it keeps | Operations | Hard behaviour | What makes it correct |
|---|---|---|---|---|
| Garden requests (`routers/gardens.py`, `postgres_gateway.py`) | `garden_requests` | create, schedule, PATCH status, installation, allocation, planting | handlers read, decide, then write in a transaction; administrators concurrent | only pipeline edges; decisions gated at commit |
| Inspections (`routers/inspections.py`) | assignments, reports, checklist, photos | start, evidence, save, submit, preview | a save checks and writes in two statements | one open visit; a decided assessment agrees with its request |
| Operational workflow (migrations of 2026-07-12 and 2026-09-26) | `operational_workflows`, `workflow_stages` | triggers on requests, reports and stages | triggers write the rows the transaction writes | stages tell the same story as the request |
| Supabase path (`gardens.py`, `services/workflows.py`) | the same tables | the same | partial failure, lost answers, compensation | what is left of the above without transactions |
| Scoring and evidence (`services/inspection_*.py`, `submit_inspection_for_approval`) | assessment columns, checklist, photos | score, edit checklist, upload, submit | limits and rounding; tabs that edit while another submits | better sites never score less; evidence complete at commit |
| Assessment leads (`routers/communications.py`) | `assessment_leads`, accounts | update, convert | account, provisioning and conversion are separate transactions; retries | one request per lead |
| Care actions (`services/gardens.py`) | tasks, activity log | record an action | four transactions, interleaved or cut short | a garden cared for has a next task |
| Orders (`commerce.py`, `admin.py`) | orders, items | create, move status | two statements; concurrent moves | only allowed moves, each once |
| Billing (`services/billing.py`, `routers/billing.py`) | `user_settings` billing columns | checkout, webhook | repeated, late and overlapping events | the newest event is shown; the columns converge |
| Sessions (`routers/auth.py`, `auth_store.py`) | users, refresh tokens | sign up, log in, refresh, log out, change password | check, revoke and store are separate transactions | a changed password ends the old sessions; one usable token per session; nobody is signed out by his own tabs |
| Generic data and RPC routes (`routers/data.py`) | any allowed table | query, insert, upsert, update, delete | write the rows of the other parts past their handlers; only some of these writes are refused | what the handlers write stays right around them |
| Push, e-mail, storage, geocoding, help centre, community, plans, accounts, health | little or none | | best effort | not planned, see section 8 |

The parts meet in the database: the inspector's handlers write a report, whose
trigger writes workflow stages, whose own trigger writes the workflow row; the
administrator's handlers read reports and write the request, the report and the
stages.  There are no calls between the parts besides these.

The generic data route is a second writer of most tables, and it is modelled
where it meets them, as steps of the component concerned.  It refuses a status of
a request in an update and the completion of an installation, and nothing else
that the models speak of: a resident or an administrator may *upsert* a request
with any status (`data.py:208-236`; `PostgresGateway.insert` runs `INSERT ... ON
CONFLICT DO UPDATE` without row-level security), an administrator may write
visits, a user may write the billing columns of his own row, delete rows of his
account and put what he likes into a request's `details`.  No property is stated as if
these writes did not exist: each component that suffers them has a history variable
(`bypassed`, `past`, `written`, `foreign`, `shed`) that remembers what they reached, no
guard reads it, and the properties say what still holds beside them.

## 2. Modules

| Module | Kind | Contents |
|---|---|---|
| `GardenLifecycle` | abstract specification | status and workflow of a request, the pipeline's edges, and that rejecting or cancelling closes the workflow in the same step |
| `SubmissionGate` | abstract specification | what a report promises to those who decide on it: submitted only with complete evidence, not twice, decided only after that |
| `GardenRequest` | component | one request in production: scheduling, PATCH, delivery, visits, assessments, stages and triggers |
| `GardenRequestProofs` | proofs | the inductive invariant of `GardenRequest`, its safety theorems and the refinements of `GardenLifecycle` and `SubmissionGate` |
| `GardenRequestSupabase` | component | one request on the compatibility deployment: the same handlers call by call, failures, lost answers, the compensation of a failed approval |
| `InspectionScoring` | component | the score and band of a form, and what the columns keep of it |
| `InspectionEvidence` | component | checklist, photos and the submitting transaction, lock by lock: what `evidence` in `GardenRequest` stands for |
| `AssessmentLead` | component | leads, accounts and the conversion |
| `CareAction` | component | care actions and tasks of one garden and kind |
| `Orders` | component | creation and status moves of orders |
| `Sessions` | component | accounts, refresh tokens and the handlers of the native authentication, transaction by transaction |
| `Billing` | component | one user's subscriptions at Stripe, the events it sends and the row the webhook writes |
| `CommerceProofs` | proofs | `Orders` and `Billing`, whose names for `Init`, `Next` and the like therefore carry the component's name |
| `...Proofs` | proofs | one for each other component |
| `MC...` | model checking | the small instance of each component: symmetry, bounds, values |

What composes what.  Two abstract specifications are instantiated by the
components that keep them:

* `GardenLifecycle` by `GardenRequest` (status and workflow as they are) and by
  `GardenRequestSupabase` (`WorkflowToBe`: a workflow counts as closed from the
  moment the request was, as long as the handler that closed it is on its way to
  the stage that closes the workflow).
* `SubmissionGate` by `InspectionEvidence` (evidence complete when
  `inspection_evidence_gaps` finds none among the items and photos) and, once for
  each visit, by `GardenRequest` (`evidence[a]`).  The two components never share a
  state space; the gate is what one tells the other.  An action of
  `SubmissionGate` is one of `InspectionEvidence`'s when its transaction commits,
  and stutters while it takes its locks.

### How `GardenRequest` corresponds to the code

* A gateway method opens one transaction with the request row locked
  `FOR UPDATE`; it is one action.  `CompleteInstallation`,
  `CompleteAllocation`, `CompletePlanting` and `SubmitForApproval` are single
  actions although their handlers read first, because the transaction repeats
  every check (the crops a handler matched against the approved report are
  compared again by the transaction).
* The PATCH handler (`update_garden_request_status`) is two actions: `Begin...`
  reads the request and what the decision rests on and remembers it in `op`,
  `Commit...` is `update_garden_request_workflow`, which aborts unless the
  status is still the one read, the assignment still open, the report still
  waiting, and the activation requirements met again.  `Abandon` is an error
  answer with the transaction rolled back.  The reads of one handler are merged
  into one step; no endpoint returns a status to an earlier value, so a write that
  still finds the status it read would have found it at each of the reads.
* `save_assessment` is `BeginSave` (check) and `CommitSave` (an update by report
  id alone).  The administrator's preview submission is `PreviewSubmit` and
  `PreviewClose`, two separate updates.
* Any number of administrators (`Admins`) have a PATCH in flight, any number of
  saves (`saves`) and previews (`closing`) are in flight, and none need ever
  finish: that is also how a crash of the server between a read and its write
  appears.
* The triggers are part of the action whose statement fires them.  `Synced` and
  `SyncedCurrent` are the trigger on reports, `Show` and the closing of the
  workflow are the trigger on stages.
* `EditInstallation` is what the generic data route lets a resident do to the
  installation: add one, set it back to planned, or delete it with its batches.
  `UpsertRequest` is its write of a status past the workflow, which fires no
  trigger and leaves the stages, the workflow and the reports as they are;
  `EditVisit` is an administrator's insert or edit of a visit.  `bypassed` tells
  which of the two ever happened.  A request may be created with a property of its
  owner's; the second alternative of `Init` is one whose first visit was entered
  through the route before anybody scheduled it.  A request that is inserted with
  a status is the initial state followed by `UpsertRequest`.

Data abstracted: e-mails, notes, addresses, timestamps other than the order of
`submitted_at` (`older`), stage evidence, `conditional` (treated as `suitable`,
neither needs a reason), which checklist items and photos complete the evidence
(one Boolean, which `InspectionEvidence` opens and `SubmissionGate` connects),
crops that the approved report does not recommend (refused), and inspectors who
are not active (refused).  Left out of the data route: giving a request another
property, by its owner or an administrator; deleting a request, a visit or a
property, which takes the rows below it away (the route keeps a property with
visits or reports only if the deletion names its `id`, `data.py:157`; one that names
other columns is carried out and cascades); and a status written away and back
between two reads of one handler, which could change only the waiting report it
goes on to name.  Left out besides: stages after `maintenance_tasks`, which no
code writes.  Requests are independent: each schedule creates a property of its own
and `property_id` is unique.

### How `GardenRequestSupabase` corresponds to the code

Every HTTP call that writes is an action; a handler between two of its calls is
a record in `op` whose `phase` names the next one.  `Begin...` are the reads at
a handler's start, `Write...` its writes, in the order of the code: rows of the
garden, the request, the report, the first and the second workflow stage.  What
the reads found is not compared again, except where the update names the status
(`Matches`), which an allocation's does not (`services/gardens.py:335`).  A call
ends in one of three ways: it is answered (`Proceed`), it fails and changes
nothing, or it is carried out and its answer is lost (the error path `OnError`;
`supabase_gateway.py` turns a time-out into an error).  Only the approval's
update of the report has an error path that writes: `WriteRestore`
(`gardens.py:514-531`).  A server that stops leaves a handler where it is.

The inspector's save and submission are a check and a write by report id.  The
procedures `apply_inspection_request_decision` and those of the inspector's
dashboard are single actions, since PostgreSQL runs them in a transaction.  (In
production the same procedures called through `rpc` change nothing:
`PostgresGateway.rpc` opens a connection and never commits.)

Row-level security is in force here: a resident's upsert of a request that exists
is refused, but the policy for inserts lets him create one with any status, and an
administrator's upsert that names himself as the owner passes.  So `Init` has every
status (with `past = "decided"` unless it is `submitted`) and `UpsertRequest` is a
step.  `EnterVisit` and `EditInstallation` are the route's other writes.

`past` is a history variable: the worst that has happened so far, from
`alone` (one administrator's handler at a time) over `together`, `disturbed`
(a call failed, a handler stopped, the installation was edited) and `lost` (an
answer was lost) to `decided` (the status was written past the handlers, by the
procedure or by the data route).  Each property says how
far it reaches, so that one model answers which guarantee needs what.

### How `Sessions` and `Billing` correspond to the code

* `Sessions`.  Every method of `NativeAuthStore` is a transaction and an action;
  `calls` holds what each request does next.  `SignUp`, `LogIn`, `Google` and
  `BeginRefresh` are the reads (or, for `SignUp`, the insert) a handler starts
  with, `Provision`, `CreateGoogle`, `Rotate`, `Store` and `RevokeOld` the
  transactions after them, `Abandon` a failure or a crash in between.  `LogOut`
  is one transaction.  `root`, `basis`, `late`, `cut` and `disturbed` are history
  variables: the session a token belongs to, the password it was opened with,
  whether the call that stored it was overtaken (the account's tokens, or the
  token it refreshed, were revoked while it was in hand), accounts whose change of
  password stopped before it revoked, and whether anything stopped, was revoked or
  expired.  Access and recovery tokens carry no state and are available to
  whoever has an account or a session.  Databases without the trigger
  `handle_new_user` are modelled.
* `Billing`.  `Webhook` is `post_webhook` with `billing_update_from_event` and
  its upsert, one statement; it applies the events one user's subscriptions
  cause.  Stripe is external and modelled from the fields the code reads: a paid
  checkout sends two events in either order, changes and the end send one, each is
  sent until it is answered with success and in any order.  `ending` stands for the
  two columns that a checkout event leaves alone.  Signatures, plans, the portal
  session and events of other types write nothing.  `EditSettings` is the user's
  own write or deletion of the row through the data route (`data.py:59`); `written`
  has the columns that hold what he wrote until an event overwrites them.  The rows
  he may write are the constant `Claims`, any set of rows; a checkout for a customer
  that Stripe does not know is refused by Stripe.

### The other components

* `InspectionScoring`.  `Score` adds the terms of `score_assessment` in the
  code's order; `Columns` is what `NUMERIC(4,1)` and `NUMERIC(10,2)` keep of the
  two measurements.  The variable keeps the form that was sent beside the
  columns, which the table does not, so that properties can speak of it.
  Categories and notes of risks, measurements and recommendations are left out:
  the score does not use them.
* `InspectionEvidence`.  The transaction is four steps (`LockReport`,
  `LockItems`, `Submit`, or `Abandon`), because what makes it right is which
  rows it has locked when.  A statement that inserts an item or a photo waits
  for the report's lock: its foreign key takes a share of it.  The handler's
  own earlier look at the evidence is left out; it only refuses sooner what the
  transaction would refuse.  `UpsertItem` replaces the whole row, its
  `requires_photo` and category included, as the route does.
* `AssessmentLead`.  Each transaction of `convert_assessment_lead` is an action;
  the converting one is `LockLead`, `SearchRequest`, `CommitConversion`.
  `job` is a conversion in flight, `Abandon` an error or a crash.  Databases
  without the trigger `handle_new_user` are modelled, for which
  `ensure_provisioned` exists; with the trigger an account is complete at once.
  A request names its lead in `details`, which whoever creates or edits a request
  may write: `WriteRequest` names the lead in another request or changes the owner
  of one (`foreign` remembers the lead), `DeleteRequest` takes a naming away, and the
  conversion goes on with whatever it then finds.  `DeleteAccountRows` is an owner
  who deletes his profile or settings (`shed`); a later conversion completes
  them again.
  The branch for other gateways cannot run, since the account store exists only
  beside `PostgresGateway` (`main.py`).
* `CareAction`.  One garden and one kind of task.  Which open task is due first
  is left open, because residents choose `occurred_at`.  `pending`,
  `in_progress` and `blocked` are one status, since every statement treats them
  alike.  `EditTask` is the generic data route.
* `Orders`.  `ReadOrder` and `WriteStatus` are the select and the guarded update
  of `update_order_status`; the data route cannot write orders.  Amounts, dates
  and notes are left out.

## 3. Properties

| Property | Says |
|---|---|
| `StagesAgree` | approval, installation, crop allocation and maintenance stages agree with the status of the request, until the data route writes it |
| `DecisionsAgree` | an assessment is approved only on an accepted (or later cancelled) request and rejected only on a rejected one, until the data route writes the status |
| `OneOpenVisit` | at most one visit is open, and never one whose assessment was submitted, whatever the data route made of the status and until it writes visits |
| `AcceptGate` | every step that accepts, but the data route's write itself, approves exactly one waiting assessment, also after such a write |
| `ActivationGate` | every step to live, but the data route's write itself, finds the assessment approved, the installation active and all crops growing |
| `FollowsLifecycle` | every step of the request is one of `GardenLifecycle` or the data route's write of the status; on the compatibility deployment while handlers only overlap, with `WorkflowToBe` for the workflow and but for late allocations |
| `FollowsGate` | a report comes before an administrator, and to its decision, only as `SubmissionGate` allows; of `InspectionEvidence` and of every visit of `GardenRequest` |
| `BetterSiteNeverWorse` | correcting an assessment for the better, in any respects at once, costs neither points nor band |
| `ColumnsNeverScoreLess` | the rounded columns never score less than the score stored beside them |
| `EvidenceGate` | at the step that submits, the evidence has no gap, whatever other tabs did since it was read |
| `SubmittedOnce` | a report waiting for a decision is not submitted again |
| `OneRequestPerLead` | converting at once or again never gives a lead a second request; only somebody's own writing of its name does |
| `OwnerProvisioned` | the owner of a lead's request is a complete account, also after a sign-up that stopped halfway; only its owner takes rows away again |
| `OneSetupMail` | an address gets at most one set-up mail from its leads' conversions |
| `OnlyTableMoves` | every change of an order's status is a move of `ORDER_TRANSITIONS` |
| `OneMailPerStatus` | a buyer is told of a status at most once |
| `NextTaskExists` | when no call is running or failed and nobody edited tasks, a garden that was cared for has a next task |
| `StaysCaredFor` | in the same circumstances it comes to have one and keeps it |
| `OneApproval` | (compatibility) until the status is written past the handlers, at most one of them is between accepting a request and approving its report, so that the compensation undoes only its own handler's write |
| `DecisionsAgree`, `StagesAgree` of `GardenRequestSupabase` | the properties of the same names as far as they survive: the first unless an answer was lost or the status was written past the handlers, the second between the handlers of one undisturbed administrator |
| `PipelineMoves` | (compatibility) the handlers move the request along `GardenLifecycle` but for approvals taken back and late allocations |
| `ClosesWorkflow` | (compatibility) however administrators overlap, when their handlers are over a rejected or cancelled request has a closed workflow |
| `PresentPassword` | once a change of password has revoked, every session that was not overtaken was opened with the present password |
| `OneTokenPerSession` | but for overtaken refreshes, a session has at most one token that can be refreshed (it does not speak of two refreshes that both look before either revokes, see section 5) |
| `StaysSignedIn` | as long as nothing stops, is revoked or expires, a session can be refreshed again in the end, however its tabs overlap |
| `ShowsNewest` | of subscriptions that did not overlap: once the newest event is applied last, the overview shows the subscription, its status and its customer as Stripe holds them, whatever was lost, repeated, late or written by the user before, until he writes again; its ending too, unless the newest event is a checkout and another is outstanding or came late |
| `Converges` | if no event comes late and events have replaced what the user wrote, the overview comes to show what Stripe holds and goes on showing it |
| `TypeOK` | columns hold values their checks allow |

## 4. Runs

| Run | Instance | Shows |
|---|---|---|
| `pipeline` | 2 administrators, 1 inspector, 2 visits, 1 crop; constraints `Bounds`, `OneBypass` | 281 052 states |
| `supabase` | 2 administrators, 1 crop; constraint `Bounds` | 619 017 states |
| `scoring` | 1 008 forms: both sides of every limit, and just below enough to be rounded to it | every form replaced by every other, 1 009 states |
| `evidence` | a seeded and an added item, one category, 2 tabs, 2 submissions | 79 200 states |
| `leads` | 2 leads with one address, 3 administrators; constraint `TwoRequests` | 406 820 states |
| `orders` | 1 order, 3 administrators | 8 668 states |
| `care` | 3 calls, 1 other task | 45 702 states, with liveness |
| `sessions` | 1 account, 2 passwords, 3 tokens, 2 calls; constraint `Bounded` | 438 761 states, with liveness |
| `billing` | 2 subscriptions, 6 events, one of them an update, one write of the user's; constraints `OneUpdate`, `FewSteps` | 800 267 states, with liveness |
| `pending_edit` | 1 of each | **violated**: a late save reopens a pending assessment |
| `unsuitable_rationale` | 1 of each | **violated**: an unsuitable site is approved without a reason |
| `status_guarded` | 1 of each | **violated**: an upsert changes the status along no edge |

Bounds.  Two administrators give every race of one PATCH against another; the
properties mention at most two PATCHes.  No property of the pipeline says who
inspects, so one inspector stands for all; what several inspectors write is
ordered by the row locks, and the theorems have any number of them.  In the
`pipeline` run two handlers (PATCHes, saves, previews) are in flight at a time
while there is one visit; once the second exists, which matters only for
scheduling and for choosing the newest assessment, one is, and the instance stops at
acceptance (`Handlers`).  The data route writes past the workflow once in a
behaviour.  TLC evaluates every such write where at most a PATCH is in flight and
goes on from it with one visit whose assessment, once it has a score, is suitable
and complete (`PastWorkflow`, `OneBypass`): that is enough for an endpoint to act on a
status that was written under it.  The two runs of the older findings have the endpoints
alone (`Guarded`).
In the `supabase` run two handlers are in flight in all, one of them an inspector's at
most, and he writes a report, not a visit, once something was disturbed.  A visit
is entered as pending and ends as completed.  Nothing is explored beyond a
status written past the handlers, where only `TypeOK` speaks, nor beyond a lost
answer, of which `OneApproval` and `PipelineMoves` still speak: TLC checks the step
into such a state, the theorems the rest.
In the `sessions` run interchangeable
ids are drawn in their order, and one token expires or one change of password
stops halfway; three tokens are two sessions or one refreshed twice, two calls
two tabs, a tab and a change, or two changes (`Bounded`).  In the `billing` run
six events are a subscription that begins, changes, ends and is followed by
another (five would not be enough for the late checkout of section 5); the user writes once,
after an event was applied and before one was late or subscriptions overlapped
(`OneEdit`); overlapping
subscriptions, of which nothing is claimed, stop at four (`OneUpdate`), and
subscriptions are opened in their order (`InOrder`).  In the `evidence` run the added
item is the one a submitter has not counted on; a third submission repeats the
second.  In `leads` a third administrator can come between two conversions of
one lead, and two leads share the address because what they contend for besides
their rows is the account; somebody's own request may name a lead beside the
conversion's (`TwoRequests`).  One order suffices, since no statement names two.
The theorems of section 6 hold without any of these bounds.  Deadlock is not
checked for `GardenRequest` (a rejected or cancelled request without a report
has nothing left to do; the same on the compatibility deployment), `Orders`
(delivered or cancelled orders), `CareAction` (a bounded number of calls),
`Sessions` (every token drawn) and `Billing` (a bounded number of events).

Each faulty variant (`Faulty...`) is the mistake one of the properties guards
against: the check a transaction would forget, the condition a trigger would
drop.  None of them is used by a specification.

## 5. What disagrees with the sources

* `inspections.py:520-540`.  The check "This assessment is awaiting approval"
  and the update that follows are two statements, and the update names only the
  report.  A save delayed past a submission puts the pending assessment back
  into a draft, and past an approval the approved one; an accepted request is
  then without an approved assessment, cannot be installed, and cannot be
  accepted again.
* `gardens.py:271-279`.  The band is compared before the transaction only, so
  the same delay lets a not-suitable assessment be approved without the reason
  the handler demands.
* `data.py:189-236`.  "Request status changes must use the guarded workflow
  endpoint" is asked of updates only.  An upsert writes any status: a request becomes
  accepted without an assessment, live with nothing planted, or submitted again
  with a decided report, and its stages and workflow stay where they were.
  `StatusGuarded` is violated in two states; `AcceptGate`, `ActivationGate` and
  `FollowsLifecycle` say that the endpoints keep their gates whatever it wrote.

Behaviours worth knowing that contradict no statement of the repository: an
order can remain without items (`FailItems`); a care action that fails between
completing a task and creating the next leaves none; two simultaneous care
actions leave two open tasks; a conversion that fails after creating the account
never sends the set-up mail, because its retry finds the account; 5.96 hours of
sunlight are stored as 6.0 with the points of less than 6; a checklist can be
edited after its report was submitted; a request whose approved assessment was
reopened can only be cancelled; the billing columns that
`services/billing.py` writes are in no migration; the report trigger knows two
cases, `submitted_for_approval` and everything else, so that approving or
rejecting an assessment puts the stages `inspector_visit` and `site_score`, which its
submission completed, back in progress (`20260712143000_...sql:181`; their criterion,
line 94, is "Inspector completes the on-site assessment").

By the generic data route: an administrator can open a second visit, or reopen a
finished one, without the look-up of the schedule endpoint; a property is deleted
with its visits and reports if the deletion does not name its `id` (`data.py:157`).
A user who writes the billing columns of his row, which `accounts.py:70-86`
keeps out of its own payload, is shown what he wrote until the next event; one who
deletes his profile or his settings has an incomplete account until something
provisions it again; a request of somebody else's that names a lead in its
`details` is what a later conversion of the lead finds and keeps.

On the compatibility deployment: if the update that approves the report is
carried out and its answer is lost, the compensation puts the request back and
leaves the report approved (`gardens.py:514`); an allocation that was begun before
the request was cancelled or planted writes `seeds` over it
(`services/gardens.py:335`); two merges of stage evidence lose one
(`services/workflows.py:42`).

In the sessions: an account whose sign-up stopped between `create_user` and
`ensure_provisioned` is never completed by a later sign-in, which finds the
account (`auth.py:148`, `auth.py:438`); two refreshes that both look before either
revokes give a session two tokens, and a refresh or sign-in that is overtaken by a
sign-out or a change of password stores its token after the revocation
(`auth.py:173-177`, `auth.py:543`).  These are what `late` marks.

In billing: a late event overwrites a newer one until the next arrives
(`billing.py:208`); a checkout event leaves the columns of `ending` alone, so
that one delivered before the event that created its subscription shows the
ending of the subscription before it until that event comes; a second checkout
is opened while a subscription runs, and the end of the first is then shown in
place of the second.

## 6. Proofs

`GardenRequestProofs` proves, for every set of administrators, inspectors,
visits and crops and from the only assumption that NULL is neither an assignment
nor an inspector:

| Theorem | Statement |
|---|---|
| `TypeCorrect` | `Spec => []TypeOK` |
| `StagesCorrect` | `Spec => []StagesAgree` |
| `DecisionsCorrect` | `Spec => []DecisionsAgree` |
| `VisitsCorrect` | `Spec => []OneOpenVisit` |
| `AcceptCorrect` | `Spec => AcceptGate` |
| `ActivationCorrect` | `Spec => ActivationGate` |
| `Implements` | `Spec => FollowsLifecycle` |
| `ImplementsGate` | `Spec => FollowsGate` |

The safety properties and the two gates have the data route's writes as steps and
name them (section 3): `StatusStaysGuarded` and `VisitsStayGuarded` say that a state the
route has not written came from one it had not written, and `OnlyBypass` that
nothing else adds to `bypassed`.  The inductive invariant `IInv` adds three parts
to the safety properties.
`ReadsAgree` ties what a PATCH in flight remembers to its target: without it
the commit's comparison with the remembered status says nothing about where the
request is.  `WorkflowCloses` ties the workflow to the request, as long as the data route has
not parted them.
`VisitsExist` ties reports, saves and previews to visits that exist: without it
a new visit could take the place of one whose assessment was submitted.  One
lemma per part goes through the steps of the request (`NextCases` gathers the
steps that change nothing the invariant speaks of); the temporal theorems
follow from `Invariant`.  For the gate, `GateStep` shows for one visit that every
step of the request is one of the gate's or leaves it alone; by `ReadsAgree` what
an accepting commit compares and decides is the report of one of the visits.

The other components' theorems, for all constants:

| Module | Theorems | Invariant and why |
|---|---|---|
| `InspectionScoringProofs` | `MonotoneCorrect`, `ColumnsCorrect`, `TypeCorrect` | the report holds a form with its own score and band; each term of the score is monotone, and rounding never carries a number below a limit, because limits are multiples of the unit |
| `InspectionEvidenceProofs` | `EvidenceCorrect`, `OnceCorrect`, `ImplementsGate`, `TypeCorrect` | one holder of the report's lock; what it read of the checklist is still true; the report is not submitted while it holds the lock |
| `AssessmentLeadProofs` | `RequestsCorrect`, `OwnersCorrect`, `MailsCorrect`, `TypeCorrect` | one holder of a lead's lock, whose search is still true when it writes; a conversion past provisioning has a complete owner, or one who took rows away since; the one conversion that created an account is the only one that may mail |
| `CommerceProofs`, orders | `MovesCorrect`, `MailsCorrect`, `OrdersTypeCorrect` | a move in flight is one the table allows from the status read; since no move returns to a status, whoever is about to mail a status is alone and the first |
| `CommerceProofs`, billing | `ShowsNewestCorrect`, `BillingTypeCorrect` | see below |
| `CareActionProofs` | `NextTaskCorrect`, `TypeCorrect` | whoever closed the last open task has still to create its own |
| `GardenRequestSupabaseProofs` | `OneApprovalCorrect`, `DecisionsCorrect`, `MovesCorrect`, `ClosesCorrect`, `StagesCorrect`, `Implements`, `TypeCorrect` | a handler remembers the status it began from and reaches its phases only in their order; the one handler that accepted is the sole one past its status write, and the request and the report are decided together or by a handler on its way from one to the other; a handler that closed the request goes on to the stage that closes the workflow; one that is alone is on its way to stages that tell what the request will |
| `SessionsProofs` | `PasswordCorrect`, `RotationCorrect`, `TypeCorrect` | a session has one head, a token or a call on time that carries the next one; what a call on time holds was opened with the present password or a change is pending; ids in hand are distinct and unstored |

The billing invariant (`BillingInv`).  `ShowsNewest` says what the row shows when
the newest event was applied last, and nothing about how it got there; no step
preserves it alone.  The invariant reads the log instead: every event names the
customer its subscription was opened for (`EventsTold`), the newest event of the
log tells the present state of its subscription (`NewestTold`), which is the one
that runs, unless subscriptions overlapped (`OneRuns`); the columns of the row that the user
has not written since show what the event applied last tells (`RowTold`).  `InTurn` is for the columns a checkout leaves alone: when
nothing is outstanding and nothing came late, a checkout applied last finds in the
row what the event before it, which created the subscription, has written.  Events
are appended one or two at a time, and `SendProperties` and `SendBothProperties`
give what that leaves of the log.

The refinement on the compatibility deployment (`Implements` of
`GardenRequestSupabaseProofs`).  No step writes the request and the workflow
together there, so with the plain workflow the refinement is false, already of one
administrator who rejects or cancels alone.  `WorkflowToBe` moves the closing
to the request's own write.  What has to be proved is that the interpolated closing
never has to be taken back: a handler leaves `Closing` only by the stage that
closes the workflow (or by a failure, which ends what is claimed), no compensation
runs while handlers only overlap (`NoneRestores`), and no other stage or report
trigger reopens a closed workflow.  `PipelineStep` takes a step of any handler or
of the others to a step of `GardenLifecycle`, a stutter, or the allocation that
overwrites a later status.

Assumptions are the named ones of each module: identifiers are distinct from
NULL, forms satisfy the request's schema, a seeded checklist is not empty.
`StaysCaredFor`, `StaysSignedIn` and `Converges` are liveness under fairness and
stay with TLC; every other property that a passing run checks is also a theorem.
The refinements are of safety alone: that a request ever passes the gate or the
pipeline is not claimed, since each of their steps waits for a person.

## 7. Fairness

Three components assume fairness, all of them weak.

* `CareAction`: a call that was logged performs its next statement or fails (the
  handler awaits nothing but the database, and no statement of it waits for a row
  another call keeps).  No call need ever start; failures and edits may happen at
  any time and the property is about behaviours without them.
* `Sessions`: a request that was begun performs its next transaction or stops, for
  the same reason.  Nobody need sign in or refresh.
* `Billing`: each event is in the end delivered and answered, which is what Stripe
  does with its retries.  Nobody need pay or change anything, and answers may be
  lost any number of times before.

For the other components no liveness is claimed: every step waits for a person,
and the code has no timer or retry that would move things on.

## 8. Plan and what is not modelled

Left to do, in this order: an abstract conversion (an atomic account and request
for each lead) that `AssessmentLead` implements, for which the invariant of
`AssessmentLeadProofs` should be enough; the same for the rotation of `Sessions`,
one usable token per session taken and given back; the merge of stage evidence, if
the repository ever says what it promises.

Not modelled: row locks one by one (the database detects a deadlock and aborts a
transaction, which appears as a failed call); the help-centre projection,
community, plans, accounts, health and configuration (reads and single-row
inserts); e-mail, geocoding and storage (input and output; failures are caught and
change no state); push fan-out (best effort); the other authentication modes, which
hand everything to GoTrue; amounts of orders.  Only model-checked, by its nature:
liveness under fairness.
