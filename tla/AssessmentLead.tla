--------------------------- MODULE AssessmentLead ----------------------------
(***************************************************************************)
(* Turning assessment leads into garden requests, as the production        *)
(* deployment (PostgresGateway with the native account store) runs it.     *)
(*                                                                         *)
(* The conversion handler is a chain of separate transactions: read the    *)
(* lead, look the account up, create it, provision it, convert, send the   *)
(* mail.  The converting transaction itself is modelled statement by       *)
(* statement, because what keeps two conversions of one lead apart is the  *)
(* row lock its first statement takes.  Several administrators convert at  *)
(* once, a failed conversion is simply run again, and residents sign up    *)
(* with the e-mail address of a lead in between.                           *)
(*                                                                         *)
(* An account is identified by its e-mail address: accounts are inserted   *)
(* in lower case under a UNIQUE constraint and never deleted.              *)
(***************************************************************************)
EXTENDS Naturals

CONSTANTS
    Leads,      \* ids of leads
    Emails,     \* e-mail addresses
    EmailOf,    \* the address a lead gave; several leads may share one
    Admins,     \* concurrent administrator requests
    None        \* no lead

ASSUME LeadAssumption == /\ EmailOf \in [Leads -> Emails]
                         /\ None \notin Leads

VARIABLES
    lead,         \* assessment_leads.status, "none" for no such lead
    accounts,     \* addresses with a row in auth.users
    provisioned,  \* accounts with their profile, role and settings rows
    requests,     \* number of committed garden requests that name the lead
    setupMails,   \* number of password set-up mails sent to an address
    job,          \* each administrator's conversion
    foreign,      \* history: leads that somebody named in a request himself
    shed          \* history: accounts whose owner deleted some of those rows
                  \* since they were last made

vars == <<lead, accounts, provisioned, requests, setupMails, job, foreign,
          shed>>

(* The six statuses other than "converted" differ only in the mail a       *)
(* change of status sends.                                                 *)
LeadStatuses == {"none", "open", "converted"}

(* Where a conversion stands.  It holds the lock of its lead's row in      *)
(* "search" and "write".                                                   *)
Steps == {"idle", "lookup", "create", "provision", "convert", "search",
          "write", "mail"}

Idle == [step |-> "idle", lead |-> None, created |-> FALSE, found |-> FALSE]

Jobs == [step : Steps, lead : Leads \cup {None}, created : BOOLEAN,
         found : BOOLEAN]

TypeOK ==
    /\ lead \in [Leads -> LeadStatuses]
    /\ accounts \subseteq Emails
    /\ provisioned \subseteq Emails
    /\ requests \in [Leads -> Nat]
    /\ setupMails \in [Emails -> Nat]
    /\ job \in [Admins -> Jobs]
    /\ \A u \in Admins : job[u].step # "idle" => job[u].lead \in Leads
    /\ foreign \subseteq Leads
    /\ shed \subseteq Emails

At(u, step) == job[u].step = step

Email(u) == EmailOf[job[u].lead]

Locked(l) == \E u \in Admins : /\ job[u].lead = l
                               /\ job[u].step \in {"search", "write"}

Init ==
    /\ lead = [l \in Leads |-> "none"]
    /\ accounts = {}
    /\ provisioned = {}
    /\ requests = [l \in Leads |-> 0]
    /\ setupMails = [e \in Emails |-> 0]
    /\ job = [u \in Admins |-> Idle]
    /\ foreign = {}
    /\ shed = {}

-----------------------------------------------------------------------------
(* The public form and the administrators' status changes.                 *)

CreateLead(l) ==
    /\ lead[l] = "none"
    /\ lead' = [lead EXCEPT ![l] = "open"]
    /\ UNCHANGED <<accounts, provisioned, requests, setupMails, job,
                   foreign, shed>>

(* update_assessment_lead: any status may replace any other, "converted"   *)
(* included, and the update waits for the row lock.  The faulty variant    *)
(* writes a status the column's check does not list.                       *)
FaultySetStatus(l, s) ==
    /\ lead[l] # "none" /\ ~Locked(l)
    /\ lead' = [lead EXCEPT ![l] = "archived"]
    /\ UNCHANGED <<accounts, provisioned, requests, setupMails, job,
                   foreign, shed>>

SetStatus(l, s) ==
    /\ lead[l] # "none" /\ ~Locked(l)
    /\ lead' = [lead EXCEPT ![l] = s]
    /\ UNCHANGED <<accounts, provisioned, requests, setupMails, job,
                   foreign, shed>>

(* A request names its lead in its details, which are its owner's to write  *)
(* and an administrator's.  A conversion that found a row holds its lock,  *)
(* so only another one that names the lead can be changed.                 *)
Free(l) ==
    LET held == \E u \in Admins :
                   job[u].lead = l /\ At(u, "write") /\ job[u].found
    IN  requests[l] > IF held THEN 1 ELSE 0

(* mutate_data: a request is deleted, or no longer names the lead.         *)
DeleteRequest(l) ==
    /\ Free(l)
    /\ requests' = [requests EXCEPT ![l] = @ - 1]
    /\ UNCHANGED <<lead, accounts, provisioned, setupMails, job, foreign, shed>>

(* mutate_data and create_garden_request: another request names the lead,  *)
(* or one that does is given another owner.                                *)
WriteRequest(l) ==
    /\ lead[l] # "none"
    /\ \/ requests' = [requests EXCEPT ![l] = @ + 1]
       \/ Free(l) /\ UNCHANGED requests
    /\ foreign' = foreign \cup {l}
    /\ UNCHANGED <<lead, accounts, provisioned, setupMails, job, shed>>

-----------------------------------------------------------------------------
(* A resident signs up: the account, then its other rows, as on databases   *)
(* without the trigger handle_new_user; with it one step does both.        *)

SignUp(e) ==
    /\ e \notin accounts
    /\ accounts' = accounts \cup {e}
    /\ UNCHANGED <<lead, provisioned, requests, setupMails, job,
                   foreign, shed>>

EnsureProvisioned(e) ==
    /\ e \in accounts
    /\ provisioned' = provisioned \cup {e}
    /\ shed' = shed \ {e}
    /\ UNCHANGED <<lead, accounts, requests, setupMails, job, foreign>>

(* mutate_data: profiles and user_settings are their owner's to delete.    *)
DeleteAccountRows(e) ==
    /\ e \in provisioned
    /\ provisioned' = provisioned \ {e}
    /\ shed' = shed \cup {e}
    /\ UNCHANGED <<lead, accounts, requests, setupMails, job, foreign>>

-----------------------------------------------------------------------------
(* convert_assessment_lead, the handler.                                   *)

ReadLead(u, l) ==
    /\ At(u, "idle") /\ lead[l] # "none"
    /\ job' = [job EXCEPT ![u] = [step |-> "lookup", lead |-> l,
                                  created |-> FALSE, found |-> FALSE]]
    /\ UNCHANGED <<lead, accounts, provisioned, requests, setupMails,
                   foreign, shed>>

(* get_user_by_email                                                       *)
FindAccount(u) ==
    /\ At(u, "lookup")
    /\ job' = [job EXCEPT ![u].step =
                 IF Email(u) \in accounts THEN "provision" ELSE "create"]
    /\ UNCHANGED <<lead, accounts, provisioned, requests, setupMails,
                   foreign, shed>>

(* create_user: an address taken since the look-up answers 409.  The       *)
(* faulty variant ignores the constraint's error and uses the account.     *)
FaultyCreateAccount(u) ==
    /\ At(u, "create")
    /\ accounts' = accounts \cup {Email(u)}
    /\ job' = [job EXCEPT ![u].step = "provision", ![u].created = TRUE]
    /\ UNCHANGED <<lead, provisioned, requests, setupMails, foreign, shed>>

CreateAccount(u) ==
    /\ At(u, "create")
    /\ IF Email(u) \in accounts
       THEN /\ job' = [job EXCEPT ![u] = Idle]
            /\ UNCHANGED accounts
       ELSE /\ accounts' = accounts \cup {Email(u)}
            /\ job' = [job EXCEPT ![u].step = "provision", ![u].created = TRUE]
    /\ UNCHANGED <<lead, provisioned, requests, setupMails, foreign, shed>>

(* ensure_provisioned.  The faulty variant provisions only accounts it has *)
(* created.                                                                *)
FaultyProvision(u) ==
    /\ At(u, "provision")
    /\ provisioned' = IF job[u].created THEN provisioned \cup {Email(u)}
                                        ELSE provisioned
    /\ job' = [job EXCEPT ![u].step = "convert"]
    /\ UNCHANGED <<lead, accounts, requests, setupMails, foreign, shed>>

Provision(u) ==
    /\ At(u, "provision")
    /\ provisioned' = provisioned \cup {Email(u)}
    /\ shed' = shed \ {Email(u)}
    /\ job' = [job EXCEPT ![u].step = "convert"]
    /\ UNCHANGED <<lead, accounts, requests, setupMails, foreign>>

(* The transaction: SELECT ... FOR UPDATE of the lead.  The faulty variant *)
(* reads it without the lock.                                              *)
FaultyLockLead(u) ==
    /\ At(u, "convert")
    /\ job' = [job EXCEPT ![u].step = "search"]
    /\ UNCHANGED <<lead, accounts, provisioned, requests, setupMails,
                   foreign, shed>>

LockLead(u) ==
    /\ At(u, "convert") /\ ~Locked(job[u].lead)
    /\ job' = [job EXCEPT ![u].step = "search"]
    /\ UNCHANGED <<lead, accounts, provisioned, requests, setupMails,
                   foreign, shed>>

(* The oldest request that names the lead, if there is one.                *)
SearchRequest(u) ==
    /\ At(u, "search")
    /\ job' = [job EXCEPT ![u].step = "write",
                          ![u].found = requests[job[u].lead] > 0]
    /\ UNCHANGED <<lead, accounts, provisioned, requests, setupMails,
                   foreign, shed>>

(* Insert unless found, mark the lead, commit; only an account this run    *)
(* created is sent a mail.                                                 *)
CommitConversion(u) ==
    LET l == job[u].lead IN
    /\ At(u, "write")
    /\ requests' = [requests EXCEPT ![l] = IF job[u].found THEN @ ELSE @ + 1]
    /\ lead' = [lead EXCEPT ![l] = "converted"]
    /\ job' = IF job[u].created THEN [job EXCEPT ![u].step = "mail"]
                                ELSE [job EXCEPT ![u] = Idle]
    /\ UNCHANGED <<accounts, provisioned, setupMails, foreign, shed>>

SendSetupMail(u) ==
    /\ At(u, "mail")
    /\ setupMails' = [setupMails EXCEPT ![Email(u)] = @ + 1]
    /\ job' = [job EXCEPT ![u] = Idle]
    /\ UNCHANGED <<lead, accounts, provisioned, requests, foreign, shed>>

(* An error, a failed mail or a crash ends a conversion anywhere, and      *)
(* rolls back its transaction if one is open.                              *)
Abandon(u) ==
    /\ ~At(u, "idle")
    /\ job' = [job EXCEPT ![u] = Idle]
    /\ UNCHANGED <<lead, accounts, provisioned, requests, setupMails,
                   foreign, shed>>

Convert(u) ==
    \/ \E l \in Leads : ReadLead(u, l)
    \/ FindAccount(u)
    \/ CreateAccount(u)
    \/ Provision(u)
    \/ LockLead(u)
    \/ SearchRequest(u)
    \/ CommitConversion(u)
    \/ SendSetupMail(u)
    \/ Abandon(u)

Next ==
    \/ \E l \in Leads : \/ CreateLead(l)
                        \/ \E s \in {"open", "converted"} : SetStatus(l, s)
                        \/ DeleteRequest(l)
                        \/ WriteRequest(l)
    \/ \E e \in Emails : \/ SignUp(e)
                         \/ EnsureProvisioned(e)
                         \/ DeleteAccountRows(e)
    \/ \E u \in Admins : Convert(u)

Spec == Init /\ [][Next]_vars

-----------------------------------------------------------------------------
(* Properties.                                                             *)

(* Converting a lead again, at the same time or after a failure, recovers  *)
(* the request of the first conversion and never creates a second one: a   *)
(* lead has two requests only if somebody wrote its name into one himself  *)
(* (postgres_gateway.py, convert_assessment_lead).                         *)
OneRequestPerLead == \A l \in Leads \ foreign : requests[l] <= 1

(* The owner of the request that a conversion made is an account with its  *)
(* profile, role and settings, also when the account came from a sign-up   *)
(* that stopped halfway, or had lost those rows before; only the owner     *)
(* himself takes them away again (ensure_provisioned).                     *)
OwnerProvisioned ==
    \A l \in Leads \ foreign :
        requests[l] > 0 => /\ EmailOf[l] \in accounts
                           /\ EmailOf[l] \in provisioned \cup shed

(* Conversions of one lead, or of several leads with one address, send at  *)
(* most one password set-up mail to that address.                          *)
OneSetupMail == \A e \in Emails : setupMails[e] <= 1
=============================================================================
