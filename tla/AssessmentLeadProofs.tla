------------------------ MODULE AssessmentLeadProofs -------------------------
(* Proofs about AssessmentLead, for every set of leads, addresses and      *)
(* administrators.                                                         *)
EXTENDS AssessmentLead, TLAPS

-----------------------------------------------------------------------------
(* The inductive invariant.                                                *)

(* Only one conversion is inside the transaction of a lead.                *)
OneHolder ==
    \A u, v \in Admins :
        /\ job[u].step \in {"search", "write"}
        /\ job[v].step \in {"search", "write"}
        /\ job[u].lead = job[v].lead
        => u = v

(* What a conversion found is still there when it writes, and still        *)
(* missing unless somebody else wrote it.                                  *)
FoundHolds ==
    \A u \in Admins :
        job[u].step = "write" =>
          IF job[u].found THEN requests[job[u].lead] > 0
                          ELSE \/ requests[job[u].lead] = 0
                               \/ job[u].lead \in foreign

(* A conversion past a step has what the step provides.                    *)
Prepared ==
    \A u \in Admins :
        /\ job[u].step \in {"provision", "convert", "search", "write", "mail"}
             => Email(u) \in accounts
        /\ job[u].step \in {"convert", "search", "write", "mail"}
             => Email(u) \in provisioned \cup shed

(* An account has one creator, and no mail was sent while the creator has  *)
(* yet to send it.                                                         *)
OneCreator ==
    /\ \A u \in Admins : job[u].created =>
         /\ job[u].step \notin {"idle", "lookup", "create"}
         /\ setupMails[Email(u)] = 0
    /\ \A u, v \in Admins :
         job[u].created /\ job[v].created /\ Email(u) = Email(v) => u = v
    /\ \A u \in Admins : job[u].step = "mail" => job[u].created
    /\ \A e \in Emails : setupMails[e] > 0 => e \in accounts

IInv == /\ TypeOK
        /\ OneHolder /\ FoundHolds /\ Prepared /\ OneCreator
        /\ OneRequestPerLead /\ OwnerProvisioned /\ OneSetupMail

-----------------------------------------------------------------------------
(* Type correctness.                                                       *)

LEMMA TypeInit == Init => TypeOK
BY DEF Init, TypeOK, LeadStatuses, Jobs, Steps, Idle

(* Every step keeps the columns and the conversions in their types.        *)
LEMMA TypeStep ==
  ASSUME TypeOK, Next
  PROVE  TypeOK'
<1> USE LeadAssumption DEF TypeOK, LeadStatuses, Jobs, Steps, Idle, At, Email
<1>1. ASSUME NEW l \in Leads,
             CreateLead(l) \/ (\E s \in {"open", "converted"} : SetStatus(l, s))
      PROVE  TypeOK'
  BY <1>1 DEF CreateLead, SetStatus
<1>2. ASSUME NEW l \in Leads, DeleteRequest(l) \/ WriteRequest(l)
      PROVE  TypeOK'
  BY <1>2 DEF DeleteRequest, WriteRequest, Free
<1>3. ASSUME NEW e \in Emails,
             SignUp(e) \/ EnsureProvisioned(e) \/ DeleteAccountRows(e)
      PROVE  TypeOK'
  BY <1>3 DEF SignUp, EnsureProvisioned, DeleteAccountRows
<1>4. ASSUME NEW u \in Admins, Convert(u)
      PROVE  TypeOK'
  <2>1. CASE \E l \in Leads : ReadLead(u, l)
    BY <2>1 DEF ReadLead
  <2>2. CASE FindAccount(u)
    BY <2>2 DEF FindAccount
  <2>3. CASE CreateAccount(u)
    <3>1. CASE Email(u) \in accounts
      <4>1. /\ job' = [job EXCEPT ![u] = Idle]
            /\ UNCHANGED <<lead, accounts, provisioned, requests, setupMails,
                           foreign, shed>>
        BY <2>3, <3>1 DEF CreateAccount
      <4> QED
        BY <4>1
    <3>2. CASE Email(u) \notin accounts
      <4>1. job' = [job EXCEPT ![u].step = "provision", ![u].created = TRUE]
        BY <2>3, <3>2 DEF CreateAccount
      <4>2. job' \in [Admins -> Jobs]
        <5>1. job[u] \in Jobs
          OBVIOUS
        <5>2. [job[u] EXCEPT !.step = "provision", !.created = TRUE] \in Jobs
          BY <5>1
        <5> QED
          BY <4>1, <5>2
      <4>3. job[u].lead \in Leads
        BY <2>3 DEF CreateAccount
      <4>4. accounts' \subseteq Emails
        BY <2>3, <4>3 DEF CreateAccount
      <4> QED
        BY <2>3, <4>1, <4>2, <4>3, <4>4 DEF CreateAccount
    <3> QED
      BY <3>1, <3>2
  <2>4. CASE Provision(u)
    BY <2>4 DEF Provision
  <2>5. CASE LockLead(u)
    BY <2>5 DEF LockLead
  <2>6. CASE SearchRequest(u)
    <3>1. (requests[job[u].lead] > 0) \in BOOLEAN
      OBVIOUS
    <3>2. job' \in [Admins -> Jobs]
      <4>1. job[u] \in Jobs
        OBVIOUS
      <4>2. [job[u] EXCEPT !.step = "write",
                           !.found = requests[job[u].lead] > 0] \in Jobs
        BY <3>1, <4>1
      <4> QED
        BY <2>6, <4>2 DEF SearchRequest
    <3>3. \A v \in Admins : job'[v].step # "idle" => job'[v].lead \in Leads
      BY <2>6 DEF SearchRequest
    <3> QED
      BY <2>6, <3>2, <3>3 DEF SearchRequest
  <2>7. CASE CommitConversion(u)
    <3>1. job' \in [Admins -> Jobs]
      BY <2>7 DEF CommitConversion
    <3>2. \A v \in Admins : job'[v].step # "idle" => job'[v].lead \in Leads
      BY <2>7 DEF CommitConversion
    <3>3. lead' \in [Leads -> LeadStatuses] /\ requests' \in [Leads -> Nat]
      BY <2>7 DEF CommitConversion
    <3> QED
      BY <2>7, <3>1, <3>2, <3>3 DEF CommitConversion
  <2>8. CASE SendSetupMail(u)
    BY <2>8 DEF SendSetupMail
  <2>9. CASE Abandon(u)
    BY <2>9 DEF Abandon
  <2> QED
    BY <1>4, <2>1, <2>2, <2>3, <2>4, <2>5, <2>6, <2>7, <2>8, <2>9 DEF Convert
<1> QED
  BY <1>1, <1>2, <1>3, <1>4 DEF Next

(* The row lock of the lead admits one conversion at a time.               *)
LEMMA HolderStep ==
  ASSUME IInv, Next, TypeOK'
  PROVE  OneHolder'
<1> USE LeadAssumption DEF At, Email, Idle
<1>1. TypeOK /\ OneHolder
  BY DEF IInv
<1>2. ASSUME NEW l \in Leads,
             CreateLead(l) \/ (\E s \in {"open", "converted"} : SetStatus(l, s))
      PROVE  OneHolder'
  BY <1>1, <1>2 DEF OneHolder, CreateLead, SetStatus
<1>3. ASSUME NEW l \in Leads, DeleteRequest(l) \/ WriteRequest(l)
      PROVE  OneHolder'
  BY <1>1, <1>3 DEF OneHolder, DeleteRequest, WriteRequest, Free, TypeOK
<1>4. ASSUME NEW e \in Emails,
             SignUp(e) \/ EnsureProvisioned(e) \/ DeleteAccountRows(e)
      PROVE  OneHolder'
  BY <1>1, <1>4 DEF OneHolder, SignUp, EnsureProvisioned,
       DeleteAccountRows
<1>5. ASSUME NEW u \in Admins, Convert(u)
      PROVE  OneHolder'
  <2> USE DEF OneHolder, TypeOK, Jobs, Steps
  <2>1. CASE \E l \in Leads : ReadLead(u, l)
    BY <1>1, <2>1 DEF ReadLead
  <2>2. CASE FindAccount(u)
    BY <1>1, <2>2 DEF FindAccount
  <2>3. CASE CreateAccount(u)
    BY <1>1, <2>3 DEF CreateAccount
  <2>4. CASE Provision(u)
    BY <1>1, <2>4 DEF Provision
  <2>5. CASE LockLead(u)
    BY <1>1, <2>5 DEF LockLead, Locked
  <2>6. CASE SearchRequest(u)
    BY <1>1, <2>6 DEF SearchRequest
  <2>7. CASE CommitConversion(u)
    BY <1>1, <2>7 DEF CommitConversion
  <2>8. CASE SendSetupMail(u)
    BY <1>1, <2>8 DEF SendSetupMail
  <2>9. CASE Abandon(u)
    BY <1>1, <2>9 DEF Abandon
  <2> QED
    BY <1>5, <2>1, <2>2, <2>3, <2>4, <2>5, <2>6, <2>7, <2>8, <2>9 DEF Convert
<1> QED
  BY <1>2, <1>3, <1>4, <1>5 DEF Next


(* What the conversion that holds the lead's lock found keeps its lock, and *)
(* what it did not find nobody else inserts but by writing the name.       *)
LEMMA FoundStep ==
  ASSUME IInv, Next, TypeOK'
  PROVE  FoundHolds'
<1> USE LeadAssumption DEF At, Email, Idle
<1>1. TypeOK /\ OneHolder /\ FoundHolds
  BY DEF IInv
<1>2. ASSUME NEW l \in Leads,
             CreateLead(l) \/ (\E s \in {"open", "converted"} : SetStatus(l, s))
      PROVE  FoundHolds'
  BY <1>1, <1>2 DEF OneHolder, FoundHolds, CreateLead, SetStatus
<1>3. ASSUME NEW l \in Leads, DeleteRequest(l) \/ WriteRequest(l)
      PROVE  FoundHolds'
  BY <1>1, <1>3
     DEF OneHolder, FoundHolds, DeleteRequest, WriteRequest, Free, TypeOK
<1>4. ASSUME NEW e \in Emails,
             SignUp(e) \/ EnsureProvisioned(e) \/ DeleteAccountRows(e)
      PROVE  FoundHolds'
  BY <1>1, <1>4 DEF OneHolder, FoundHolds, SignUp, EnsureProvisioned,
       DeleteAccountRows
<1>5. ASSUME NEW u \in Admins, Convert(u)
      PROVE  FoundHolds'
  <2> USE DEF OneHolder, FoundHolds, TypeOK, Jobs, Steps
  <2>1. CASE \E l \in Leads : ReadLead(u, l)
    BY <1>1, <2>1 DEF ReadLead
  <2>2. CASE FindAccount(u)
    BY <1>1, <2>2 DEF FindAccount
  <2>3. CASE CreateAccount(u)
    BY <1>1, <2>3 DEF CreateAccount
  <2>4. CASE Provision(u)
    BY <1>1, <2>4 DEF Provision
  <2>5. CASE LockLead(u)
    BY <1>1, <2>5 DEF LockLead, Locked
  <2>6. CASE SearchRequest(u)
    BY <1>1, <2>6 DEF SearchRequest
  <2>7. CASE CommitConversion(u)
    BY <1>1, <2>7 DEF CommitConversion
  <2>8. CASE SendSetupMail(u)
    BY <1>1, <2>8 DEF SendSetupMail
  <2>9. CASE Abandon(u)
    BY <1>1, <2>9 DEF Abandon
  <2> QED
    BY <1>5, <2>1, <2>2, <2>3, <2>4, <2>5, <2>6, <2>7, <2>8, <2>9 DEF Convert
<1> QED
  BY <1>2, <1>3, <1>4, <1>5 DEF Next


(* Accounts stay, and their rows but for what their owners delete.         *)
LEMMA PreparedStep ==
  ASSUME IInv, Next, TypeOK'
  PROVE  Prepared'
<1> USE LeadAssumption DEF At, Email, Idle
<1>1. TypeOK /\ Prepared
  BY DEF IInv
<1>2. ASSUME NEW l \in Leads,
             CreateLead(l) \/ (\E s \in {"open", "converted"} : SetStatus(l, s))
      PROVE  Prepared'
  BY <1>1, <1>2 DEF Prepared, CreateLead, SetStatus
<1>3. ASSUME NEW l \in Leads, DeleteRequest(l) \/ WriteRequest(l)
      PROVE  Prepared'
  BY <1>1, <1>3 DEF Prepared, DeleteRequest, WriteRequest, Free, TypeOK
<1>4. ASSUME NEW e \in Emails,
             SignUp(e) \/ EnsureProvisioned(e) \/ DeleteAccountRows(e)
      PROVE  Prepared'
  BY <1>1, <1>4 DEF Prepared, SignUp, EnsureProvisioned,
       DeleteAccountRows
<1>5. ASSUME NEW u \in Admins, Convert(u)
      PROVE  Prepared'
  <2> USE DEF Prepared, TypeOK, Jobs, Steps
  <2>1. CASE \E l \in Leads : ReadLead(u, l)
    BY <1>1, <2>1 DEF ReadLead
  <2>2. CASE FindAccount(u)
    BY <1>1, <2>2 DEF FindAccount
  <2>3. CASE CreateAccount(u)
    BY <1>1, <2>3 DEF CreateAccount
  <2>4. CASE Provision(u)
    BY <1>1, <2>4 DEF Provision
  <2>5. CASE LockLead(u)
    BY <1>1, <2>5 DEF LockLead, Locked
  <2>6. CASE SearchRequest(u)
    BY <1>1, <2>6 DEF SearchRequest
  <2>7. CASE CommitConversion(u)
    BY <1>1, <2>7 DEF CommitConversion
  <2>8. CASE SendSetupMail(u)
    BY <1>1, <2>8 DEF SendSetupMail
  <2>9. CASE Abandon(u)
    BY <1>1, <2>9 DEF Abandon
  <2> QED
    BY <1>5, <2>1, <2>2, <2>3, <2>4, <2>5, <2>6, <2>7, <2>8, <2>9 DEF Convert
<1> QED
  BY <1>2, <1>3, <1>4, <1>5 DEF Next


(* A second insertion of an address fails, so an account has one creator.  *)
LEMMA CreatorStep ==
  ASSUME IInv, Next, TypeOK'
  PROVE  OneCreator'
<1> USE LeadAssumption DEF At, Email, Idle
<1>1. TypeOK /\ Prepared /\ OneCreator
  BY DEF IInv
<1>2. ASSUME NEW l \in Leads,
             CreateLead(l) \/ (\E s \in {"open", "converted"} : SetStatus(l, s))
      PROVE  OneCreator'
  BY <1>1, <1>2 DEF Prepared, OneCreator, CreateLead, SetStatus
<1>3. ASSUME NEW l \in Leads, DeleteRequest(l) \/ WriteRequest(l)
      PROVE  OneCreator'
  BY <1>1, <1>3
     DEF Prepared, OneCreator, DeleteRequest, WriteRequest, Free, TypeOK
<1>4. ASSUME NEW e \in Emails,
             SignUp(e) \/ EnsureProvisioned(e) \/ DeleteAccountRows(e)
      PROVE  OneCreator'
  BY <1>1, <1>4 DEF Prepared, OneCreator, SignUp, EnsureProvisioned,
       DeleteAccountRows
<1>5. ASSUME NEW u \in Admins, Convert(u)
      PROVE  OneCreator'
  <2> USE DEF Prepared, OneCreator, TypeOK, Jobs, Steps
  <2>1. CASE \E l \in Leads : ReadLead(u, l)
    BY <1>1, <2>1 DEF ReadLead
  <2>2. CASE FindAccount(u)
    BY <1>1, <2>2 DEF FindAccount
  <2>3. CASE CreateAccount(u)
    <3>1. CASE Email(u) \in accounts
      <4>1. /\ job' = [job EXCEPT ![u] = Idle]
            /\ UNCHANGED <<lead, accounts, provisioned, requests, setupMails,
                           foreign, shed>>
        BY <2>3, <3>1 DEF CreateAccount
      <4>2. \A v \in Admins : job'[v].created =>
              v # u /\ job'[v] = job[v]
        BY <4>1
      <4> QED
        BY <1>1, <4>1, <4>2
    <3>2. CASE Email(u) \notin accounts
      <4>1. \A v \in Admins : job[v].created => Email(v) \in accounts
        BY <1>1
      <4>2. setupMails[Email(u)] = 0
        <5>1. Email(u) \in Emails
          BY <1>1, <2>3 DEF CreateAccount
        <5>2. ~(setupMails[Email(u)] > 0)
          BY <1>1, <3>2, <5>1
        <5>3. setupMails[Email(u)] \in Nat
          BY <1>1, <5>1
        <5> QED
          BY <5>2, <5>3
      <4>3. \A v \in Admins : job[v].created => Email(v) # Email(u)
        BY <3>2, <4>1
      <4>4. job' = [job EXCEPT ![u].step = "provision", ![u].created = TRUE]
        BY <2>3, <3>2 DEF CreateAccount
      <4> QED
        BY <1>1, <2>3, <3>2, <4>2, <4>3, <4>4 DEF CreateAccount
    <3> QED
      BY <3>1, <3>2
  <2>4. CASE Provision(u)
    BY <1>1, <2>4 DEF Provision
  <2>5. CASE LockLead(u)
    BY <1>1, <2>5 DEF LockLead, Locked
  <2>6. CASE SearchRequest(u)
    BY <1>1, <2>6 DEF SearchRequest
  <2>7. CASE CommitConversion(u)
    BY <1>1, <2>7 DEF CommitConversion
  <2>8. CASE SendSetupMail(u)
    BY <1>1, <2>8 DEF SendSetupMail
  <2>9. CASE Abandon(u)
    BY <1>1, <2>9 DEF Abandon
  <2> QED
    BY <1>5, <2>1, <2>2, <2>3, <2>4, <2>5, <2>6, <2>7, <2>8, <2>9 DEF Convert
<1> QED
  BY <1>2, <1>3, <1>4, <1>5 DEF Next


(* A conversion inserts only when it found nothing, and would still find   *)
(* nothing unless the lead was written into a request.                     *)
LEMMA RequestStep ==
  ASSUME IInv, Next, TypeOK'
  PROVE  OneRequestPerLead'
<1> USE LeadAssumption DEF At, Email, Idle
<1>1. TypeOK /\ FoundHolds /\ OneRequestPerLead
  BY DEF IInv
<1>2. ASSUME NEW l \in Leads,
             CreateLead(l) \/ (\E s \in {"open", "converted"} : SetStatus(l, s))
      PROVE  OneRequestPerLead'
  BY <1>1, <1>2 DEF FoundHolds, OneRequestPerLead, CreateLead, SetStatus
<1>3. ASSUME NEW l \in Leads, DeleteRequest(l) \/ WriteRequest(l)
      PROVE  OneRequestPerLead'
  BY <1>1, <1>3
     DEF FoundHolds, OneRequestPerLead, DeleteRequest, WriteRequest, Free,
         TypeOK
<1>4. ASSUME NEW e \in Emails,
             SignUp(e) \/ EnsureProvisioned(e) \/ DeleteAccountRows(e)
      PROVE  OneRequestPerLead'
  BY <1>1, <1>4 DEF FoundHolds, OneRequestPerLead, SignUp, EnsureProvisioned,
       DeleteAccountRows
<1>5. ASSUME NEW u \in Admins, Convert(u)
      PROVE  OneRequestPerLead'
  <2> USE DEF FoundHolds, OneRequestPerLead, TypeOK, Jobs, Steps
  <2>1. CASE \E l \in Leads : ReadLead(u, l)
    BY <1>1, <2>1 DEF ReadLead
  <2>2. CASE FindAccount(u)
    BY <1>1, <2>2 DEF FindAccount
  <2>3. CASE CreateAccount(u)
    BY <1>1, <2>3 DEF CreateAccount
  <2>4. CASE Provision(u)
    BY <1>1, <2>4 DEF Provision
  <2>5. CASE LockLead(u)
    BY <1>1, <2>5 DEF LockLead, Locked
  <2>6. CASE SearchRequest(u)
    BY <1>1, <2>6 DEF SearchRequest
  <2>7. CASE CommitConversion(u)
    BY <1>1, <2>7 DEF CommitConversion
  <2>8. CASE SendSetupMail(u)
    BY <1>1, <2>8 DEF SendSetupMail
  <2>9. CASE Abandon(u)
    BY <1>1, <2>9 DEF Abandon
  <2> QED
    BY <1>5, <2>1, <2>2, <2>3, <2>4, <2>5, <2>6, <2>7, <2>8, <2>9 DEF Convert
<1> QED
  BY <1>2, <1>3, <1>4, <1>5 DEF Next


(* A request is inserted for a provisioned account.                        *)
LEMMA OwnerStep ==
  ASSUME IInv, Next, TypeOK'
  PROVE  OwnerProvisioned'
<1> USE LeadAssumption DEF At, Email, Idle
<1>1. TypeOK /\ Prepared /\ FoundHolds /\ OwnerProvisioned
  BY DEF IInv
<1>2. ASSUME NEW l \in Leads,
             CreateLead(l) \/ (\E s \in {"open", "converted"} : SetStatus(l, s))
      PROVE  OwnerProvisioned'
  BY <1>1, <1>2
     DEF Prepared, FoundHolds, OwnerProvisioned, CreateLead, SetStatus
<1>3. ASSUME NEW l \in Leads, DeleteRequest(l) \/ WriteRequest(l)
      PROVE  OwnerProvisioned'
  BY <1>1, <1>3
     DEF Prepared, FoundHolds, OwnerProvisioned, DeleteRequest, WriteRequest,
         Free, TypeOK
<1>4. ASSUME NEW e \in Emails,
             SignUp(e) \/ EnsureProvisioned(e) \/ DeleteAccountRows(e)
      PROVE  OwnerProvisioned'
  BY <1>1, <1>4
     DEF Prepared, FoundHolds, OwnerProvisioned, SignUp, EnsureProvisioned,
         DeleteAccountRows
<1>5. ASSUME NEW u \in Admins, Convert(u)
      PROVE  OwnerProvisioned'
  <2> USE DEF Prepared, FoundHolds, OwnerProvisioned, TypeOK, Jobs, Steps
  <2>1. CASE \E l \in Leads : ReadLead(u, l)
    BY <1>1, <2>1 DEF ReadLead
  <2>2. CASE FindAccount(u)
    BY <1>1, <2>2 DEF FindAccount
  <2>3. CASE CreateAccount(u)
    BY <1>1, <2>3 DEF CreateAccount
  <2>4. CASE Provision(u)
    BY <1>1, <2>4 DEF Provision
  <2>5. CASE LockLead(u)
    BY <1>1, <2>5 DEF LockLead, Locked
  <2>6. CASE SearchRequest(u)
    BY <1>1, <2>6 DEF SearchRequest
  <2>7. CASE CommitConversion(u)
    BY <1>1, <2>7 DEF CommitConversion
  <2>8. CASE SendSetupMail(u)
    BY <1>1, <2>8 DEF SendSetupMail
  <2>9. CASE Abandon(u)
    BY <1>1, <2>9 DEF Abandon
  <2> QED
    BY <1>5, <2>1, <2>2, <2>3, <2>4, <2>5, <2>6, <2>7, <2>8, <2>9 DEF Convert
<1> QED
  BY <1>2, <1>3, <1>4, <1>5 DEF Next


(* A mail goes to an address that has had none.                            *)
LEMMA MailStep ==
  ASSUME IInv, Next, TypeOK'
  PROVE  OneSetupMail'
<1> USE LeadAssumption DEF At, Email, Idle
<1>1. TypeOK /\ OneCreator /\ OneSetupMail
  BY DEF IInv
<1>2. ASSUME NEW l \in Leads,
             CreateLead(l) \/ (\E s \in {"open", "converted"} : SetStatus(l, s))
      PROVE  OneSetupMail'
  BY <1>1, <1>2 DEF OneCreator, OneSetupMail, CreateLead, SetStatus
<1>3. ASSUME NEW l \in Leads, DeleteRequest(l) \/ WriteRequest(l)
      PROVE  OneSetupMail'
  BY <1>1, <1>3
     DEF OneCreator, OneSetupMail, DeleteRequest, WriteRequest, Free, TypeOK
<1>4. ASSUME NEW e \in Emails,
             SignUp(e) \/ EnsureProvisioned(e) \/ DeleteAccountRows(e)
      PROVE  OneSetupMail'
  BY <1>1, <1>4 DEF OneCreator, OneSetupMail, SignUp, EnsureProvisioned,
       DeleteAccountRows
<1>5. ASSUME NEW u \in Admins, Convert(u)
      PROVE  OneSetupMail'
  <2> USE DEF OneCreator, OneSetupMail, TypeOK, Jobs, Steps
  <2>1. CASE \E l \in Leads : ReadLead(u, l)
    BY <1>1, <2>1 DEF ReadLead
  <2>2. CASE FindAccount(u)
    BY <1>1, <2>2 DEF FindAccount
  <2>3. CASE CreateAccount(u)
    BY <1>1, <2>3 DEF CreateAccount
  <2>4. CASE Provision(u)
    BY <1>1, <2>4 DEF Provision
  <2>5. CASE LockLead(u)
    BY <1>1, <2>5 DEF LockLead, Locked
  <2>6. CASE SearchRequest(u)
    BY <1>1, <2>6 DEF SearchRequest
  <2>7. CASE CommitConversion(u)
    BY <1>1, <2>7 DEF CommitConversion
  <2>8. CASE SendSetupMail(u)
    BY <1>1, <2>8 DEF SendSetupMail
  <2>9. CASE Abandon(u)
    BY <1>1, <2>9 DEF Abandon
  <2> QED
    BY <1>5, <2>1, <2>2, <2>3, <2>4, <2>5, <2>6, <2>7, <2>8, <2>9 DEF Convert
<1> QED
  BY <1>2, <1>3, <1>4, <1>5 DEF Next

-----------------------------------------------------------------------------
(* The theorems.                                                           *)

LEMMA InitInvariant == Init => IInv
<1> SUFFICES ASSUME Init PROVE IInv
  OBVIOUS
<1>1. TypeOK
  BY TypeInit
<1> QED
  BY <1>1, LeadAssumption
     DEF Init, IInv, OneHolder, FoundHolds, Prepared, OneCreator, Idle,
         OneRequestPerLead, OwnerProvisioned, OneSetupMail

LEMMA StepInvariant == IInv /\ [Next]_vars => IInv'
<1>1. ASSUME IInv, Next PROVE IInv'
  <2>1. TypeOK'
    BY <1>1, TypeStep DEF IInv
  <2> QED
    BY <1>1, <2>1, HolderStep, FoundStep, PreparedStep, CreatorStep,
       RequestStep, OwnerStep, MailStep DEF IInv
<1>2. ASSUME IInv, UNCHANGED vars PROVE IInv'
  BY <1>2 DEF vars, IInv, TypeOK, OneHolder, FoundHolds, Prepared, OneCreator,
         OneRequestPerLead, OwnerProvisioned, OneSetupMail, Email
<1> QED
  BY <1>1, <1>2

LEMMA Invariant == Spec => []IInv
BY InitInvariant, StepInvariant, PTL DEF Spec

(* The columns and the conversions keep their types in every behaviour.    *)
THEOREM TypeCorrect == Spec => []TypeOK
<1>1. IInv => TypeOK
  BY DEF IInv
<1> QED
  BY <1>1, Invariant, PTL

(* However many administrators convert however many leads, however often a *)
(* conversion fails and is run again and whoever writes other leads into   *)
(* his requests, a lead that nobody wrote into one has one request.        *)
THEOREM RequestsCorrect == Spec => []OneRequestPerLead
<1>1. IInv => OneRequestPerLead
  BY DEF IInv
<1> QED
  BY <1>1, Invariant, PTL

(* Every request that only conversions made of a lead has a provisioned    *)
(* owner, or one who deleted rows of his account since they were made.     *)
THEOREM OwnersCorrect == Spec => []OwnerProvisioned
<1>1. IInv => OwnerProvisioned
  BY DEF IInv
<1> QED
  BY <1>1, Invariant, PTL

(* No address is sent two password set-up mails.                           *)
THEOREM MailsCorrect == Spec => []OneSetupMail
<1>1. IInv => OneSetupMail
  BY DEF IInv
<1> QED
  BY <1>1, Invariant, PTL
=============================================================================
