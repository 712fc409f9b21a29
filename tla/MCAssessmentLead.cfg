SPECIFICATION Spec
CONSTANTS
    l1 = l1
    l2 = l2
    e1 = e1
    Leads = {l1, l2}
    Emails = {e1}
    EmailOf <- SharedEmail
    Admins = {u1, u2, u3}
    None = None
SYMMETRY Symmetry
CONSTRAINT TwoRequests
INVARIANTS
    TypeOK
    OneRequestPerLead
    OwnerProvisioned
    OneSetupMail
