\* A subscription that changes and ends, and one that follows it.
CONSTANTS
    Subs = {1, 2}
    MaxEvents = 6
    Claims <- MCClaims
    None = None
SPECIFICATION BillingSpec
CONSTRAINT OneUpdate
ACTION_CONSTRAINT FewSteps
INVARIANTS
    BillingTypeOK
    ShowsNewest
PROPERTIES
    Converges
\* Stripe sends a bounded number of events.
CHECK_DEADLOCK FALSE
