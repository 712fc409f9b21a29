SPECIFICATION Spec
CONSTANTS
    Admins = {u1, u2}
    Inspectors = {i1}
    Assignments = {a1, a2}
    Crops = {c1}
    None = None
SYMMETRY Symmetry
CONSTRAINT Bounds
ACTION_CONSTRAINT OneBypass
INVARIANTS
    TypeOK
    StagesAgree
    DecisionsAgree
    OneOpenVisit
PROPERTIES
    AcceptGate
    ActivationGate
    FollowsLifecycle
    FollowsGate
\* A rejected or cancelled request without a report has nothing left to do.
CHECK_DEADLOCK FALSE
