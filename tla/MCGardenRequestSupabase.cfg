SPECIFICATION Spec
CONSTANTS
    Admins = {u1, u2}
    Crops = {c1}
SYMMETRY Symmetry
CONSTRAINT Bounds
INVARIANTS
    TypeOK
    OneApproval
    DecisionsAgree
    StagesAgree
    ClosesWorkflow
PROPERTIES
    PipelineMoves
    FollowsLifecycle
\* A rejected or cancelled request without a report has nothing left to do.
CHECK_DEADLOCK FALSE
