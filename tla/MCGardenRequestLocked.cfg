SPECIFICATION Spec
CONSTANTS
    Admins = {u1}
    Inspectors = {i1}
    Assignments = {a1}
    Crops = {c1}
    None = None
CONSTRAINT Guarded
PROPERTIES
    PendingAssessmentLocked
CHECK_DEADLOCK FALSE
