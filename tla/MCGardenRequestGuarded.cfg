SPECIFICATION Spec
CONSTANTS
    Admins = {u1}
    Inspectors = {i1}
    Assignments = {a1}
    Crops = {c1}
    None = None
PROPERTIES
    StatusGuarded
CHECK_DEADLOCK FALSE
