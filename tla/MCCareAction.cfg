SPECIFICATION LiveSpec
CONSTANTS
    Calls = {c1, c2, c3}
    Extras = {x1}
    None = None
INVARIANTS
    TypeOK
    NextTaskExists
PROPERTIES
    StaysCaredFor
\* The calls are a bounded number.
CHECK_DEADLOCK FALSE
