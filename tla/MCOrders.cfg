SPECIFICATION OrdersSpec
CONSTANTS
    OrderIds = {o1}
    Admins = {u1, u2, u3}
    NoOrder = NoOrder
SYMMETRY Symmetry
INVARIANTS
    OrdersTypeOK
    OneMailPerStatus
PROPERTIES
    OnlyTableMoves
\* A delivered or cancelled order has nothing left to do.
CHECK_DEADLOCK FALSE
