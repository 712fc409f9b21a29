SPECIFICATION Spec
CONSTANTS
    Forms <- BoundaryForms
    None = None
INVARIANTS
    TypeOK
    ColumnsNeverScoreLess
PROPERTIES
    BetterSiteNeverWorse
