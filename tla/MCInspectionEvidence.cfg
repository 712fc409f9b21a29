SPECIFICATION Spec
CONSTANTS
    i1 = i1
    i2 = i2
    irrigation = irrigation
    Items = {i1, i2}
    Seeded = {i1}
    Categories = {irrigation}
    CategoryOf <- SeededCategory
    Tabs = {t1, t2}
    None = None
SYMMETRY Symmetry
CONSTRAINT TwoSubmissions
INVARIANTS
    TypeOK
PROPERTIES
    EvidenceGate
    SubmittedOnce
    FollowsGate
