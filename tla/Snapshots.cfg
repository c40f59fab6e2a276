CONSTANTS
    n1 = n1
    n2 = n2
    admin = admin
    none = none
    cut = cut
    Nodes <- TwoNodes
    Admins <- OneAdmin
    Stores <- BothStores
    None <- none
    Cut <- cut
    Period = 2
    PageSize = 5
    MaxSecond = 3
    MaxReads = 2
    MaxElections = 1
    MaxFaults = 1
SPECIFICATION Spec
SYMMETRY Symmetry
INVARIANTS
    TypeOK
    ReportedVerifies
    OneSnapshotPerTick
    RestoredWhole
    NewestListed
