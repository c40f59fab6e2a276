CONSTANTS
    n1 = n1
    n2 = n2
    admin = admin
    none = none
    cut = cut
    Nodes <- TwoNodes
    Admins <- OneAdmin
    Stores <- S3Only
    None <- none
    Cut <- cut
    Period = 2
    PageSize = 3
    MaxSecond = 4
    MaxReads = 2
    MaxElections = 0
    MaxFaults = 0
SPECIFICATION Spec
SYMMETRY Symmetry
INVARIANTS
    ListNewestFirst
