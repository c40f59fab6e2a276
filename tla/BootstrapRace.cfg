CONSTANTS
    n1 = n1
    n2 = n2
    n3 = n3
    none = none
    empty = empty
    gone = gone
    Nodes <- MCTwo
    None <- none
    Empty <- empty
    Gone <- gone
    Platforms <- Both
    KeepRoot = FALSE
    ClaimStart <- FreshOrLeftover
    MaterialStart <- FreshOrLeftover
    TokenStart <- FreshOrLeftover
    MaxFailures = 2
    MaxTakeovers = 1
    MaxExpiries = 1
    MaxLosses = 1
    MaxTears = 1
SPECIFICATION Spec
SYMMETRY Symmetry
INVARIANTS
    TypeOK
    SoleCluster
    FinishedMeansConfigured
    RevokedAfterSaved
PROPERTIES
    ClaimStays
    KeyMaterialKept
