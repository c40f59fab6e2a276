CONSTANTS
    n1 = n1
    n2 = n2
    n3 = n3
    none = none
    empty = empty
    gone = gone
    Nodes <- MCTwo
    None <- none
    Empty <- empty
    Gone <- gone
    Platforms <- Both
    KeepRoot = FALSE
    ClaimStart <- Fresh
    MaterialStart <- FreshOrLeftover
    TokenStart <- FreshOrLeftover
    MaxFailures = 2
    MaxTakeovers = 0
    MaxExpiries = 1
    MaxLosses = 1
    MaxTears = 0
SPECIFICATION FairSpec
PROPERTIES
    Completes
    Recovers
    ImplementsClusterInit
