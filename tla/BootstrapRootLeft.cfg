CONSTANTS
    n1 = n1
    n2 = n2
    n3 = n3
    none = none
    empty = empty
    gone = gone
    Nodes <- MCTwo
    None <- none
    Empty <- empty
    Gone <- gone
    Platforms <- AwsOnly
    KeepRoot = FALSE
    ClaimStart <- Fresh
    MaterialStart <- Fresh
    TokenStart <- Fresh
    MaxFailures = 1
    MaxTakeovers = 0
    MaxExpiries = 0
    MaxLosses = 0
    MaxTears = 0
SPECIFICATION Spec
SYMMETRY Symmetry
INVARIANTS
    RootRevokedWhenFinished
