CONSTANTS
    n1 = n1
    n2 = n2
    n3 = n3
    none = none
    Nodes <- MCTwo
    None <- none
    Size = 1
    TokenStart <- AnyToken
    MaxErrors = 1
    MaxLapses = 1
    MaxEvictions = 1
    MaxExpiries = 1
    MaxLosses = 1
SPECIFICATION FairSpec
INVARIANTS
    TypeOK
    RefreshKeepsCopies
    RefreshKeepsQuorum
    InServiceIsVoter
    DepartureDecided
PROPERTIES
    Departs
    EntersService
