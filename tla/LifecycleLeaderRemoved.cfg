CONSTANTS
    n1 = n1
    n2 = n2
    n3 = n3
    none = none
    Nodes <- MCThree
    None <- none
    Size = 2
    TokenStart <- Good
    MaxErrors = 0
    MaxLapses = 0
    MaxEvictions = 2
    MaxExpiries = 0
    MaxLosses = 0
SPECIFICATION Spec
SYMMETRY Symmetry
PROPERTIES
    RemovalByStayer
