CONSTANTS
    n1 = n1
    n2 = n2
    Nodes <- TwoNodes
    Kinds <- TwoKinds
    Period = 5
    SecretStart <- AnyStart
SPECIFICATION FairSpec
INVARIANTS
    TokenLasts
PROPERTIES
    ServicesComeUp
