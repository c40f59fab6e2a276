CONSTANTS
    t1 = t1
    t2 = t2
    a1 = a1
    a2 = a2
    Terminals <- Two
    Accounts <- Stores
    AccountOf <- Apart
    Required = 2
    Shares = 3
    MaxAttempts = 4
    MaxRefusals = 2
    MaxFaults = 1
SPECIFICATION Spec
INVARIANTS
    TypeOK
    TokenIsOwn
    NoStrayRoot
    AttemptHasOwner
PROPERTIES
    ErasedIsRevoked
