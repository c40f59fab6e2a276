CONSTANTS
    t1 = t1
    t2 = t2
    a1 = a1
    a2 = a2
    Terminals <- One
    Accounts <- Store1
    AccountOf <- Alone
    Required = 2
    Shares = 3
    MaxAttempts = 2
    MaxRefusals = 1
    MaxFaults = 0
SPECIFICATION Spec
PROPERTIES
    SavedRootKept
