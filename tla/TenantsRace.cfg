CONSTANTS
    p1 = p1
    p2 = p2
    e1 = e1
    e2 = e2
    x = x
    y = y
    none = none
    implicit = implicit
    Pipelines <- TwoPipelines
    Envs <- TwoEnvs
    Ids <- OneId
    None <- none
    Implicit <- implicit
    SharedModes <- Both
    MaxRoles = 2
    MaxCommands = 3
    MaxLogins = 2
    MaxFailures = 1
SPECIFICATION Spec
SYMMETRY Symmetry
INVARIANTS
    TypeOK
    Isolation
    Onboarded
    Offboarded
    PurgeIsFinal
