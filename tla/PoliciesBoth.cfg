CONSTANTS
    Envs <- TwoEnvs
    Ids <- TwoIds
    SharedModes <- Both
SPECIFICATION Spec
INVARIANTS
    SecretsOfOneTenant
    RolesPinned
    BrokersInEnv
    PlatformUnchanged
    CommandsPermitted
    TemplatesPass
