SPECIFICATION Spec
CONSTANTS
    None = None
    MaxUid = 2
    MaxGen = 1
    MaxSource = 1
    MaxLag = 2
    MaxEnv = 1
    MaxFaults = 1
    Kind <- SecretOnly
    GoodServers = {1}
    Modes = {"secret"}
    EnvEvents = {"delete"}
INVARIANTS TypeOK ReadyIsEarned StandingOwnerIsLive DeletionNeverStalls
PROPERTIES GrantsUnderFinalizer KeepsRegistration
CHECK_DEADLOCK FALSE
