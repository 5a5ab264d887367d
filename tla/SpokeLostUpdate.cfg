SPECIFICATION Spec
CONSTANTS
    None = None
    MaxUid = 1
    MaxGen = 1
    MaxSource = 1
    MaxLag = 1
    MaxEnv = 0
    MaxFaults = 0
    Kind <- SecretOnly
    GoodServers = {1}
    Modes = {"secret"}
    EnvEvents = {}
PROPERTIES HealthChangesOnlyConnected
CHECK_DEADLOCK FALSE
