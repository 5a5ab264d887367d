SPECIFICATION ResyncSpec
CONSTANTS
    None = None
    MaxUid = 1
    MaxGen = 1
    MaxSource = 1
    MaxLag = 1
    MaxEnv = 2
    MaxFaults = 0
    Kind <- SecretOnly
    GoodServers = {1}
    Modes = {"mce", "secret"}
    EnvEvents = {"resync", "hub"}
PROPERTIES AdapterFollowsTargets
CHECK_DEADLOCK FALSE
