SPECIFICATION Spec
CONSTANTS
    None = None
    MaxUid = 1
    MaxGen = 1
    MaxSource = 1
    MaxLag = 2
    MaxEnv = 3
    MaxFaults = 0
    Kind <- SecretOnly
    GoodServers = {1}
    Modes = {"none", "secret"}
    EnvEvents = {"hub", "delete"}
INVARIANTS NoSilentOrphan
CHECK_DEADLOCK FALSE
