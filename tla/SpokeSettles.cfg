SPECIFICATION Spec
CONSTANTS
    None = None
    MaxUid = 1
    MaxGen = 1
    MaxSource = 1
    MaxLag = 1
    MaxEnv = 1
    MaxFaults = 1
    Kind <- SecretOnly
    GoodServers = {1}
    Modes = {"none", "secret"}
    EnvEvents = {"delete", "hub"}
INVARIANTS NoSilentOrphan
PROPERTIES DeleteCompletes UnmanagedSettles
CHECK_DEADLOCK FALSE
