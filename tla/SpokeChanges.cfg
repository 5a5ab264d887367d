SPECIFICATION ResyncSpec
CONSTANTS
    None = None
    MaxUid = 1
    MaxGen = 2
    MaxSource = 2
    MaxLag = 1
    MaxEnv = 1
    MaxFaults = 0
    Kind <- SecretThenMce
    GoodServers = {1}
    Modes = {"none", "terminating", "secret", "mce"}
    EnvEvents = {"delete", "edit", "hub", "spoke", "source", "rotate", "resync"}
INVARIANTS ReadyIsEarned
PROPERTIES GrantsUnderFinalizer ManagedSettles
CHECK_DEADLOCK FALSE
