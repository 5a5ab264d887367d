SPECIFICATION Spec
CONSTANTS
    None = None
    MaxUid = 1
    MaxGen = 2
    MaxSource = 1
    MaxLag = 1
    MaxEnv = 3
    MaxFaults = 0
    Kind <- SecretTwice
    GoodServers = {2}
    Modes = {"secret"}
    EnvEvents = {"edit", "source", "spoke"}
PROPERTIES ConnectedSettles
CHECK_DEADLOCK FALSE
