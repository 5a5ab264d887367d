SPECIFICATION Spec
CONSTANTS
    None = None
    Clusters = {c1}
    Urls = {"u1"}
    Imports <- FleetImports
    HubConfigs <- AllHubs
    Proxies <- MceProxies
    MaxVersion = 6
    MaxLag = 1
    MaxEvents = 2
    EnvEvents = {"edit", "hub"}
PROPERTIES SwitchRevokes
CHECK_DEADLOCK FALSE
