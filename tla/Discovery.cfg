SPECIFICATION Spec
CONSTANTS
    None = None
    Clusters = {c1}
    Urls = {"u1"}
    Imports <- FleetImports
    HubConfigs <- AllHubs
    Proxies <- MceProxies
    MaxVersion = 6
    MaxLag = 2
    MaxEvents = 2
    EnvEvents = {"create", "edit", "unlabel", "delete", "cluster", "hub", "foreign", "upgrade", "proxy"}
INVARIANTS TypeOK WorkHasAccount
PROPERTIES ManualSpecStands KeepsRegistrations EnrolmentSettles DepartureSettles SwitchSettles
CHECK_DEADLOCK FALSE
