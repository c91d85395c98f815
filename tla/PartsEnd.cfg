SPECIFICATION EndsSpec
CONSTANTS
    Moving = {"PoolDrain", "K3sUpgrade", "Webhooks", "SsoSessions", "Builds"}
    Nodes = 2
    MinNodes = 1
    SpareNodes = 0
    MaxEmptyNodesRemoved = 2
    Happens = {"lost", "override"}
    Worker = {1}
    MaxRelease = 2
    Requests = {0, 2}
    UpgradeHappens = {"override"}
    Hook = {h1, h2, h3}
    MaxHooks = 2
    MaxAttempts = 2
    MaxConcurrent = 1
    MaxDeliveries = 2
    HookHappens = {}
    Browser = {1, 2}
    MaxSaying = 2
    SsoHappens = {}
    MaxCommit = 2
PROPERTIES
    NodesLetGo
    DrainsEnd
    DeliveriesEnd
    StaleSessionsEnd
    BuildsEnd
CHECK_DEADLOCK FALSE
