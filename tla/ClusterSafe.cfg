SPECIFICATION FleetSpec
CONSTANTS
    Moving = {"PoolDrain", "K3sUpgrade", "LostNode", "AppRollout"}
    Nodes = 3
    MinNodes = 1
    SpareNodes = 1
    MaxEmptyNodesRemoved = 2
    Happens = {"lost"}
    Worker = {1, 2}
    MaxRelease = 2
    Requests = {0, 2}
    UpgradeHappens = {}
    Machine = {1, 2}
    Instance = {1, 2}
    VolumeKinds = {"single", "replicated"}
    LostHappens = {"midway", "return"}
    MaxVersion = 2
    Broken = {2}
    MaxFailures = 1
    FailureThreshold = 1
    RolloutHappens = {}
INVARIANTS
    TypeOK
    UpgradeSafe
    RolloutSafe
PROPERTIES
    AdminCordonKept
    OnlyEmptyDeleted
    LostSafe
CHECK_DEADLOCK FALSE
