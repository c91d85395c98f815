SPECIFICATION FairSpec
CONSTANTS
    Machine = {m1}
    NoMachine = NoMachine
    MaxAttempt = 0
    Lag = 0
    Firewall = TRUE
    Ephemeral = FALSE
    ShowsLate = FALSE
    LostInResume = FALSE
    ClusterMayGo = FALSE
CHECK_DEADLOCK FALSE
PROPERTIES
    NodeEnds
