SPECIFICATION Spec
CONSTANTS
    Machine = {m1, m2}
    NoMachine = NoMachine
    MaxAttempt = 1
    Lag = 0
    Firewall = TRUE
    Ephemeral = FALSE
    ShowsLate = TRUE
    LostInResume = FALSE
    ClusterMayGo = TRUE
CHECK_DEADLOCK FALSE
SYMMETRY MachineSymmetry
PROPERTIES
    DataKeepsItsMachine
