SPECIFICATION Spec
CONSTANTS
    Machine = {m1, m2}
    NoMachine = NoMachine
    MaxAttempt = 1
    Lag = 1
    Firewall = FALSE
    Ephemeral = TRUE
    ShowsLate = FALSE
    LostInResume = FALSE
    ClusterMayGo = FALSE
CHECK_DEADLOCK FALSE
SYMMETRY MachineSymmetry
PROPERTIES
    LetGoAfterItsMachine
