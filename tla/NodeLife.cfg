SPECIFICATION Spec
CONSTANTS
    Machine = {m1, m2, m3}
    NoMachine = NoMachine
    MaxAttempt = 1
    Lag = 0
    Firewall = TRUE
    Ephemeral = TRUE
    ShowsLate = FALSE
    LostInResume = FALSE
    ClusterMayGo = FALSE
CHECK_DEADLOCK FALSE
SYMMETRY MachineSymmetry
INVARIANTS
    TypeOK
    AtMostOneKept
    Accounted
    JoinedThroughFirewall
PROPERTIES
    LeavesNothingBehind
    ImplementsLease
