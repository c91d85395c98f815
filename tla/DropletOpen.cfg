SPECIFICATION DriversSpec
CONSTANTS
    Clouds = {"digitalocean-named"}
    Lives = 2
    MaxMachines = 3
    DriverHappens = {}
INVARIANTS
    ReadyIsGuarded
CHECK_DEADLOCK FALSE
