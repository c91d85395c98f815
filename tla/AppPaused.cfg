SPECIFICATION RolloutFairSpec
CONSTANTS
    MaxVersion = 2
    Broken = {2}
    MaxFailures = 1
    FailureThreshold = 1
    RolloutHappens = {}
PROPERTIES
    ChangedIsTried
CHECK_DEADLOCK FALSE
