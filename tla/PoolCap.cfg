SPECIFICATION Spec
CONSTANTS
    Name = {n1, n2, n3}
    Mins = {1}
    Suspends = {FALSE}
    MaxNodes = 2
    MaxScaleUp = 2
    Choices = 1
    FailuresBeforePause = 1
    Autoscalings = {FALSE, TRUE}
    OrphanDelete = FALSE
    May = {"crash", "delete"}
CHECK_DEADLOCK FALSE
SYMMETRY NameSymmetry
INVARIANTS
    CapHolds
PROPERTIES
    NeverOvershoots
