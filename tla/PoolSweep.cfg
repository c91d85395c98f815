SPECIFICATION FairSpec
CONSTANTS
    Name = {n1}
    Mins = {1}
    Suspends = {FALSE}
    MaxNodes = 1
    MaxScaleUp = 1
    Choices = 2
    FailuresBeforePause = 1
    Autoscalings = {FALSE}
    OrphanDelete = TRUE
    May = {"crash", "fail", "stall", "delete", "retry", "loseAnswer"}
CHECK_DEADLOCK FALSE
INVARIANTS
    TypeOK
PROPERTIES
    OrphansGo
    SweepSparesClaimed
