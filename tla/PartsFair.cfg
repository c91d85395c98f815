SPECIFICATION FairSpec
CONSTANTS
    Moving = {"LostNode", "AppRollout", "DatabaseBackups", "ServiceAbuse"}
    Machine = {1, 2}
    Instance = {1, 2}
    VolumeKinds = {"single"}
    LostHappens = {}
    MaxVersion = 2
    Broken = {1}
    MaxFailures = 1
    FailureThreshold = 0
    RolloutHappens = {}
    BackupKinds = {"Continuous"}
    MaxArchives = 2
    MaxEdits = 2
    BackupHappens = {"interrupted"}
    Service = {s1}
    Window = 1
    MaxGap = 1
    Exemption = 1
    MaxMinute = 2
    MaxChanges = 1
    AbuseHappens = {}
PROPERTIES
    DatabasesWhole
    RolloutsEnd
    DatabasesGo
    AbuseFollows
CHECK_DEADLOCK FALSE
