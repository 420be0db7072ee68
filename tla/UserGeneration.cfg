SPECIFICATION Spec
CONSTANTS
    Configurations <- MCConfigurations
    Hour = 6
    AlarmPeriod = 2
    FinalizeDelay = 1
    StartDelays = {0, 1}
    NumComputeNodes = 2
    NumStorageNodes = 1
INVARIANTS
    UsersOnSchedule
    NothingLeftBehind
    FilesRequestedOnce
PROPERTY
    RunEnds
CHECK_DEADLOCK FALSE
