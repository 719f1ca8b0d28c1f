SPECIFICATION FairSpec
CONSTANTS
    Instance = {i1}
    KeepAlive = 2
    Delay = 2
    UnhealthyAfter = 2
    DeregisterAfter = 6
    DeleteAfter = 8
    Lossy = TRUE
    ReusesId = TRUE
INVARIANTS
    TimelyIsKept
    ShutdownIsFinal
PROPERTIES
    DeadIsForgotten
    RunningIsHealed
