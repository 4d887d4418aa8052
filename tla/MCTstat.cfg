SPECIFICATION Spec
CONSTANTS
    FanBefore = 2
    FanAfter = 3
    ShutoffDelay = 5
    Retry = 1
    MaxLag = 1
    Temps <- MCTemps
    Goals <- MCGoals
    FanModes = {TRUE, FALSE}
    MayCrash = TRUE
    Clients <- MCClients
    Me = "tstat"
INVARIANTS
    TypeOK
    TimersMatchMode
    NoLostWakeup
    CompressorNeedsFan
