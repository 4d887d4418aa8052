SPECIFICATION Spec
CONSTANTS
    FanBefore = 2
    FanAfter = 3
    ShutoffDelay = 5
    Retry = 1
    MaxLag = 1
    Temps <- MCTemps
    Goals <- OneGoal
    FanModes = {TRUE, FALSE}
    MayCrash = FALSE
    Clients <- MCClients
    Me = "tstat"
PROPERTIES
    CancelledFanIsOff
