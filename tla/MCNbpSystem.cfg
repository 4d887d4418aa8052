SPECIFICATION FairSpec
CONSTANTS
    FanBefore = 1
    FanAfter = 2
    ShutoffDelay = 4
    Retry = 1
    MaxLag = 2
    Temps <- CoolTemps
    Goals <- MCGoals
    FanModes = {FALSE}
    MayCrash = FALSE
    Fets <- HeatPump
    Installed <- HeatPump
    Forever = 4
    Batches <- MCBatches
    MaxReports = 1
    SendFails = FALSE
PROPERTIES
    StraightToCompressor
