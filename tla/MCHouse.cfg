SPECIFICATION FairSpec
CONSTANTS
    FanBefore = 1
    FanAfter = 2
    ShutoffDelay = 3
    Retry = 1
    MaxLag = 1
    Temps <- MCTemps
    Goals <- MCGoals
    FanModes = {TRUE, FALSE}
    MayCrash = FALSE
    Forever = 3
    Batches <- MCBatches
    Tolerance = 0
    Wired <- HeatPump
    GpioFails = FALSE
    GpioMayCrash = FALSE
    CliBatches <- NoBatches
    Fets <- HeatPump
    Installed <- HeatPump
    MaxReports = 1
    SendFails = FALSE
INVARIANTS
    CompressorFollowsMode
PROPERTIES
    RefusedOnlyForRest
    WantIsServed
    FanStops
