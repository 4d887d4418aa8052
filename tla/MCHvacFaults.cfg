SPECIFICATION FairFaults
CONSTANTS
    FanBefore = 0
    FanAfter = 1
    ShutoffDelay = 2
    Retry = 1
    MaxLag = 1
    Temps <- CoolTemps
    Goals <- MCGoals
    FanModes = {FALSE}
    MayCrash = TRUE
    Tolerance = 0
    Forever = 2
    Wired <- HeatPump
    Batches <- MCBatches
    GpioFails = FALSE
    GpioMayCrash = TRUE
    CliBatches <- MeddlingBatches
INVARIANTS
    RunsTheWantedWay
PROPERTIES
    ImplementsTstat
    ImplementsGpio
    PlanCompletes
