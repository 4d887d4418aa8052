SPECIFICATION Spec
CONSTANTS
    c1 = c1
    Clients <- MCClients
    Wired <- HeatPump
    ShutoffDelay = 2
    Tolerance = 1
    Forever = 2
    Batches <- HeatPumpBatches
    GpioFails = TRUE
INVARIANTS
    TypeOK
    FanRunsWithHeat
    AckedCommandsHold
    SubscriberKnowsLines
PROPERTIES
    KeepsRelaysSafe
