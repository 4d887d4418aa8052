SPECIFICATION MCSpec
CONSTANTS
    c1 = c1
    Crc <- crc16ccitt
    Messages <- MCMessages
    Noise <- MCNoise
    Clients <- MCClients
    Fets <- MCFets
    Installed <- MCInstalled
    ShutoffDelay = 2
    Forever = 2
    Batches <- MCBatches
    MaxReports = 2
    SendFails = TRUE
    MaxFrames = 2
    MaxFaults = 1
INVARIANTS
    TypeOK
    BeliefMatchesBackplate
    SubscriberKnowsFets
    NothingMadeUp
    NoFrameLost
    CleanLineDelivers
PROPERTIES
    RestBeforeConnect
    LoopEnds
CHECK_DEADLOCK FALSE
