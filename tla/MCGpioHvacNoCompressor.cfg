SPECIFICATION Spec
CONSTANTS
    c1 = c1
    Clients <- MCClients
    Wired <- NoCompressor
    ShutoffDelay = 2
    Tolerance = 1
    Forever = 2
    Batches <- NoCompressorBatches
    GpioFails = FALSE
INVARIANTS
    KnownAfterStartup
