SPECIFICATION SensorsSpec
CONSTANTS
    NsPerMs = 2
    MsPerSec = 2
    Interval = 2
    ReqDelay = 1
    Pause = 1
    MaxOps = 2
    MaxSec = 4
    TempDelay = 4
    HumidDelay = 2
    PollInterval = 9
    TempTime = 4
    HumidTime = 2
    MaxLag = 1
INVARIANTS
    TypeOK
    NeverEarly
    SubscriberKnowsReading
PROPERTIES
    OnlyFreshReadings
    MeasurementsFinish
    KeepsReporting
CHECK_DEADLOCK FALSE
