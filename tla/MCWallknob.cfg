SPECIFICATION FairSpec
CONSTANTS
    Goals <- MCGoals
    Asked <- MCAsked
    Temps = {20}
    FirstUnits = 0
    MaxPast = 1
    Steps = {1}
    MaxTurns = 2
    MaxOthers = 1
INVARIANTS
    TypeOK
    ReadsOwnWrites
    ScreenSettles
PROPERTIES
    AdjustmentEnds
CHECK_DEADLOCK FALSE
