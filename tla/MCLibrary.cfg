SPECIFICATION MCSpec
CONSTANTS
    Narrow = 5
    Wide = 7
    FltMax = 8
    Json <- MCJson
    Schema <- MCSchema
    Enums <- MCEnums
    Sayings <- MCSayings
    Requests <- MCRequests
    Results <- MCResults
    Goals <- MCGoals
    WireArgs <- MCWireArgs
    ValueArgs <- MCValueArgs
    Servant = "nbp"
    Visitor = "wallknob"
    Placements <- MCPlacements
    Directories <- MCDirectories
    OwnFiles <- MCOwnFiles
    Heartbeats = {TRUE, FALSE}
    Null = Null
    NotString = NotString
INVARIANTS
    SentMeansWhatIsAsked
    ShownIsReplied
    RemctlTellsTruth
    RoundTrip
    ClientsReachServers
CHECK_DEADLOCK FALSE
