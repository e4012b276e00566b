SPECIFICATION FairStreamSpec
CONSTANTS
    n1 = n1
    n2 = n2
    NoName = NoName
    NoKey = NoKey
    Replicas = {"agg-0", "agg-1"}
    Keys = {"scan"}
    Nodes = {n1, n2}
    Window = 1
    ClockError <- DelayedClocks
    Untimed = {n1, n2, NoName}
    MaxLag = 1
    StartWall = 2
    MaxAlerts = 3
    LastArrival = 3
    MaxWall = 5
    MaxFaults = 1
INVARIANTS
    TypeOK
    StreamTypeOK
    EmissionsMatchIncident
    RowsMergeMessages
    TrackedIncidentsAreStored
PROPERTIES
    NoEarlyRestart
    IncidentsAreReclaimed
CHECK_DEADLOCK FALSE
