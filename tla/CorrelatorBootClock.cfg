SPECIFICATION Spec
CONSTANTS
    n1 = n1
    n2 = n2
    NoName = NoName
    Replicas = {"agg"}
    Keys = {"scan"}
    Nodes = {n1, n2}
    Window = 2
    ClockError <- BootClocks
    Untimed = {}
    MaxLag = 6
    StartWall = 8
    MaxAlerts = 4
    LastArrival = 13
    MaxWall = 14
PROPERTIES
    ArrivalsWithinWindowShareIncident
CHECK_DEADLOCK FALSE
