SPECIFICATION Spec

CONSTANTS
    h1 = h1
    h2 = h2
    h3 = h3
    h4 = h4
    h5 = h5
    h6 = h6
    Hosts = {h1, h2, h3}
    Rows = {"r1", "r2"}
    Columns = {1, 2}
    Hash <- MCHash
    Threshold = 1
    MaxHops = 1
    WindowNs = 3
    SccEvery = 2
    Word = 64
    Links <- MCLinks
    Delays = {0, 1, 4}
    Unstamped = TRUE
    MaxClock = 12
    MaxStep = 4
    MaxEvents = 5

INVARIANTS
    TypeOK
    NeverUnderestimates
    ScansAlertedOnce

PROPERTIES
    WindowsEndOnTime
