SPECIFICATION Spec

CONSTANTS
    h1 = h1
    h2 = h2
    h3 = h3
    h4 = h4
    h5 = h5
    h6 = h6
    Hosts = {h1, h2, h3, h4, h5, h6}
    Rows = {"r1"}
    Columns = {1, 2}
    Hash <- PairHash
    Threshold = 20
    MaxHops = 1
    WindowNs = 3
    SccEvery = 1
    Word = 64
    Links <- PairLinks
    Delays = {0}
    Unstamped = FALSE
    MaxClock = 1
    MaxStep = 0
    MaxEvents = 9

PROPERTIES
    NewSccsAreAlerted
