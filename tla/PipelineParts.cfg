SPECIFICATION Spec
CONSTANTS
    Hosts = {a, b, c, d}
    NoCall = NoCall
    Limits = {0, 1, 2, 5}
    Sources = {"s1", "s2", "s3", "s4"}
    Rows = {"r1", "r2"}
    Columns = {1, 2}
    Hash <- MCHash
    K = 3
    Threshold = 1
    WindowNs = 2
    Word = 8
    Timestamps = {0, 1, 2, 4}
    MaxEvents = 9
    MaxStream = 8
    Width = 2
    Labels = {1, 2}
    NotANumber = NotANumber
    Unset = Unset
    MaxAlerts = 2
    MaxSections = 3
    Documents <- MCDocuments
    Environments <- MCEnvironments
INVARIANTS
    TarjanFindsSccs
    KosarajuFindsSccs
    FindsNeighbourhood
    AlertsAreNested
    LookupIsLongestMatch
    BracketsFrequency
    LoadsDocument
    RunsWholeChain
    FailuresAreIsolated
    AlertsAsConfigured
SYMMETRY HostSymmetry
CHECK_DEADLOCK FALSE
