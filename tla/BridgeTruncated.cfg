SPECIFICATION FairSpec

CONSTANTS
    Lengths = {1, 2}
    BufSize = 3
    Torn = FALSE
    Faults = {"pipeline"}
    MaxLines = 2
    MaxFaults = 1

PROPERTIES
    TruncationReopens

