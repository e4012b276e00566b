SPECIFICATION FairSpec

CONSTANTS
    Lengths = {1, 2}
    BufSize = 3
    Torn = TRUE
    Faults = {"pipeline", "bridge", "remove", "publish"}
    MaxLines = 3
    MaxFaults = 2

INVARIANTS
    TypeOK
    PublishedInOrder
    NothingSkipped

PROPERTIES
    AppendedLinesArePublished

CHECK_DEADLOCK FALSE
