SPECIFICATION FairSpec
CONSTANTS
    Threads = {"t1", "t2"}
    MaxEntries = 1
    RingSize = 2
    MaxConns = 4
    MaxRestarts = 1
INVARIANTS
    TypeOK
    EventsMatchConnection
    EntriesAreAccountedFor
PROPERTIES
    ConnectionsArePrinted
CHECK_DEADLOCK FALSE
