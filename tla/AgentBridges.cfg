SPECIFICATION BothSpec
CONSTANTS
    Handlers = {h1, h2}
    MaxRetries = 1
    Copies = 1
    MaxFaults = 1
    Chunks = 2
    MaxErrors = 1
    MaxRevokes = 1
INVARIANTS
    EventIsKept
    OneIngestionAtATime
    IndexedIsServed
PROPERTIES
    LeaseIsItsHolders
    StoppedRunsAgainOnlyAfterFault
    EventEnds
CHECK_DEADLOCK FALSE
