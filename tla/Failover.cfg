CONSTANTS
    n1 = n1
    n2 = n2
    i1 = i1
    i2 = i2
    h1 = h1
    h2 = h2
    Hosts <- TwoHosts
    Instances <- TwoInstances
    Handlers <- TwoHandlers
    None = None
    MaxObjects = 3
    MaxRequests = 1
    MaxMoves = 1
    MaxFaults = 2
CONSTRAINT Narrow
SPECIFICATION OneSide
INVARIANTS TypeOK WatchedWhereRecorded CommandsAlternate ForcedDownBriefly RunsOnce RecoveredMeansSafe
PROPERTIES FailureHandled
CHECK_DEADLOCK FALSE
