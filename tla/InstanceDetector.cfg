CONSTANTS
    vm1 = vm1
    vm2 = vm2
    NoInstance = NoInstance
    Instances <- TwoInstances
    NoProvider = {vm2}
    MaxEvents = 1
    MaxCommands = 2
    MaxPending = 3
SPECIFICATION FairSpec
INVARIANTS TypeOK GetNeverBlocks
PROPERTIES WatchListImplemented RecentShutdownRespected TableCatchesUp
CHECK_DEADLOCK FALSE
