CONSTANTS
    c1 = c1
    c2 = c2
    n1 = n1
    n2 = n2
    i1 = i1
    i2 = i2
    h1 = h1
    h2 = h2
    ClusterNames <- TwoClusters
    Nodes <- TwoNodes
    Instances <- TwoInstances
    Handlers <- TwoHandlers
    Loader = Loader
    None = None
    Elsewhere = Elsewhere
    MaxObjects = 3
    MaxRequests = 2
    LastOps = {"delete_node"}
    MaxEvents = 1
CONSTRAINT Narrow
SYMMETRY Symmetry
SPECIFICATION Spec
INVARIANTS TypeOK OneOwner CrashLosesNothing TornSaveOnlyLoses ClosedOnlyByTrouble
PROPERTIES SucceedMeansSaved LoadRestores OwnershipImplemented
CHECK_DEADLOCK FALSE
