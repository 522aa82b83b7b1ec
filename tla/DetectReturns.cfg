CONSTANTS
    vm1 = vm1
    vm2 = vm2
    NoInstance = NoInstance
    Instances <- OneInstance
    LayerStrings <- AllLayers
    IpmiConfigs <- FullConfig
    MaxWorldChanges = 2
SPECIFICATION FairSpec
PROPERTY DetectReturns
CHECK_DEADLOCK FALSE
