CONSTANTS
    vm1 = vm1
    vm2 = vm2
    NoInstance = NoInstance
    Instances <- OneInstance
    LayerStrings <- SomeLayers
    IpmiConfigs <- FullConfig
    MaxWorldChanges = 2
SPECIFICATION FairSpec
PROPERTIES PermanentHostFaultRecovered PermanentInstanceFaultRecovered MergedLayersRestored
CHECK_DEADLOCK FALSE
