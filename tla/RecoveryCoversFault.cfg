CONSTANTS
    vm1 = vm1
    vm2 = vm2
    NoInstance = NoInstance
    Instances <- OneInstance
    LayerStrings <- PowerOnly
    IpmiConfigs <- FullConfig
    MaxWorldChanges = 4
SPECIFICATION Spec
INVARIANT RecoveryCoversFault
CHECK_DEADLOCK FALSE
