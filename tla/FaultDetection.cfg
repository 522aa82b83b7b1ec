CONSTANTS
    vm1 = vm1
    vm2 = vm2
    NoInstance = NoInstance
    Instances <- TwoInstances
    LayerStrings <- SomeLayers
    IpmiConfigs <- AllConfigs
    MaxWorldChanges = 2
SYMMETRY Symmetry
SPECIFICATION Spec
INVARIANTS TypeOK NetworkLayersKept WalkOrdered DiagnosisBracketed DiagnosisExact RecoveryStaysInLevel
CHECK_DEADLOCK FALSE
