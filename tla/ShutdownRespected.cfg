CONSTANTS
    vm1 = vm1
    vm2 = vm2
    NoInstance = NoInstance
    Instances <- OneInstance
    NoProvider = {}
    MaxEvents = 3
    MaxCommands = 0
    MaxPending = 4
SPECIFICATION Spec
PROPERTY ShutdownRespected
CHECK_DEADLOCK FALSE
