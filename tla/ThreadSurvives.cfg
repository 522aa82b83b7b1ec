CONSTANTS
    vm1 = vm1
    vm2 = vm2
    NoInstance = NoInstance
    Instances <- OneInstance
    NoProvider = {}
    MaxEvents = 2
    MaxCommands = 1
    MaxPending = 4
SPECIFICATION Spec
INVARIANT ThreadSurvives
CHECK_DEADLOCK FALSE
