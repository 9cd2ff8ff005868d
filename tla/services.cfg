SPECIFICATION FairSpec
CONSTANTS
    Component = {c1}
    AlwaysOn = {c1}
    Vital = {c1}
    MaxInst = 2
    Window = 1
    Threshold = 2
    BackoffMin = 1
    BackoffMax = 2
    Faulty = {"start", "stop", "caller"}
INVARIANTS OneSupervisor RegistryHolds VitalNeverSilent
PROPERTY StopIsObeyed
CHECK_DEADLOCK FALSE
