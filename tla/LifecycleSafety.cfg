CONSTANTS
    Auth = TRUE
    Cfgs <- MCCfgs
    Orders <- MCOrders
    MaxActs = 2
    MaxFaults = 1
SPECIFICATION Spec
INVARIANTS
    TypeOK
    PodOnlyAfterPreparation
PROPERTIES
    UntouchedPodKeepsRunning
    RunningTemplateHeld
    StopSticks
CHECK_DEADLOCK FALSE
VIEW UpToVersions
