CONSTANTS
    Auth = TRUE
    Cfgs <- MCCfgs
    Orders <- MCOrders
    MaxActs = 1
    MaxFaults = 1
SPECIFICATION FairSpec
PROPERTIES
    EventuallySettled
    ImplementsWorkbench
CHECK_DEADLOCK FALSE
