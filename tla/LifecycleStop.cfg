CONSTANTS
    Auth = TRUE
    Cfgs <- MCCfgs
    Orders <- MCOrders
    MaxActs = 1
    MaxFaults = 0
SPECIFICATION Spec
PROPERTY OnlyLockIsRemoved
CHECK_DEADLOCK FALSE
