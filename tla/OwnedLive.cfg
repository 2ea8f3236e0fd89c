CONSTANTS
    Policies <- MCPolicies
    Others <- MCMLflow
    MaxUID = 2
    MaxEvents = 2
SPECIFICATION FairSpec
PROPERTIES
    EventuallyProvided
    NothingOutlives
CHECK_DEADLOCK FALSE
