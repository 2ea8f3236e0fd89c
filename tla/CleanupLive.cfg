CONSTANTS
    NB = {n1, n2}
    Migrated = {}
    MaxEvents = 3
SPECIFICATION FairSpec
PROPERTIES
    EventuallyRouted
    GrantRestored
CHECK_DEADLOCK FALSE
