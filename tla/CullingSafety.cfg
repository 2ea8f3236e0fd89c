CONSTANTS
    CULL_IDLE_TIME = 2
    IDLENESS_CHECK_PERIOD = 1
SPECIFICATION Spec
INVARIANT TypeOK
PROPERTIES
    ActivityNeverGoesBack
    CulledOnlyIfIdle
    CullerKeepsStops
