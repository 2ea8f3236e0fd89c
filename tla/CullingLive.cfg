CONSTANTS
    CULL_IDLE_TIME = 1
    IDLENESS_CHECK_PERIOD = 1
SPECIFICATION FairSpec
PROPERTIES
    IdleNotebookCulled
    StoppedNotebookForgotten
