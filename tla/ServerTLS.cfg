CONSTANTS
    Profiles <- MCProfiles
    MaxEvents = 3
SPECIFICATION FairSpec
INVARIANTS TypeOK ManagersAgree NoSilentSubstitution
PROPERTIES NoNeedlessRestart EventuallyCurrent
CHECK_DEADLOCK FALSE
