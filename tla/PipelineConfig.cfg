CONSTANTS
    NB = {"n1", "n2"}
    Images = {"i1", "i2"}
    Defects = {"unlabelled"}
    MaxUID = 2
    MaxEvents = 1
SPECIFICATION FairSpec
INVARIANTS
    TypeOK
    AdmittedWithMounts
PROPERTIES
    EventuallyUpToDate
    SecretGoesWithDSPA
CHECK_DEADLOCK FALSE
