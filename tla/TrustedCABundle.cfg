CONSTANTS
    NB = {n1, n2}
    Certs = {c1}
    MaxEvents = 3
SPECIFICATION Spec
CHECK_DEADLOCK FALSE
INVARIANTS
    TypeOK
    StartedWithBundle
PROPERTIES
    BundleCurrent
    NoDanglingMount
