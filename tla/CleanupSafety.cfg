CONSTANTS
    NB = {n1, n2}
    Migrated = {n1}
    MaxEvents = 3
SPECIFICATION Spec
INVARIANTS
    TypeOK
    RouteHasOwner
    RouteHasGrant
    BindingHasOwner
    ClientHasOwner
CHECK_DEADLOCK FALSE
