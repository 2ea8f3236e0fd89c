CONSTANTS
    Policies <- MCPolicy
    Others <- MCOthers
    MaxUID = 2
    MaxEvents = 2
SPECIFICATION Spec
INVARIANTS
    TypeOK
    OneIncarnation
    UnlockedBehindPolicies
PROPERTIES
    ForeignPolicyUntouched
CHECK_DEADLOCK FALSE
