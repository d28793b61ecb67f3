SPECIFICATION Spec
CONSTANTS
    PageSize = 2
    MaxShown = 4
    MaxRows = 3
    MayLose = {"broadcast", "fetch", "connection"}
INVARIANTS
    TypeOK
    MissesOnlyBetween
    PagesCover
PROPERTIES
    ImplementsPushedList
CHECK_DEADLOCK FALSE
