SPECIFICATION Spec
CONSTANTS
    PageSize = 1
    MaxShown = 2
    MaxRows = 2
    MayLose = {"connection"}
INVARIANTS
    ReconnectedSeesHistory
CHECK_DEADLOCK FALSE
