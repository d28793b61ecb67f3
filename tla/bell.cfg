SPECIFICATION Spec
CONSTANTS
    PageSize = 1
    Clicks = {c1, c2}
    MaxNotes = 2
    MayLose = {"push", "fetch", "mark", "connection"}
INVARIANTS
    TypeOK
    NothingHidden
    ReadIsSeen
    NothingMissed
PROPERTIES
    ImplementsPushedList
CHECK_DEADLOCK FALSE
