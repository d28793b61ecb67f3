SPECIFICATION FairSpec
CONSTANTS
    Tasks = {t1}
    Filters = {"all", "TODO"}
    Moves = {m1}
    Posts = {q1}
    Fetches = {l1, l2}
    MaxClock = 2
INVARIANTS
    TypeOK
    ListIsOfUrl
    OwnChangesShown
    RefusalMeansStale
PROPERTIES
    LoadingEnds
CHECK_DEADLOCK FALSE
