SPECIFICATION FairSpec
CONSTANTS
    pm = pm
    dev = dev
    other = other
    p1 = p1
    t1 = t1
    r1 = r1
    r2 = r2
    s1 = s1
    s2 = s2
    NoUser = NoUser
    Users <- MCUsers
    RoleOf <- MCRoleOf
    Projects = {p1}
    PmOf <- MCPmOf
    Tasks = {t1}
    Requests = {r1}
    Sweeps = {s1, s2}
    MaxLog = 3
    MaxFaults = 1
INVARIANTS
    HistoryIsLegal
    OverdueIsReal
    FlaggedIsNoticed
    OverdueNoticesBounded
PROPERTIES
    ImplementsBoard
    OverdueHeals
    OverdueIsNoticed
CHECK_DEADLOCK FALSE
