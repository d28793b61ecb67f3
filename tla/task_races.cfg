SPECIFICATION Spec
CONSTANTS
    pm = pm
    dev = dev
    other = other
    p1 = p1
    t1 = t1
    r1 = r1
    r2 = r2
    s1 = s1
    s2 = s2
    NoUser = NoUser
    Users <- MCTwoUsers
    RoleOf <- MCTwoRoleOf
    Projects = {p1}
    PmOf <- MCPmOf
    Tasks = {t1}
    Requests = {r1, r2}
    Sweeps = {s1}
    MaxLog = 2
    MaxFaults = 1
SYMMETRY MCSymmetry
INVARIANTS
    TypeOK
    StatusIsLastLogged
    BroadcastsAccountForRows
    NoticesAccountForEvents
CHECK_DEADLOCK FALSE
