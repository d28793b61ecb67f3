SPECIFICATION DashboardSpec
CONSTANTS
    admin = admin
    pm = pm
    dev = dev
    p1 = p1
    p2 = p2
    t1 = t1
    t2 = t2
    s1 = s1
    s2 = s2
    s3 = s3
    j1 = j1
    NoUser = NoUser
    NoProject = NoProject
    Users <- MCUsers
    RoleOf <- MCRoleOf
    Projects = {p1}
    Tasks = {t1}
    Sockets = {s1, s2}
    Joins = {j1}
    MaxInbox = 1
    tab = s1
    TabProjects = {}
    MaxPushes = 2
INVARIANTS
    TypeOK
    RoomsAreEntitled
    LiveMatchesFeed
    ChecksAgree
    PresenceIsExact
    DashboardShowsOnline
