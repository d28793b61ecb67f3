SPECIFICATION Spec
CONSTANTS
    admin = admin
    pm = pm
    dev = dev
    p1 = p1
    p2 = p2
    t1 = t1
    t2 = t2
    s1 = s1
    s2 = s2
    s3 = s3
    j1 = j1
    NoUser = NoUser
    NoProject = NoProject
    Users <- MCMembers
    RoleOf <- MCMemberRoleOf
    Projects = {p1, p2}
    Tasks = {t1, t2}
    Sockets = {s1}
    Joins = {j1}
    MaxInbox = 1
SYMMETRY MCSymmetry
INVARIANTS
    RoomsFollowPage
