SPECIFICATION Spec
CONSTANTS
    Users = {u1, u2}
    NoUser = NoUser
    Requests = {q1, q2}
    MaxAge = 1
INVARIANTS
    TypeOK
    TokenIsUsers
    SessionFollowsCookie
    ExpiryIsHidden
    SocketComesBack
PROPERTIES
    RequestEnds
CHECK_DEADLOCK FALSE
