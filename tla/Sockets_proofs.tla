---------------------------- MODULE Sockets_proofs ----------------------------
(* What TLAPS proves of Sockets, and with it of Access, for every set of users, *)
(* projects, tasks and sockets, any number of waiting joins and of messages.    *)
EXTENDS Sockets, FiniteSetTheorems, SequenceTheorems, TLAPS

-------------------------------------------------------------------------------
\* Rights.

\* The two tables of Access have their types, and a task is one of a created project.
AccessOK ==
    /\ pmId \in [Created -> Users] /\ Created \subseteq Projects
    /\ task \in [DOMAIN task -> TaskRef] /\ DOMAIN task \subseteq Tasks
    /\ \A t \in DOMAIN task : task[t].project \in Created

\* No project, owner, task or assignment ever goes away.
Grows ==
    /\ Created \subseteq Created'
    /\ \A p \in Created : pmId'[p] = pmId[p]
    /\ DOMAIN task \subseteq DOMAIN task'
    /\ \A t \in DOMAIN task : task'[t] = task[t]

LEMMA AccessNextOK ==
    ASSUME AccessOK, AccessNext
    PROVE  AccessOK' /\ Grows
<1>1. PICK u \in Users, p \in Projects, a \in Users \cup {NoUser} :
        \/ PostProject(u, p, a)
        \/ \E t \in Tasks : PostTask(u, t, p, a)
  BY DEF AccessNext
<1>2. CASE PostProject(u, p, a)
  <2>1. OwnerFor(u, a) \in Users
    BY DEF OwnerFor
  <2>2. /\ p \notin Created
        /\ pmId' = [x \in Created \cup {p} |-> IF x = p THEN OwnerFor(u, a) ELSE pmId[x]]
        /\ task' = task
    BY <1>2 DEF PostProject, CreateProject
  <2>3. Created' = Created \cup {p}
    BY <2>2 DEF Created
  <2>4. pmId' \in [Created' -> Users]
    BY <2>1, <2>2, <2>3 DEF AccessOK
  <2>5. QED  BY <2>2, <2>3, <2>4 DEF AccessOK, Grows
<1>3. ASSUME NEW t \in Tasks, PostTask(u, t, p, a)
      PROVE  AccessOK' /\ Grows
  <2>1. /\ p \in Created /\ t \notin DOMAIN task
        /\ task' = [x \in DOMAIN task \cup {t} |->
                      IF x = t THEN [project |-> p, assignee |-> a] ELSE task[x]]
        /\ pmId' = pmId
    BY <1>3 DEF PostTask, CreateTask, GetProject
  <2>2. DOMAIN task' = DOMAIN task \cup {t} /\ Created' = Created
    BY <2>1 DEF Created
  <2>3. [project |-> p, assignee |-> a] \in TaskRef
    BY DEF TaskRef
  <2>4. task' \in [DOMAIN task' -> TaskRef]
    BY <2>1, <2>2, <2>3 DEF AccessOK
  <2>5. \A x \in DOMAIN task' : task'[x].project \in Created'
    BY <2>1, <2>2 DEF AccessOK
  <2>6. QED  BY <2>1, <2>2, <2>4, <2>5 DEF AccessOK, Grows
<1>4. QED  BY <1>1, <1>2, <1>3

LEMMA AccessSame ==
    ASSUME AccessOK, UNCHANGED accessVars
    PROVE  AccessOK' /\ Grows
  BY DEF AccessOK, Grows, accessVars, Created

\* So whoever could open a project still can, and whoever the room check let in.
LEMMA RightsGrow ==
    ASSUME Grows, NEW u \in Users, NEW p
    PROVE  /\ HasTask(u, p) => HasTask(u, p)'
           /\ GetProject(u, p) => GetProject(u, p)'
           /\ CanAccess(u, p) => CanAccess(u, p)'
<1>1. HasTask(u, p) => HasTask(u, p)'
  BY DEF Grows, HasTask
<1>2. QED  BY <1>1 DEF Grows, GetProject, CanAccess

\* The room check says yes to what the page's fetch would return, and to any
\* project for an admin.
LEMMA RoomCheckIsFetch ==
    ASSUME AccessOK, NEW u \in Users, NEW p
    PROVE  /\ CanAccess(u, p) => RoleOf[u] = "ADMIN" \/ GetProject(u, p)
           /\ p \in Created => (GetProject(u, p) <=> CanAccess(u, p))
<1>1. HasTask(u, p) => p \in Created
  BY DEF HasTask, AccessOK
<1>2. QED  BY <1>1 DEF CanAccess, GetProject

LEMMA ChecksAgreeByType ==
    AccessOK => ChecksAgree
<1> SUFFICES ASSUME AccessOK, NEW u \in Users
             PROVE  /\ \A p \in Created : GetProject(u, p) <=> CanAccess(u, p)
                    /\ \A t \in DOMAIN task :
                         /\ MayMove(u, t) <=> t \in Scoped(u)
                         /\ MayMove(u, t) <=> t \in ListTasks(u, task[t].project)
                    /\ \A p \in ListProjects(u) : GetProject(u, p)
                    /\ Feed(u, NoProject) = Scoped(u)
                    /\ DashboardTasks(u) = Scoped(u)
                    /\ DashboardProjects(u) = ListProjects(u)
  BY DEF ChecksAgree
<1>1. RoleOf[u] \in {"ADMIN", "PM", "DEVELOPER"}
  BY DomainAssumption DEF Roles
<1>2. \A p \in Created : GetProject(u, p) <=> CanAccess(u, p)
  BY RoomCheckIsFetch
<1>3. ASSUME NEW t \in DOMAIN task
      PROVE  /\ MayMove(u, t) <=> t \in Scoped(u)
             /\ MayMove(u, t) <=> t \in ListTasks(u, task[t].project)
  <2>1. MayMove(u, t) <=> t \in Scoped(u)
    BY DEF MayMove, Scoped
  <2>2. MayMove(u, t) => GetProject(u, task[t].project)
    BY <1>1 DEF MayMove, GetProject, HasTask, AccessOK
  <2>3. QED  BY <2>1, <2>2 DEF ListTasks
<1>4. \A p \in ListProjects(u) : GetProject(u, p)
  BY <1>1 DEF ListProjects, Authorized, GetProject
<1>5. DashboardTasks(u) = Scoped(u)
  BY <1>1 DEF DashboardTasks, Scoped
<1>6. DashboardProjects(u) = ListProjects(u)
  BY <1>1 DEF DashboardProjects, ListProjects, Authorized
<1>7. Feed(u, NoProject) = Scoped(u)
  BY DEF Feed, Scoped
<1>8. QED  BY <1>2, <1>3, <1>4, <1>5, <1>6, <1>7
-------------------------------------------------------------------------------
\* Types.

Message == [op : {"join", "leave"}, project : Projects]

\* The rooms of a user, of a role and of a project are never the same.
LEMMA RoomsDiffer ==
    ASSUME NEW u \in Users, NEW v \in Users, NEW p, NEW q
    PROVE  /\ ProjectRoom(p) # RoleRoom(u)
           /\ ProjectRoom(p) # <<"user", u>>
           /\ ProjectRoom(p) # <<"admin-feed">>
           /\ ProjectRoom(p) = ProjectRoom(q) => p = q
           /\ <<"user", u>> # RoleRoom(v)
<1>1. RoleOf[u] \in Roles /\ RoleOf[v] \in Roles
  BY DomainAssumption
<1>2. QED  BY <1>1 DEF ProjectRoom, RoleRoom, Roles

LEMMA RoleRoomIsRoom ==
    ASSUME NEW u \in Users
    PROVE  RoleRoom(u) \in Rooms /\ <<"user", u>> \in Rooms
  BY DEF Rooms

\* A busy slot of checks holds a check of a project.
LEMMA BusySlot ==
    ASSUME TypeOK, NEW s \in Sockets, NEW j \in Joins
    PROVE  /\ checks[s] \in [Joins -> Check \cup {NoCheck}]
           /\ checks[s][j] # NoCheck => checks[s][j] \in Check
           /\ checks[s][j].pc \in {"asked", "allowed"} => checks[s][j] # NoCheck
           /\ NoCheck \notin Check
  BY DEF TypeOK, Check, NoCheck

LEMMA SlotUpdate ==
    ASSUME TypeOK, NEW s \in Sockets, NEW j \in Joins, NEW c \in Check \cup {NoCheck},
           checks' = [checks EXCEPT ![s][j] = c]
    PROVE  /\ checks' \in [Sockets -> [Joins -> Check \cup {NoCheck}]]
           /\ \A x \in Sockets, k \in Joins :
                checks'[x][k] = IF x = s /\ k = j THEN c ELSE checks[x][k]
  BY DEF TypeOK

LEMMA InboxHead ==
    ASSUME TypeOK, NEW s \in Sockets, inbox[s] # <<>>
    PROVE  Head(inbox[s]) \in Message /\ Tail(inbox[s]) \in Seq(Message)
<1>1. inbox[s] \in Seq(Message)
  BY DEF TypeOK, Message
<1>2. QED  BY <1>1, HeadTailProperties

\* What the two handlers that announce emit is a number: only finitely many users
\* were ever entered in the presence map.
PresenceFinite == IsFiniteSet(DOMAIN onlineUsers)

LEMMA AnnounceType ==
    ASSUME NEW joined, NEW online, IsFiniteSet(DOMAIN online), shown \in [Sockets -> Nat]
    PROVE  Announce(joined, online) \in [Sockets -> Nat]
<1>1. Cardinality(DOMAIN online) \in Nat
  BY FS_CardinalityType
<1>2. QED  BY <1>1 DEF Announce

LEMMA TrackedType ==
    ASSUME TypeOK, PresenceFinite, NEW s \in Sockets, NEW u \in Users
    PROVE  LET f == Tracked(s, u) IN
           /\ DOMAIN f \subseteq Users /\ f \in [DOMAIN f -> (SUBSET Sockets) \ {{}}]
           /\ IsFiniteSet(DOMAIN f)
<1>1. DOMAIN Tracked(s, u) = DOMAIN onlineUsers \cup {u}
  BY DEF Tracked
<1>2. IsFiniteSet(DOMAIN onlineUsers \cup {u})
  BY FS_AddElement DEF PresenceFinite
<1>3. \A x \in DOMAIN Tracked(s, u) : Tracked(s, u)[x] \in (SUBSET Sockets) \ {{}}
  BY DEF Tracked, TypeOK
<1>4. Tracked(s, u) \in [DOMAIN Tracked(s, u) -> (SUBSET Sockets) \ {{}}]
  BY <1>3 DEF Tracked
<1>5. QED  BY <1>1, <1>2, <1>4 DEF TypeOK

LEMMA UntrackedType ==
    ASSUME TypeOK, PresenceFinite, NEW s \in Sockets, NEW u \in Users
    PROVE  LET f == Untracked(s, u) IN
           /\ DOMAIN f \subseteq Users /\ f \in [DOMAIN f -> (SUBSET Sockets) \ {{}}]
           /\ IsFiniteSet(DOMAIN f)
<1>1. DOMAIN Untracked(s, u) \subseteq DOMAIN onlineUsers
  BY DEF Untracked
<1>2. IsFiniteSet(DOMAIN Untracked(s, u))
  BY <1>1, FS_Subset DEF PresenceFinite
<1>3. \A x \in DOMAIN Untracked(s, u) : Untracked(s, u)[x] \in (SUBSET Sockets) \ {{}}
  BY DEF Untracked, TypeOK
<1>4. Untracked(s, u) \in [DOMAIN Untracked(s, u) -> (SUBSET Sockets) \ {{}}]
  BY <1>3 DEF Untracked
<1>5. QED  BY <1>1, <1>2, <1>4 DEF TypeOK

Typed == TypeOK /\ PresenceFinite

LEMMA TypeInit == Init => Typed
<1> SUFFICES ASSUME Init PROVE Typed
  OBVIOUS
<1>1. DOMAIN onlineUsers = {} /\ DOMAIN pmId = {} /\ DOMAIN task = {}
  BY DEF Init, AccessInit
<1>2. PresenceFinite
  BY <1>1, FS_EmptySet DEF PresenceFinite
<1>3. TypeOK
  BY <1>1 DEF Init, AccessInit, TypeOK, Created, Free
<1>4. QED  BY <1>2, <1>3 DEF Typed

LEMMA TypedIsAccessOK == TypeOK => AccessOK
  BY DEF TypeOK, AccessOK

\* What a step on the sockets leaves to show when the tables stay.
LEMMA TypeAccess ==
    ASSUME Typed, AccessNext, UNCHANGED <<serverVars, clientVars, strayed>>
    PROVE  Typed'
  BY TypedIsAccessOK, AccessNextOK
     DEF Typed, PresenceFinite, TypeOK, AccessOK, serverVars, clientVars

LEMMA TypeConnect ==
    ASSUME Typed, NEW s \in Sockets, NEW u \in Users, NEW p \in Projects \cup {NoProject},
           NEW mounting \in BOOLEAN, Connect(s, u, p, mounting)
    PROVE  Typed'
<1>1. AccessOK'
  BY TypedIsAccessOK, AccessSame DEF Typed, Connect, accessVars
<1>2. /\ DOMAIN onlineUsers' \subseteq Users
      /\ onlineUsers' \in [DOMAIN onlineUsers' -> (SUBSET Sockets) \ {{}}]
      /\ IsFiniteSet(DOMAIN onlineUsers')
  BY TrackedType DEF Typed, Connect
<1>3. shown' \in [Sockets -> Nat]
  BY <1>2, AnnounceType DEF Typed, TypeOK, Connect
<1>4. rooms' \in [Sockets -> SUBSET Rooms]
  BY RoleRoomIsRoom DEF Typed, TypeOK, Connect
<1>5. mounting => [op |-> "join", project |-> p] \in Message
  BY DEF Connect, Message
<1>6. inbox' \in [Sockets -> Seq(Message)]
  <2>1. inbox \in [Sockets -> Seq(Message)]
    BY DEF Typed, TypeOK, Message
  <2>2. <<>> \in Seq(Message) /\ (mounting => <<[op |-> "join", project |-> p]>> \in Seq(Message))
    BY <1>5
  <2>3. QED  BY <2>1, <2>2 DEF Connect
<1>7. QED
  BY <1>1, <1>2, <1>3, <1>4, <1>6
     DEF Typed, TypeOK, AccessOK, PresenceFinite, Connect, Message

LEMMA TypeHandleJoin ==
    ASSUME Typed, NEW s \in Sockets, NEW j \in Joins, HandleJoin(s, j)
    PROVE  Typed'
<1>1. AccessOK'
  BY TypedIsAccessOK, AccessSame DEF Typed, HandleJoin, accessVars
<1>2. Head(inbox[s]) \in Message /\ Tail(inbox[s]) \in Seq(Message)
  BY InboxHead DEF Typed, HandleJoin
<1>3. [pc |-> "asked", project |-> Head(inbox[s]).project] \in Check
  BY <1>2 DEF Check, Message
<1>4. checks' \in [Sockets -> [Joins -> Check \cup {NoCheck}]]
  BY <1>3, SlotUpdate DEF Typed, HandleJoin
<1>5. inbox' \in [Sockets -> Seq(Message)]
  BY <1>2 DEF Typed, TypeOK, HandleJoin, Message
<1>6. QED
  BY <1>1, <1>4, <1>5 DEF Typed, TypeOK, AccessOK, PresenceFinite, HandleJoin, Message

LEMMA TypeCheckAccess ==
    ASSUME Typed, NEW s \in Sockets, NEW j \in Joins, CheckAccess(s, j)
    PROVE  Typed'
<1>1. AccessOK'
  BY TypedIsAccessOK, AccessSame DEF Typed, CheckAccess, accessVars
<1>2. checks[s][j] \in Check
  BY BusySlot DEF Typed, CheckAccess
<1>3. [checks[s][j] EXCEPT !.pc = "allowed"] \in Check
  BY <1>2 DEF Check
<1>4. checks' \in [Sockets -> [Joins -> Check \cup {NoCheck}]]
  BY <1>3, SlotUpdate DEF Typed, CheckAccess
<1>5. QED
  BY <1>1, <1>4 DEF Typed, TypeOK, AccessOK, PresenceFinite, CheckAccess, clientVars

LEMMA TypeFinishJoin ==
    ASSUME Typed, NEW s \in Sockets, NEW j \in Joins, FinishJoin(s, j)
    PROVE  Typed'
<1>1. AccessOK'
  BY TypedIsAccessOK, AccessSame DEF Typed, FinishJoin, accessVars
<1>2. checks[s][j].project \in Projects
  BY BusySlot DEF Typed, FinishJoin, Check
<1>3. rooms' \in [Sockets -> SUBSET Rooms]
  BY <1>2 DEF Typed, TypeOK, FinishJoin, Rooms
<1>4. checks' \in [Sockets -> [Joins -> Check \cup {NoCheck}]]
  BY SlotUpdate DEF Typed, FinishJoin
<1>5. QED
  BY <1>1, <1>3, <1>4 DEF Typed, TypeOK, AccessOK, PresenceFinite, FinishJoin, clientVars

LEMMA TypeHandleLeave ==
    ASSUME Typed, NEW s \in Sockets, HandleLeave(s)
    PROVE  Typed'
<1>1. AccessOK'
  BY TypedIsAccessOK, AccessSame DEF Typed, HandleLeave, accessVars
<1>2. Head(inbox[s]) \in Message /\ Tail(inbox[s]) \in Seq(Message)
  BY InboxHead DEF Typed, HandleLeave
<1>3. rooms' \in [Sockets -> SUBSET Rooms]
  BY DEF Typed, TypeOK, HandleLeave
<1>4. strayed' \in [Sockets -> SUBSET Projects]
  BY <1>2 DEF Typed, TypeOK, HandleLeave, Message
<1>5. inbox' \in [Sockets -> Seq(Message)]
  BY <1>2 DEF Typed, TypeOK, HandleLeave, Message
<1>6. QED
  BY <1>1, <1>3, <1>4, <1>5 DEF Typed, TypeOK, AccessOK, PresenceFinite, HandleLeave, Message

LEMMA TypeDisconnect ==
    ASSUME Typed, NEW s \in Sockets, Disconnect(s)
    PROVE  Typed'
<1>1. AccessOK'
  BY TypedIsAccessOK, AccessSame DEF Typed, Disconnect, accessVars
<1>2. conn[s] \in Users
  BY DEF Typed, TypeOK, Disconnect
<1>3. /\ DOMAIN onlineUsers' \subseteq Users
      /\ onlineUsers' \in [DOMAIN onlineUsers' -> (SUBSET Sockets) \ {{}}]
      /\ IsFiniteSet(DOMAIN onlineUsers')
  BY <1>2, UntrackedType DEF Typed, Disconnect
<1>4. shown' \in [Sockets -> Nat]
  BY <1>3, AnnounceType DEF Typed, TypeOK, Disconnect
<1>5. checks' \in [Sockets -> [Joins -> Check \cup {NoCheck}]]
  BY DEF Typed, TypeOK, Disconnect, Free
<1>6. inbox' \in [Sockets -> Seq(Message)]
  <2>1. inbox \in [Sockets -> Seq(Message)]
    BY DEF Typed, TypeOK, Message
  <2>2. <<>> \in Seq(Message)
    BY EmptySeq
  <2>3. QED  BY <2>1, <2>2 DEF Disconnect
<1>7. QED
  BY <1>1, <1>3, <1>4, <1>5, <1>6
     DEF Typed, TypeOK, AccessOK, PresenceFinite, Disconnect, Message

LEMMA TypeCrash ==
    ASSUME Typed, Crash
    PROVE  Typed'
<1>1. AccessOK'
  BY TypedIsAccessOK, AccessSame DEF Typed, Crash
<1>2. DOMAIN onlineUsers' = {} /\ IsFiniteSet({})
  BY FS_EmptySet DEF Crash
<1>3. checks' \in [Sockets -> [Joins -> Check \cup {NoCheck}]]
  BY DEF Crash, Free
<1>4. QED
  BY <1>1, <1>2, <1>3 DEF Typed, TypeOK, AccessOK, PresenceFinite, Crash

LEMMA TypeClient ==
    ASSUME Typed, NEW s \in Sockets,
           (\E p \in Projects : OpenPage(s, p)) \/ ClosePage(s) \/ LoseClient(s)
    PROVE  Typed'
<1>1. AccessOK'
  BY TypedIsAccessOK, AccessSame
     DEF Typed, OpenPage, ClosePage, LoseClient, accessVars
<1>2. UNCHANGED <<serverVars, strayed>>
  BY DEF OpenPage, ClosePage, LoseClient
<1>3. inbox \in [Sockets -> Seq(Message)]
  BY DEF Typed, TypeOK, Message
<1>4. viewing[s] # NoProject => [op |-> "leave", project |-> viewing[s]] \in Message
  BY DEF Typed, TypeOK, Message
<1>5. inbox' \in [Sockets -> Seq(Message)] /\ viewing' \in [Sockets -> Projects \cup {NoProject}]
  <2>1. viewing \in [Sockets -> Projects \cup {NoProject}]
    BY DEF Typed, TypeOK
  <2>2. ASSUME NEW p \in Projects, OpenPage(s, p) PROVE inbox' \in [Sockets -> Seq(Message)] /\ viewing' \in [Sockets -> Projects \cup {NoProject}]
    <3>1. [op |-> "join", project |-> p] \in Message
      BY DEF Message
    <3>2. Append(inbox[s], [op |-> "join", project |-> p]) \in Seq(Message)
      BY <1>3, <3>1, AppendProperties
    <3>3. QED  BY <1>3, <2>1, <2>2, <3>2 DEF OpenPage
  <2>3. CASE ClosePage(s)
    <3>1. Append(inbox[s], [op |-> "leave", project |-> viewing[s]]) \in Seq(Message)
      BY <1>3, <1>4, <2>3, AppendProperties DEF ClosePage
    <3>2. QED  BY <1>3, <2>1, <2>3, <3>1 DEF ClosePage
  <2>4. CASE LoseClient(s)
    BY <1>3, <2>1, <2>4 DEF LoseClient
  <2>5. QED  BY <2>2, <2>3, <2>4
<1>6. open' \in [Sockets -> BOOLEAN]
  <2>1. open \in [Sockets -> BOOLEAN]
    BY DEF Typed, TypeOK
  <2>2. open' = open \/ open' = [open EXCEPT ![s] = FALSE]
    BY DEF OpenPage, ClosePage, LoseClient
  <2>3. QED  BY <2>1, <2>2
<1>7. QED
  BY <1>1, <1>2, <1>5, <1>6 DEF Typed, TypeOK, AccessOK, PresenceFinite, serverVars, Message

LEMMA TypeNext ==
    ASSUME Typed, [Next]_vars
    PROVE  Typed'
<1>1. CASE AccessNext /\ UNCHANGED <<serverVars, clientVars, strayed>>
  BY <1>1, TypeAccess
<1>2. ASSUME NEW s \in Sockets, NEW u \in Users, NEW p \in Projects \cup {NoProject},
             NEW mounting \in BOOLEAN, Connect(s, u, p, mounting)
      PROVE  Typed'
  BY <1>2, TypeConnect
<1>3. ASSUME NEW s \in Sockets, NEW j \in Joins,
             HandleJoin(s, j) \/ CheckAccess(s, j) \/ FinishJoin(s, j)
      PROVE  Typed'
  BY <1>3, TypeHandleJoin, TypeCheckAccess, TypeFinishJoin
<1>4. ASSUME NEW s \in Sockets, HandleLeave(s) \/ Disconnect(s)
      PROVE  Typed'
  BY <1>4, TypeHandleLeave, TypeDisconnect
<1>5. ASSUME NEW s \in Sockets,
             (\E p \in Projects : OpenPage(s, p)) \/ ClosePage(s) \/ LoseClient(s)
      PROVE  Typed'
  BY <1>5, TypeClient
<1>6. CASE Crash
  BY <1>6, TypeCrash
<1>7. CASE UNCHANGED vars
  BY <1>7 DEF vars, Typed, TypeOK, PresenceFinite, Created
<1>8. QED  BY <1>1, <1>2, <1>3, <1>4, <1>5, <1>6, <1>7 DEF Next

\* Every variable always has its type, and only finitely many users are present.
THEOREM TypeCorrect == Spec => []TypeOK
<1>1. Init => Typed
  BY TypeInit
<1>2. Typed /\ [Next]_vars => Typed'
  BY TypeNext
<1>3. Typed => TypeOK
  BY DEF Typed
<1>4. QED  BY <1>1, <1>2, <1>3, PTL DEF Spec

\* The rules for rights that the code spells out more than once always agree: those of
\* opening, joining, listing and moving, of the user's own feed and of the dashboards.
\* getFeed with a projectId has no rule and is not among them.
THEOREM ChecksAlwaysAgree == Spec => []ChecksAgree
<1>1. TypeOK => ChecksAgree
  BY TypedIsAccessOK, ChecksAgreeByType
<1>2. QED  BY TypeCorrect, <1>1, PTL

-------------------------------------------------------------------------------
\* Rooms.

\* The room is the user's, the user's role's or one of a project the user could open.
Entitled(s, room) ==
    /\ conn[s] # NoUser
    /\ \/ room \in {<<"user", conn[s]>>, RoleRoom(conn[s])}
       \/ \E p \in Projects :
            /\ room = ProjectRoom(p)
            /\ RoleOf[conn[s]] = "ADMIN" \/ GetProject(conn[s], p)

\* A slot without a socket is as new; a socket is in the two rooms of its user and only
\* in rooms its user may hear; a yes that a join handler still holds is still right.
SocketOK(s) ==
    /\ conn[s] = NoUser => rooms[s] = {} /\ checks[s] = Free /\ inbox[s] = <<>> /\ ~open[s]
    /\ conn[s] # NoUser => {<<"user", conn[s]>>, RoleRoom(conn[s])} \subseteq rooms[s]
    /\ \A room \in rooms[s] : Entitled(s, room)
    /\ \A j \in Joins : checks[s][j].pc = "allowed" =>
         conn[s] # NoUser /\ CanAccess(conn[s], checks[s][j].project)

RoomInv == Typed /\ \A s \in Sockets : SocketOK(s)

\* A socket that a step does not touch stays as entitled as it was, whatever is
\* created by that step.
LEMMA SocketKept ==
    ASSUME Typed, NEW s \in Sockets, SocketOK(s), Grows,
           conn'[s] = conn[s], rooms'[s] \subseteq rooms[s],
           conn[s] # NoUser => {<<"user", conn[s]>>, RoleRoom(conn[s])} \subseteq rooms'[s],
           \A j \in Joins : checks'[s][j] = checks[s][j] \/ checks'[s][j].pc # "allowed",
           conn[s] = NoUser => checks'[s] = checks[s] /\ inbox'[s] = inbox[s],
           open'[s] => open[s]
    PROVE  SocketOK(s)'
<1>1. conn[s] \in Users \cup {NoUser}
  BY DEF Typed, TypeOK
<1>2. ASSUME NEW room \in rooms'[s] PROVE Entitled(s, room)'
  <2>1. Entitled(s, room)
    BY DEF SocketOK
  <2>2. CASE room \in {<<"user", conn[s]>>, RoleRoom(conn[s])}
    BY <2>1, <2>2 DEF Entitled, RoleRoom
  <2>3. ASSUME NEW p \in Projects, room = ProjectRoom(p),
               RoleOf[conn[s]] = "ADMIN" \/ GetProject(conn[s], p)
        PROVE  Entitled(s, room)'
    <3>1. conn[s] \in Users
      BY <1>1, <2>1 DEF Entitled
    <3>2. GetProject(conn[s], p) => GetProject(conn[s], p)'
      BY <3>1, RightsGrow
    <3>3. QED  BY <2>1, <2>3, <3>2 DEF Entitled, ProjectRoom, GetProject, HasTask, Created
  <2>4. QED  BY <2>1, <2>2, <2>3 DEF Entitled
<1>3. ASSUME NEW j \in Joins, checks'[s][j].pc = "allowed"
      PROVE  conn'[s] # NoUser /\ CanAccess(conn[s], checks[s][j].project)'
  <2>1. checks'[s][j] = checks[s][j] /\ conn[s] # NoUser
        /\ CanAccess(conn[s], checks[s][j].project)
    BY <1>3 DEF SocketOK
  <2>2. QED  BY <1>1, <2>1, RightsGrow
<1>4. QED  BY <1>2, <1>3 DEF SocketOK

LEMMA RoomInit == Init => RoomInv
<1> SUFFICES ASSUME Init PROVE \A s \in Sockets : SocketOK(s)
  BY TypeInit DEF RoomInv
<1>1. QED  BY DEF Init, SocketOK, Free, NoCheck

LEMMA RoomAccess ==
    ASSUME RoomInv, AccessNext, UNCHANGED <<serverVars, clientVars, strayed>>
    PROVE  \A s \in Sockets : SocketOK(s)'
<1>1. Grows
  BY TypedIsAccessOK, AccessNextOK DEF RoomInv, Typed
<1>2. QED  BY <1>1, SocketKept DEF RoomInv, serverVars, clientVars, SocketOK

\* The steps that leave the tables alone.
LEMMA TablesKept ==
    ASSUME Typed, UNCHANGED accessVars
    PROVE  Grows
  BY TypedIsAccessOK, AccessSame DEF Typed

LEMMA RoomConnect ==
    ASSUME RoomInv, NEW s \in Sockets, NEW u \in Users, NEW p \in Projects \cup {NoProject},
           NEW mounting \in BOOLEAN, Connect(s, u, p, mounting)
    PROVE  \A x \in Sockets : SocketOK(x)'
<1>1. Grows
  BY TablesKept DEF RoomInv, Connect, accessVars
<1>2. /\ conn' = [conn EXCEPT ![s] = u] /\ checks' = checks /\ conn[s] = NoUser
      /\ rooms' = [rooms EXCEPT ![s] = {<<"user", u>>, RoleRoom(u)}]
      /\ open' = [open EXCEPT ![s] = TRUE]
  BY DEF Connect
<1>3. ASSUME NEW x \in Sockets, x # s PROVE SocketOK(x)'
  <2>1. /\ conn'[x] = conn[x] /\ rooms'[x] = rooms[x] /\ checks'[x] = checks[x]
        /\ open'[x] = open[x] /\ inbox'[x] = inbox[x]
    BY <1>2, <1>3 DEF RoomInv, Typed, TypeOK, Connect
  <2>2. QED  BY <1>1, <2>1, SocketKept DEF RoomInv, SocketOK
<1>4. SocketOK(s)'
  <2>1. conn'[s] = u /\ rooms'[s] = {<<"user", u>>, RoleRoom(u)} /\ u # NoUser
    BY <1>2, DomainAssumption DEF RoomInv, Typed, TypeOK
  <2>2. RoleRoom(conn[s])' = RoleRoom(u)
    BY <2>1 DEF RoleRoom
  <2>3. checks'[s] = Free
    BY <1>2 DEF RoomInv, SocketOK
  <2>4. \A j \in Joins : checks'[s][j].pc # "allowed"
    BY <2>3 DEF Free, NoCheck
  <2>5. QED  BY <2>1, <2>2, <2>4 DEF SocketOK, Entitled
<1>5. QED  BY <1>3, <1>4

LEMMA RoomHandleJoin ==
    ASSUME RoomInv, NEW s \in Sockets, NEW j \in Joins, HandleJoin(s, j)
    PROVE  \A x \in Sockets : SocketOK(x)'
<1> DEFINE asked == [pc |-> "asked", project |-> Head(inbox[s]).project]
<1>1. Grows
  BY TablesKept DEF RoomInv, HandleJoin, accessVars
<1>2. asked \in Check /\ asked.pc # "allowed"
  BY InboxHead DEF RoomInv, Typed, HandleJoin, Check, Message
<1>3. checks' = [checks EXCEPT ![s][j] = asked]
  BY DEF HandleJoin
<1> HIDE DEF asked
<1>4. \A x \in Sockets, k \in Joins :
        checks'[x][k] = IF x = s /\ k = j THEN asked ELSE checks[x][k]
  BY <1>2, <1>3, SlotUpdate DEF RoomInv, Typed
<1>5. \A x \in Sockets : x # s => checks'[x] = checks[x] /\ inbox'[x] = inbox[x]
  BY DEF RoomInv, Typed, TypeOK, HandleJoin
<1>6. \A x \in Sockets, k \in Joins :
        checks'[x][k] = checks[x][k] \/ checks'[x][k].pc # "allowed"
  BY <1>2, <1>4
<1>7. UNCHANGED <<conn, rooms, open>> /\ conn[s] # NoUser
  BY DEF RoomInv, SocketOK, HandleJoin
<1>8. QED  BY <1>1, <1>5, <1>6, <1>7, SocketKept DEF RoomInv, SocketOK

LEMMA RoomCheckAccess ==
    ASSUME RoomInv, NEW s \in Sockets, NEW j \in Joins, CheckAccess(s, j)
    PROVE  \A x \in Sockets : SocketOK(x)'
<1> DEFINE c == checks[s][j]
           answer == IF Allowed(conn[s], c.project) THEN [c EXCEPT !.pc = "allowed"] ELSE NoCheck
<1>1. Grows
  BY TablesKept DEF RoomInv, CheckAccess, accessVars
<1>2. c \in Check /\ c.pc = "asked"
  BY BusySlot DEF RoomInv, Typed, CheckAccess
<1>3. answer \in Check \cup {NoCheck}
  BY <1>2 DEF Check
<1>4. checks' = [checks EXCEPT ![s][j] = answer] /\ UNCHANGED <<pmId, task, conn, rooms, open, inbox>>
  BY DEF CheckAccess, clientVars
<1> HIDE DEF answer
<1>5. \A x \in Sockets, k \in Joins :
        checks'[x][k] = IF x = s /\ k = j THEN answer ELSE checks[x][k]
  BY <1>3, <1>4, SlotUpdate DEF RoomInv, Typed
<1>6. conn[s] # NoUser
  <2>1. c # Free[j]
    BY <1>2 DEF Free, NoCheck
  <2>2. QED  BY <2>1 DEF RoomInv, SocketOK
<1>7. ASSUME NEW x \in Sockets, x # s PROVE SocketOK(x)'
  <2>1. checks'[x] = checks[x]
    BY <1>4, <1>7 DEF RoomInv, Typed, TypeOK
  <2>2. QED  BY <1>1, <1>4, <2>1, SocketKept DEF RoomInv, SocketOK
<1>8. SocketOK(s)'
  <2>1. ASSUME NEW k \in Joins, checks'[s][k].pc = "allowed"
        PROVE  CanAccess(conn[s], checks'[s][k].project)
    <3>1. CASE k = j
      <4>1. checks'[s][k] = answer
        BY <1>5, <3>1
      <4>2. Allowed(conn[s], c.project) /\ answer = [c EXCEPT !.pc = "allowed"]
        BY <2>1, <4>1 DEF answer, NoCheck
      <4>3. answer.project = c.project
        BY <1>2, <4>2 DEF Check
      <4>4. QED  BY <4>1, <4>2, <4>3 DEF Allowed
    <3>2. CASE k # j
      BY <1>5, <2>1, <3>2 DEF RoomInv, SocketOK
    <3>3. QED  BY <3>1, <3>2
  <2>2. \A room \in rooms[s] : Entitled(s, room)'
    <3>1. \A room : Entitled(s, room)' <=> Entitled(s, room)
      BY <1>4 DEF Entitled, RoleRoom, ProjectRoom, GetProject, HasTask, Created
    <3>2. QED  BY <3>1 DEF RoomInv, SocketOK
  <2>3. \A k \in Joins : checks'[s][k].pc = "allowed" =>
          CanAccess(conn[s], checks[s][k].project)'
    BY <1>4, <2>1 DEF CanAccess, HasTask, Created
  <2>4. RoleRoom(conn[s])' = RoleRoom(conn[s])
    BY <1>4 DEF RoleRoom
  <2>5. QED  BY <1>4, <1>6, <2>2, <2>3, <2>4 DEF RoomInv, SocketOK
<1>9. QED  BY <1>7, <1>8

LEMMA RoomFinishJoin ==
    ASSUME RoomInv, NEW s \in Sockets, NEW j \in Joins, FinishJoin(s, j)
    PROVE  \A x \in Sockets : SocketOK(x)'
<1> DEFINE p == checks[s][j].project
<1>1. Grows
  BY TablesKept DEF RoomInv, FinishJoin, accessVars
<1>2. p \in Projects /\ conn[s] # NoUser /\ CanAccess(conn[s], p)
  BY BusySlot DEF RoomInv, Typed, FinishJoin, Check, SocketOK
<1>3. conn[s] \in Users
  BY <1>2 DEF RoomInv, Typed, TypeOK
<1>4. RoleOf[conn[s]] = "ADMIN" \/ GetProject(conn[s], p)
  BY <1>2, <1>3, RoomCheckIsFetch, TypedIsAccessOK DEF RoomInv, Typed
<1>5. /\ rooms' = [rooms EXCEPT ![s] = @ \cup {ProjectRoom(p)}]
      /\ UNCHANGED <<pmId, task, conn, open, inbox>>
  BY DEF FinishJoin, clientVars
<1>6. \A x \in Sockets, k \in Joins :
        checks'[x][k] = IF x = s /\ k = j THEN NoCheck ELSE checks[x][k]
  BY SlotUpdate DEF RoomInv, Typed, FinishJoin
<1>7. ASSUME NEW x \in Sockets, x # s PROVE SocketOK(x)'
  <2>1. checks'[x] = checks[x] /\ rooms'[x] = rooms[x]
    BY <1>5, <1>7 DEF RoomInv, Typed, TypeOK, FinishJoin
  <2>2. QED  BY <1>1, <1>5, <2>1, SocketKept DEF RoomInv, SocketOK
<1>8. SocketOK(s)'
  <2>1. rooms'[s] = rooms[s] \cup {ProjectRoom(p)}
    BY <1>5 DEF RoomInv, Typed, TypeOK
  <2>2. \A room : Entitled(s, room)' <=> Entitled(s, room)
    BY <1>5 DEF Entitled, RoleRoom, ProjectRoom, GetProject, HasTask, Created
  <2>3. Entitled(s, ProjectRoom(p))
    BY <1>2, <1>4 DEF Entitled
  <2>4. \A room \in rooms'[s] : Entitled(s, room)'
    BY <2>1, <2>2, <2>3 DEF RoomInv, SocketOK
  <2>5. \A k \in Joins : checks'[s][k].pc = "allowed" => CanAccess(conn[s], checks'[s][k].project)
    <3>1. \A k \in Joins : checks'[s][k].pc = "allowed" => checks'[s][k] = checks[s][k]
      BY <1>6 DEF NoCheck
    <3>2. \A k \in Joins : checks[s][k].pc = "allowed" => CanAccess(conn[s], checks[s][k].project)
      BY DEF RoomInv, SocketOK
    <3>3. QED  BY <3>1, <3>2
  <2>6. \A k \in Joins : checks'[s][k].pc = "allowed" => CanAccess(conn[s], checks[s][k].project)'
    BY <1>5, <2>5 DEF CanAccess, HasTask, Created
  <2>7. RoleRoom(conn[s])' = RoleRoom(conn[s])
    BY <1>5 DEF RoleRoom
  <2>8. QED  BY <1>2, <1>5, <2>1, <2>4, <2>6, <2>7 DEF RoomInv, SocketOK
<1>9. QED  BY <1>7, <1>8

LEMMA RoomHandleLeave ==
    ASSUME RoomInv, NEW s \in Sockets, HandleLeave(s)
    PROVE  \A x \in Sockets : SocketOK(x)'
<1>1. Grows
  BY TablesKept DEF RoomInv, HandleLeave, accessVars
<1>2. /\ rooms' = [rooms EXCEPT ![s] = @ \ {ProjectRoom(Head(inbox[s]).project)}]
      /\ UNCHANGED <<conn, checks, open>> /\ conn[s] # NoUser
  BY DEF RoomInv, SocketOK, HandleLeave
<1>3. conn[s] \in Users
  BY <1>2 DEF RoomInv, Typed, TypeOK
<1>4. {<<"user", conn[s]>>, RoleRoom(conn[s])} \subseteq rooms'[s] /\ rooms'[s] \subseteq rooms[s]
  <2>1. rooms'[s] = rooms[s] \ {ProjectRoom(Head(inbox[s]).project)}
    BY <1>2 DEF RoomInv, Typed, TypeOK
  <2>2. {<<"user", conn[s]>>, RoleRoom(conn[s])} \subseteq rooms[s]
    BY <1>2 DEF RoomInv, SocketOK
  <2>3. QED  BY <1>3, <2>1, <2>2, RoomsDiffer
<1>5. \A x \in Sockets : x # s => rooms'[x] = rooms[x] /\ inbox'[x] = inbox[x]
  BY <1>2 DEF RoomInv, Typed, TypeOK, HandleLeave
<1>6. QED  BY <1>1, <1>2, <1>4, <1>5, SocketKept DEF RoomInv, SocketOK

LEMMA RoomDisconnect ==
    ASSUME RoomInv, NEW s \in Sockets, Disconnect(s)
    PROVE  \A x \in Sockets : SocketOK(x)'
<1>1. Grows
  BY TablesKept DEF RoomInv, Disconnect, accessVars
<1>2. /\ conn'[s] = NoUser /\ rooms'[s] = {} /\ checks'[s] = Free
      /\ inbox'[s] = <<>> /\ ~open'[s]
  BY DEF RoomInv, Typed, TypeOK, Disconnect
<1>3. SocketOK(s)'
  BY <1>2 DEF SocketOK, Free, NoCheck
<1>4. ASSUME NEW x \in Sockets, x # s
      PROVE  /\ conn'[x] = conn[x] /\ rooms'[x] = rooms[x] /\ checks'[x] = checks[x]
             /\ inbox'[x] = inbox[x] /\ open'[x] = open[x]
  BY <1>4 DEF RoomInv, Typed, TypeOK, Disconnect
<1>5. ASSUME NEW x \in Sockets, x # s PROVE SocketOK(x)'
  BY <1>1, <1>4, <1>5, SocketKept DEF RoomInv, SocketOK
<1>6. QED  BY <1>3, <1>5

LEMMA RoomClient ==
    ASSUME RoomInv, NEW s \in Sockets,
           (\E p \in Projects : OpenPage(s, p)) \/ ClosePage(s) \/ LoseClient(s)
    PROVE  \A x \in Sockets : SocketOK(x)'
<1>1. Grows
  BY TablesKept DEF RoomInv, OpenPage, ClosePage, LoseClient, accessVars
<1>2. UNCHANGED <<conn, rooms, checks>> /\ conn[s] # NoUser
  BY DEF RoomInv, SocketOK, OpenPage, ClosePage, LoseClient, serverVars
<1>3. \A x \in Sockets : /\ x # s => inbox'[x] = inbox[x]
                         /\ open'[x] => open[x]
  BY DEF RoomInv, Typed, TypeOK, OpenPage, ClosePage, LoseClient
<1>4. QED  BY <1>1, <1>2, <1>3, SocketKept DEF RoomInv, SocketOK

LEMMA RoomNext ==
    ASSUME RoomInv, [Next]_vars
    PROVE  RoomInv'
<1>1. Typed'
  BY TypeNext DEF RoomInv
<1> SUFFICES \A s \in Sockets : SocketOK(s)'
  BY <1>1 DEF RoomInv
<1>2. CASE AccessNext /\ UNCHANGED <<serverVars, clientVars, strayed>>
  BY <1>2, RoomAccess
<1>3. ASSUME NEW s \in Sockets, NEW u \in Users, NEW p \in Projects \cup {NoProject},
             NEW mounting \in BOOLEAN, Connect(s, u, p, mounting)
      PROVE  \A x \in Sockets : SocketOK(x)'
  BY <1>3, RoomConnect
<1>4. ASSUME NEW s \in Sockets, NEW j \in Joins,
             HandleJoin(s, j) \/ CheckAccess(s, j) \/ FinishJoin(s, j)
      PROVE  \A x \in Sockets : SocketOK(x)'
  BY <1>4, RoomHandleJoin, RoomCheckAccess, RoomFinishJoin
<1>5. ASSUME NEW s \in Sockets, HandleLeave(s) \/ Disconnect(s)
      PROVE  \A x \in Sockets : SocketOK(x)'
  BY <1>5, RoomHandleLeave, RoomDisconnect
<1>6. ASSUME NEW s \in Sockets,
             (\E p \in Projects : OpenPage(s, p)) \/ ClosePage(s) \/ LoseClient(s)
      PROVE  \A x \in Sockets : SocketOK(x)'
  BY <1>6, RoomClient
<1>7. CASE Crash
  BY <1>7 DEF Crash, SocketOK, Free, NoCheck
<1>8. CASE UNCHANGED vars
  BY <1>8, TablesKept, SocketKept DEF RoomInv, SocketOK, vars, accessVars
<1>9. QED  BY <1>2, <1>3, <1>4, <1>5, <1>6, <1>7, <1>8 DEF Next

LEMMA RoomsInvariant == Spec => []RoomInv
<1>1. Init => RoomInv
  BY RoomInit
<1>2. RoomInv /\ [Next]_vars => RoomInv'
  BY RoomNext
<1>3. QED  BY <1>1, <1>2, PTL DEF Spec

\* No socket is ever in a room its user may not hear, although the right is
\* looked up before an await and other handlers run before the room is joined.
THEOREM RoomsAlwaysEntitled == Spec => []RoomsAreEntitled
<1>1. RoomInv => RoomsAreEntitled
  BY DEF RoomInv, SocketOK, Entitled, RoomsAreEntitled
<1>2. QED  BY RoomsInvariant, <1>1, PTL

\* Of the rooms an event about task t is emitted to, a socket can be in the project's and
\* in its role's only; its role's is one of them when the user's own feed shows the task.
LEMMA HeardRooms ==
    ASSUME RoomInv, NEW s \in Sockets, conn[s] # NoUser, NEW t \in DOMAIN task
    PROVE  LET u == conn[s] p == task[t].project IN
           /\ u \in Users /\ p \in Projects
           /\ RoleRoom(u) \in rooms[s]
           /\ \A room \in BroadcastRooms(t) \cap rooms[s] :
                room = ProjectRoom(p) \/ room = RoleRoom(u)
           /\ ProjectRoom(p) \in BroadcastRooms(t)
           /\ RoleRoom(u) \in BroadcastRooms(t) <=> t \in Feed(u, NoProject)
<1> DEFINE u == conn[s]
           p == task[t].project
           m == pmId[p]
           a == task[t].assignee
<1>1. u \in Users /\ RoleOf[u] \in Roles
  BY DomainAssumption DEF RoomInv, Typed, TypeOK
<1>2. p \in Created /\ p \in Projects /\ m \in Users /\ a \in Users \cup {NoUser}
  BY DEF RoomInv, Typed, TypeOK, TaskRef
<1>3. {<<"user", u>>, RoleRoom(u)} \subseteq rooms[s] /\ \A room \in rooms[s] : Entitled(s, room)
  BY DEF RoomInv, SocketOK
<1>4. ASSUME NEW room \in BroadcastRooms(t) \cap rooms[s]
      PROVE  room = ProjectRoom(p) \/ room = RoleRoom(u)
  <2> SUFFICES ASSUME room # ProjectRoom(p) PROVE room = RoleRoom(u)
    OBVIOUS
  <2>1. \/ room = <<"admin-feed">> \/ room = <<"pm-feed", m>> \/ room = <<"dev-feed", a>>
    BY DEF BroadcastRooms
  <2>2. \A q : room # ProjectRoom(q) /\ room # <<"user", u>>
    BY <2>1 DEF ProjectRoom
  <2>3. QED  BY <1>3, <2>2 DEF Entitled
<1>5. t \in Feed(u, NoProject) <=> RoleRoom(u) \in BroadcastRooms(t)
  <2>1. CASE RoleOf[u] = "ADMIN"
    BY <2>1 DEF Feed, RoleRoom, BroadcastRooms
  <2>2. CASE RoleOf[u] = "PM"
    BY <2>2 DEF Feed, RoleRoom, BroadcastRooms, ProjectRoom
  <2>3. CASE RoleOf[u] = "DEVELOPER"
    BY <1>1, <2>3, DomainAssumption DEF Feed, RoleRoom, BroadcastRooms, ProjectRoom
  <2>4. QED  BY <1>1, <2>1, <2>2, <2>3 DEF Roles
<1>6. ProjectRoom(p) \in BroadcastRooms(t)
  BY DEF BroadcastRooms
<1>7. QED  BY <1>1, <1>2, <1>3, <1>4, <1>5, <1>6

LEMMA RoomsMatchFeed ==
    RoomInv => LiveMatchesFeed
<1> DEFINE joined(s) == {p \in Projects : ProjectRoom(p) \in rooms[s]}
           heard(s, t) == BroadcastRooms(t) \cap rooms[s]
           projectRooms == {ProjectRoom(p) : p \in Projects}
<1> SUFFICES ASSUME RoomInv, NEW s \in Sockets, conn[s] # NoUser, NEW t \in DOMAIN task
             PROVE  /\ t \in Feed(conn[s], NoProject) <=> heard(s, t) \ projectRooms # {}
                    /\ heard(s, t) # {}
                         <=> \E p \in joined(s) \cup {NoProject} : t \in Feed(conn[s], p)
  BY DEF LiveMatchesFeed
<1> DEFINE u == conn[s]
           p == task[t].project
<1>1. /\ u \in Users /\ p \in Projects
      /\ RoleRoom(u) \in rooms[s]
      /\ \A room \in heard(s, t) : room = ProjectRoom(p) \/ room = RoleRoom(u)
      /\ ProjectRoom(p) \in BroadcastRooms(t)
      /\ RoleRoom(u) \in BroadcastRooms(t) <=> t \in Feed(u, NoProject)
  BY HeardRooms
<1>2. RoleRoom(u) \notin projectRooms
  BY <1>1, RoomsDiffer
<1>3. RoleRoom(u) \in heard(s, t) <=> t \in Feed(u, NoProject)
  BY <1>1
<1>4. t \in Feed(u, NoProject) <=> heard(s, t) \ projectRooms # {}
  BY <1>1, <1>2, <1>3
<1>5. \A q \in joined(s) : t \in Feed(u, q) <=> q = p
  BY SocketsAssumption DEF Feed
<1>6. ProjectRoom(p) \in heard(s, t) <=> \E q \in joined(s) : t \in Feed(u, q)
  BY <1>1, <1>5
<1>7. heard(s, t) # {} <=> ProjectRoom(p) \in heard(s, t) \/ RoleRoom(u) \in heard(s, t)
  BY <1>1
<1>8. QED  BY <1>3, <1>4, <1>6, <1>7

\* A connected user is always pushed, outside the project rooms, the events of exactly the
\* tasks the user's own feed would return, and with a project's room exactly those of that
\* project's feed as well.  Who may ask getFeed for a project's feed is not its subject.
THEOREM LiveAlwaysMatchesFeed == Spec => []LiveMatchesFeed
  BY RoomsInvariant, RoomsMatchFeed, PTL

-------------------------------------------------------------------------------
\* Presence.

LEMMA PresenceConnect ==
    ASSUME Typed, PresenceIsExact, NEW s \in Sockets, NEW u \in Users,
           NEW p, NEW mounting, Connect(s, u, p, mounting)
    PROVE  PresenceIsExact'
<1> DEFINE now == [x \in {conn'[y] : y \in Sockets} \ {NoUser} |-> {y \in Sockets : conn'[y] = x}]
<1>1. /\ conn \in [Sockets -> Users \cup {NoUser}] /\ u # NoUser
      /\ conn[s] = NoUser /\ conn' = [conn EXCEPT ![s] = u]
  BY DomainAssumption DEF Typed, TypeOK, Connect
<1>2. DOMAIN onlineUsers = {conn[y] : y \in Sockets} \ {NoUser}
  BY DEF PresenceIsExact
<1>3. \A x \in DOMAIN onlineUsers : onlineUsers[x] = {y \in Sockets : conn[y] = x}
  BY DEF PresenceIsExact
<1>4. {conn'[y] : y \in Sockets} \ {NoUser} = DOMAIN onlineUsers \cup {u}
  BY <1>1, <1>2
<1>5. ASSUME NEW x \in DOMAIN onlineUsers \cup {u}
      PROVE  {y \in Sockets : conn'[y] = x} = Tracked(s, u)[x]
  <2>1. Tracked(s, u)[x] = (IF x \in DOMAIN onlineUsers THEN onlineUsers[x] ELSE {})
                           \cup (IF x = u THEN {s} ELSE {})
    BY DEF Tracked
  <2>2. (IF x \in DOMAIN onlineUsers THEN onlineUsers[x] ELSE {}) = {y \in Sockets : conn[y] = x}
    BY <1>1, <1>2, <1>3
  <2>3. x # NoUser
    BY <1>1, <1>2
  <2>4. QED  BY <1>1, <2>1, <2>2, <2>3
<1>6. Tracked(s, u) = now
  BY <1>4, <1>5 DEF Tracked
<1>7. QED  BY <1>6 DEF Connect, PresenceIsExact

LEMMA PresenceDisconnect ==
    ASSUME Typed, PresenceIsExact, NEW s \in Sockets, Disconnect(s)
    PROVE  PresenceIsExact'
<1> DEFINE u == conn[s]
           now == [x \in {conn'[y] : y \in Sockets} \ {NoUser} |-> {y \in Sockets : conn'[y] = x}]
           left == {y \in DOMAIN onlineUsers : y = u => onlineUsers[y] # {s}}
<1>1. /\ conn \in [Sockets -> Users \cup {NoUser}]
      /\ u # NoUser /\ conn' = [conn EXCEPT ![s] = NoUser]
  BY DEF Typed, TypeOK, Disconnect
<1>2. DOMAIN onlineUsers = {conn[y] : y \in Sockets} \ {NoUser}
  BY DEF PresenceIsExact
<1>3. \A x \in DOMAIN onlineUsers : onlineUsers[x] = {y \in Sockets : conn[y] = x}
  BY DEF PresenceIsExact
<1>4. {conn'[y] : y \in Sockets} \ {NoUser} = left
  <2>1. ASSUME NEW y \in Sockets, conn'[y] # NoUser PROVE conn'[y] \in left
    <3>1. y # s /\ conn'[y] = conn[y] /\ conn[y] \in DOMAIN onlineUsers
      BY <1>1, <1>2, <2>1
    <3>2. y \in onlineUsers[conn[y]]
      BY <1>3, <3>1
    <3>3. QED  BY <3>1, <3>2
  <2>2. ASSUME NEW x \in left PROVE x # NoUser /\ \E y \in Sockets : conn'[y] = x
    <3>1. PICK y \in Sockets : conn[y] = x /\ x # NoUser
      BY <1>2
    <3>2. CASE x = u
      <4>1. s \in onlineUsers[x] /\ onlineUsers[x] # {s}
        BY <1>3, <3>2
      <4>2. PICK z \in onlineUsers[x] : z # s
        BY <4>1
      <4>3. z \in Sockets /\ conn[z] = x
        BY <1>3, <4>2
      <4>4. QED  BY <1>1, <3>1, <4>2, <4>3
    <3>3. CASE x # u
      BY <1>1, <3>1, <3>3
    <3>4. QED  BY <3>2, <3>3
  <2>3. QED  BY <2>1, <2>2
<1>5. ASSUME NEW x \in left
      PROVE  {y \in Sockets : conn'[y] = x} = Untracked(s, u)[x]
  <2>1. Untracked(s, u)[x] = IF x = u THEN onlineUsers[x] \ {s} ELSE onlineUsers[x]
    BY DEF Untracked
  <2>2. onlineUsers[x] = {y \in Sockets : conn[y] = x} /\ x # NoUser
    BY <1>2, <1>3
  <2>3. QED  BY <1>1, <2>1, <2>2
<1>6. Untracked(s, u) = now
  BY <1>4, <1>5 DEF Untracked
<1>7. QED  BY <1>6 DEF Disconnect, PresenceIsExact

LEMMA PresenceNext ==
    ASSUME Typed, PresenceIsExact, [Next]_vars
    PROVE  PresenceIsExact'
<1>1. ASSUME UNCHANGED <<conn, onlineUsers>> PROVE PresenceIsExact'
  BY <1>1 DEF PresenceIsExact
<1>2. CASE Crash
  BY <1>2 DEF Crash, PresenceIsExact
<1>3. ASSUME NEW s \in Sockets, NEW u \in Users, NEW p \in Projects \cup {NoProject},
             NEW mounting \in BOOLEAN, Connect(s, u, p, mounting)
      PROVE  PresenceIsExact'
  BY <1>3, PresenceConnect
<1>4. ASSUME NEW s \in Sockets, Disconnect(s) PROVE PresenceIsExact'
  BY <1>4, PresenceDisconnect
<1>5. ASSUME NEW s \in Sockets,
             \/ \E j \in Joins : HandleJoin(s, j) \/ CheckAccess(s, j) \/ FinishJoin(s, j)
             \/ HandleLeave(s) \/ ClosePage(s) \/ LoseClient(s)
             \/ \E p \in Projects : OpenPage(s, p)
      PROVE  UNCHANGED <<conn, onlineUsers>>
  BY <1>5 DEF HandleJoin, CheckAccess, FinishJoin, HandleLeave, ClosePage, LoseClient,
              OpenPage, serverVars
<1>6. QED  BY <1>1, <1>2, <1>3, <1>4, <1>5 DEF Next, serverVars, vars

\* The presence map is always the inverse of the connections: through any number of
\* tabs of a user, dropped sockets and restarts.
THEOREM PresenceAlwaysExact == Spec => []PresenceIsExact
<1>1. Init => PresenceIsExact
  BY DEF Init, PresenceIsExact
<1>2. Typed /\ PresenceIsExact /\ [Next]_vars => PresenceIsExact'
  BY PresenceNext
<1>3. Init => Typed
  BY TypeInit
<1>4. Typed /\ [Next]_vars => Typed'
  BY TypeNext
<1>5. QED  BY <1>1, <1>2, <1>3, <1>4, PTL DEF Spec

-------------------------------------------------------------------------------
\* Rooms and pages.

\* What the client has still to be heard on is a join and a leave of one page after the
\* other, and the last of them is about the page it shows.
PageMessages(s) ==
    LET q == inbox[s] IN
    /\ \A i \in 1..Len(q) - 1 :
         /\ q[i].op = "join" => q[i + 1] = [op |-> "leave", project |-> q[i].project]
         /\ q[i].op = "leave" => q[i + 1].op = "join"
    /\ q # <<>> => IF viewing[s] = NoProject
                   THEN q[Len(q)].op = "leave"
                   ELSE q[Len(q)] = [op |-> "join", project |-> viewing[s]]

LeaveIsDue(s, p) == \E i \in 1..Len(inbox[s]) : inbox[s][i] = [op |-> "leave", project |-> p]

\* A socket is in, or asks for, the room of another page only while the leave of it is
\* due, unless that was handled before.
PageOK(s) ==
    /\ PageMessages(s)
    /\ \A p \in Projects \ ({viewing[s]} \cup strayed[s]) :
         ProjectRoom(p) \in rooms[s] \/ p \in Asking(s) => LeaveIsDue(s, p)

PageInv == RoomInv /\ \A s \in Sockets : open[s] => PageOK(s)

LEMMA PageKept ==
    ASSUME NEW s \in Sockets, open[s] => PageOK(s), open'[s] => open[s],
           rooms'[s] = rooms[s], checks'[s] = checks[s], viewing'[s] = viewing[s],
           inbox'[s] = inbox[s], strayed'[s] = strayed[s]
    PROVE  open'[s] => PageOK(s)'
  BY DEF PageOK, PageMessages, LeaveIsDue, Asking

LEMMA PageConnect ==
    ASSUME PageInv, NEW s \in Sockets, NEW u \in Users, NEW p \in Projects \cup {NoProject},
           NEW mounting \in BOOLEAN, Connect(s, u, p, mounting)
    PROVE  \A x \in Sockets : open'[x] => PageOK(x)'
<1>1. ASSUME NEW x \in Sockets, x # s PROVE open'[x] => PageOK(x)'
  BY <1>1, PageKept DEF PageInv, RoomInv, Typed, TypeOK, Connect
<1>2. /\ rooms'[s] = {<<"user", u>>, RoleRoom(u)} /\ viewing'[s] = p /\ checks'[s] = checks[s]
      /\ inbox'[s] = IF mounting THEN <<[op |-> "join", project |-> p]>> ELSE <<>>
  BY DEF PageInv, RoomInv, Typed, TypeOK, Connect
<1>3. checks'[s] = Free /\ (mounting => p # NoProject)
  BY <1>2 DEF PageInv, RoomInv, SocketOK, Connect
<1>4. Asking(s)' = {}
  BY <1>3 DEF Asking, Free
<1>5. \A q \in Projects : ProjectRoom(q) \notin rooms'[s]
  BY <1>2, RoomsDiffer
<1>6. ProjectRoom(p)' = ProjectRoom(p) /\ PageMessages(s)'
  BY <1>2, <1>3 DEF PageMessages, ProjectRoom
<1>7. PageOK(s)'
  BY <1>4, <1>5, <1>6 DEF PageOK, ProjectRoom
<1>8. QED  BY <1>1, <1>7

\* After its first message is handled a client's messages are still in order.
LEMMA PageTail ==
    ASSUME TypeOK, NEW s \in Sockets, inbox[s] # <<>>, PageMessages(s),
           inbox'[s] = Tail(inbox[s]), viewing'[s] = viewing[s]
    PROVE  /\ PageMessages(s)'
           /\ \A p : LeaveIsDue(s, p) /\ Head(inbox[s]) # [op |-> "leave", project |-> p]
                       => LeaveIsDue(s, p)'
<1> DEFINE q == inbox[s]
           r == Tail(q)
<1>1. q \in Seq(Message) /\ q # <<>>
  BY DEF TypeOK, Message
<1>2. /\ Len(q) \in Nat \ {0} /\ Len(r) = Len(q) - 1 /\ r \in Seq(Message)
      /\ \A i \in 1..Len(r) : r[i] = q[i + 1]
      /\ Head(q) = q[1]
  BY <1>1, HeadTailProperties, EmptySeq
<1> HIDE DEF r
<1>3. r # <<>> => Len(r) \in Nat \ {0} /\ r[Len(r)] = q[Len(q)]
  <2>1. r # <<>> => Len(r) \in Nat \ {0}
    BY <1>2, EmptySeq
  <2>2. QED  BY <1>2, <2>1
<1>4. \A i \in 1..Len(r) - 1 : /\ i + 1 \in 1..Len(q) - 1
                               /\ r[i] = q[i + 1] /\ r[i + 1] = q[(i + 1) + 1]
  BY <1>2
<1>5. PageMessages(s)'
  <2>1. inbox'[s] = r /\ q # <<>>
    BY DEF r
  <2>2. \A i \in 1..Len(r) - 1 :
          /\ r[i].op = "join" => r[i + 1] = [op |-> "leave", project |-> r[i].project]
          /\ r[i].op = "leave" => r[i + 1].op = "join"
    BY <1>4 DEF PageMessages
  <2>3. r # <<>> => IF viewing[s] = NoProject
                    THEN r[Len(r)].op = "leave"
                    ELSE r[Len(r)] = [op |-> "join", project |-> viewing[s]]
    BY <1>3 DEF PageMessages
  <2>4. QED  BY <2>1, <2>2, <2>3 DEF PageMessages
<1>6. ASSUME NEW p, LeaveIsDue(s, p), Head(q) # [op |-> "leave", project |-> p]
      PROVE  LeaveIsDue(s, p)'
  <2>1. PICK i \in 1..Len(q) : q[i] = [op |-> "leave", project |-> p]
    BY <1>6 DEF LeaveIsDue
  <2>2. i - 1 \in 1..Len(r) /\ r[i - 1] = q[i]
    BY <1>2, <1>6, <2>1
  <2>3. QED  BY <2>1, <2>2 DEF LeaveIsDue, r
<1>7. QED  BY <1>5, <1>6

LEMMA PageHandleJoin ==
    ASSUME PageInv, NEW s \in Sockets, NEW j \in Joins, HandleJoin(s, j)
    PROVE  \A x \in Sockets : open'[x] => PageOK(x)'
<1> DEFINE q == inbox[s]
           p == Head(q).project
<1>1. ASSUME NEW x \in Sockets, x # s PROVE open'[x] => PageOK(x)'
  BY <1>1, PageKept DEF PageInv, RoomInv, Typed, TypeOK, HandleJoin
<1>2. /\ Head(q) \in Message /\ Head(q).op = "join" /\ q # <<>>
      /\ checks' = [checks EXCEPT ![s][j] = [pc |-> "asked", project |-> p]]
      /\ UNCHANGED <<rooms, viewing, strayed, open>>
  BY InboxHead DEF PageInv, RoomInv, Typed, HandleJoin
<1>3. inbox'[s] = Tail(q)
  BY DEF PageInv, RoomInv, Typed, TypeOK, HandleJoin
<1>4. Asking(s)' \subseteq Asking(s) \cup {p}
  <2>1. [pc |-> "asked", project |-> p] \in Check
    BY <1>2 DEF Check, Message
  <2> DEFINE asked == [pc |-> "asked", project |-> p]
  <2>2. checks' = [checks EXCEPT ![s][j] = asked] /\ asked.project = p
    BY <1>2
  <2> HIDE DEF asked
  <2>3. \A k \in Joins : checks'[s][k] = IF k = j THEN asked ELSE checks[s][k]
    BY <2>1, <2>2, SlotUpdate DEF PageInv, RoomInv, Typed, asked
  <2>4. QED  BY <2>2, <2>3 DEF Asking
<1> SUFFICES ASSUME open[s] PROVE PageOK(s)'
  BY <1>1, <1>2
<1>5. PageOK(s)
  BY DEF PageInv
<1>6. /\ PageMessages(s)'
      /\ \A x : LeaveIsDue(s, x) => LeaveIsDue(s, x)'
  <2>1. PageMessages(s) /\ TypeOK /\ viewing'[s] = viewing[s]
    BY <1>2, <1>5 DEF PageOK, PageInv, RoomInv, Typed
  <2>2. \A x : Head(q) # [op |-> "leave", project |-> x]
    BY <1>2
  <2>3. QED  BY <1>2, <1>3, <2>1, <2>2, PageTail
\* A join that is not of the page shown is followed by its leave.
<1>7. p # viewing[s] => LeaveIsDue(s, p)
  <2>1. q \in Seq(Message) /\ Len(q) \in Nat \ {0} /\ Head(q) = q[1]
    <3>1. q \in Seq(Message)
      BY DEF PageInv, RoomInv, Typed, TypeOK, Message
    <3>2. QED  BY <1>2, <3>1, EmptySeq, HeadTailProperties
  <2> HIDE DEF q
  <2>2. CASE Len(q) = 1
    BY <1>2, <1>5, <2>1, <2>2 DEF PageOK, PageMessages, q
  <2>3. CASE Len(q) # 1
    <3>1. 1 \in 1..Len(q) - 1 /\ 2 \in 1..Len(q)
      <4> DEFINE n == Len(q)
      <4>1. n \in Nat /\ n # 0 /\ n # 1
        BY <2>1, <2>3
      <4> HIDE DEF n
      <4>2. 1 \in 1..n - 1 /\ 2 \in 1..n
        BY <4>1
      <4>3. QED  BY <4>2 DEF n
    <3>2. q[2] = [op |-> "leave", project |-> p]
      <4>1. q[1].op = "join" => q[1 + 1] = [op |-> "leave", project |-> q[1].project]
        BY <1>5, <3>1 DEF PageOK, PageMessages, q
      <4>2. QED  BY <1>2, <2>1, <4>1 DEF q
    <3>3. QED  BY <3>1, <3>2 DEF LeaveIsDue, q
  <2>4. QED  BY <2>2, <2>3
<1>8. ASSUME NEW x \in Projects \ ({viewing[s]} \cup strayed[s]),
             ProjectRoom(x) \in rooms[s] \/ x \in Asking(s)'
      PROVE  LeaveIsDue(s, x)'
  BY <1>4, <1>5, <1>6, <1>7, <1>8 DEF PageOK
<1>9. QED  BY <1>2, <1>6, <1>8 DEF PageOK, ProjectRoom

LEMMA PageCheck ==
    ASSUME PageInv, NEW s \in Sockets, NEW j \in Joins, CheckAccess(s, j) \/ FinishJoin(s, j)
    PROVE  \A x \in Sockets : open'[x] => PageOK(x)'
<1> DEFINE c == checks[s][j]
           p == c.project
<1>1. ASSUME NEW x \in Sockets, x # s PROVE open'[x] => PageOK(x)'
  BY <1>1, PageKept DEF PageInv, RoomInv, Typed, TypeOK, CheckAccess, FinishJoin, clientVars
<1>2. c \in Check /\ c # NoCheck
  BY BusySlot DEF PageInv, RoomInv, Typed, CheckAccess, FinishJoin
<1>3. p \in Asking(s)
  BY <1>2 DEF Asking
<1>4. UNCHANGED <<open, viewing, inbox, strayed>>
  BY DEF CheckAccess, FinishJoin, clientVars
<1>5. rooms'[s] \subseteq rooms[s] \cup {ProjectRoom(p)}
  BY DEF PageInv, RoomInv, Typed, TypeOK, CheckAccess, FinishJoin
<1>6. PICK d \in Check \cup {NoCheck} :
        /\ checks' = [checks EXCEPT ![s][j] = d]
        /\ d = NoCheck \/ d.project = p
  <2>1. CASE FinishJoin(s, j)
    BY <2>1 DEF FinishJoin
  <2>2. CASE CheckAccess(s, j)
    <3>1. /\ [c EXCEPT !.pc = "allowed"] \in Check
          /\ [c EXCEPT !.pc = "allowed"].project = p
      BY <1>2 DEF Check
    <3>2. QED  BY <2>2, <3>1 DEF CheckAccess
  <2>3. QED  BY <2>1, <2>2
<1>7. Asking(s)' \subseteq Asking(s)
  <2>1. \A k \in Joins : checks'[s][k] = IF k = j THEN d ELSE checks[s][k]
    BY <1>6, SlotUpdate DEF PageInv, RoomInv, Typed
  <2>2. ASSUME NEW k \in Joins, checks'[s][k] # NoCheck PROVE checks'[s][k].project \in Asking(s)
    BY <1>3, <1>6, <2>1, <2>2 DEF Asking
  <2>3. QED  BY <2>2 DEF Asking
<1> SUFFICES ASSUME open[s] PROVE PageOK(s)'
  BY <1>1, <1>4
<1>8. PageOK(s)
  BY DEF PageInv
<1>9. PageMessages(s)' /\ \A x : LeaveIsDue(s, x) => LeaveIsDue(s, x)'
  BY <1>4, <1>8 DEF PageOK, PageMessages, LeaveIsDue
<1>10. ASSUME NEW x \in Projects \ ({viewing[s]} \cup strayed[s]),
              ProjectRoom(x) \in rooms'[s] \/ x \in Asking(s)'
       PROVE  LeaveIsDue(s, x)'
  <2>1. ProjectRoom(x) \in rooms[s] \/ x \in Asking(s)
    BY <1>3, <1>5, <1>7, <1>10 DEF ProjectRoom
  <2>2. QED  BY <1>8, <1>9, <2>1 DEF PageOK
<1>11. QED  BY <1>4, <1>9, <1>10 DEF PageOK, ProjectRoom

LEMMA PageHandleLeave ==
    ASSUME PageInv, NEW s \in Sockets, HandleLeave(s)
    PROVE  \A x \in Sockets : open'[x] => PageOK(x)'
<1> DEFINE m == Head(inbox[s])
           p == m.project
<1>1. ASSUME NEW x \in Sockets, x # s PROVE open'[x] => PageOK(x)'
  BY <1>1, PageKept DEF PageInv, RoomInv, Typed, TypeOK, HandleLeave
<1>2. m \in Message /\ m.op = "leave" /\ inbox[s] # <<>>
  BY InboxHead DEF PageInv, RoomInv, Typed, HandleLeave
<1>3. /\ inbox'[s] = Tail(inbox[s])
      /\ rooms'[s] = rooms[s] \ {ProjectRoom(p)}
      /\ strayed'[s] = IF p \in Asking(s) THEN strayed[s] \cup {p} ELSE strayed[s] \ {p}
  BY DEF PageInv, RoomInv, Typed, TypeOK, HandleLeave
<1>4. UNCHANGED <<open, viewing, checks>>
  BY DEF HandleLeave
<1>5. Asking(s)' = Asking(s)
  BY <1>4 DEF Asking
<1> SUFFICES ASSUME open[s] PROVE PageOK(s)'
  BY <1>1, <1>4
<1>6. PageOK(s)
  BY DEF PageInv
<1>7. /\ PageMessages(s)'
      /\ \A x : LeaveIsDue(s, x) /\ m # [op |-> "leave", project |-> x] => LeaveIsDue(s, x)'
  <2>1. TypeOK /\ PageMessages(s) /\ viewing'[s] = viewing[s]
    BY <1>4, <1>6 DEF PageOK, PageInv, RoomInv, Typed
  <2>2. QED  BY <1>2, <1>3, <2>1, PageTail
<1>8. ASSUME NEW x \in Projects \ ({viewing[s]} \cup strayed'[s]),
             ProjectRoom(x) \in rooms'[s] \/ x \in Asking(s)
      PROVE  LeaveIsDue(s, x)'
\* p itself has left, or its waiting join is recorded.
  <2>1. x # p /\ x \notin strayed[s]
    BY <1>3, <1>8
  <2>2. LeaveIsDue(s, x)
    BY <1>3, <1>6, <1>8, <2>1 DEF PageOK
  <2>3. m # [op |-> "leave", project |-> x]
    BY <2>1
  <2>4. QED  BY <1>7, <2>2, <2>3
<1>9. QED  BY <1>4, <1>5, <1>7, <1>8 DEF PageOK, ProjectRoom

\* A message that is sent comes after those that are still due.
LEMMA PageAppend ==
    ASSUME TypeOK, NEW s \in Sockets, PageMessages(s), NEW m \in Message,
           inbox'[s] = Append(inbox[s], m),
           m.op = "join" => viewing[s] = NoProject /\ viewing'[s] = m.project,
           m.op = "leave" => viewing[s] = m.project /\ viewing'[s] = NoProject
    PROVE  /\ PageMessages(s)'
           /\ \A p : LeaveIsDue(s, p) => LeaveIsDue(s, p)'
           /\ m.op = "leave" => LeaveIsDue(s, m.project)'
<1> DEFINE q == inbox[s]
           n == Len(q)
           r == Append(q, m)
<1>1. q \in Seq(Message)
  BY DEF TypeOK, Message
<1>2. /\ n \in Nat /\ Len(r) = n + 1 /\ r[n + 1] = m /\ \A i \in 1..n : r[i] = q[i]
      /\ r # <<>> /\ (q # <<>> => n # 0)
  BY <1>1, AppendProperties, EmptySeq
<1>3. m.op \in {"join", "leave"} /\ m = [op |-> m.op, project |-> m.project]
      /\ m.project \in Projects
  BY DEF Message
<1>4. \A i \in 1..n - 1 : r[i] = q[i] /\ r[i + 1] = q[i + 1]
  BY <1>2
<1>5. q # <<>> => IF viewing[s] = NoProject
                  THEN q[n].op = "leave"
                  ELSE q[n] = [op |-> "join", project |-> viewing[s]]
  BY DEF PageMessages
<1>6. \A i \in 1..n - 1 :
        /\ q[i].op = "join" => q[i + 1] = [op |-> "leave", project |-> q[i].project]
        /\ q[i].op = "leave" => q[i + 1].op = "join"
  BY DEF PageMessages
<1>7. q = <<>> => n = 0
  OBVIOUS
<1>8. m.op = "leave" => viewing[s] # NoProject
  BY <1>3, SocketsAssumption
<1>9. n # 0 =>
        /\ r[n].op = "join" => m = [op |-> "leave", project |-> r[n].project]
        /\ r[n].op = "leave" => m.op = "join"
  BY <1>2, <1>3, <1>5, <1>7, <1>8
<1>10. inbox'[s] = r
  OBVIOUS
<1>11. /\ \A p : LeaveIsDue(s, p) => \E i \in 1..n : q[i] = [op |-> "leave", project |-> p]
       /\ \A p : (\E i \in 1..Len(r) : r[i] = [op |-> "leave", project |-> p]) => LeaveIsDue(s, p)'
  BY <1>10 DEF LeaveIsDue
<1> HIDE DEF q, n, r
<1>12. \A i \in 1..Len(r) - 1 :
         /\ r[i].op = "join" => r[i + 1] = [op |-> "leave", project |-> r[i].project]
         /\ r[i].op = "leave" => r[i + 1].op = "join"
  <2> SUFFICES ASSUME NEW i \in 1..n
               PROVE  /\ r[i].op = "join" => r[i + 1] = [op |-> "leave", project |-> r[i].project]
                      /\ r[i].op = "leave" => r[i + 1].op = "join"
    BY <1>2
  <2>1. CASE i = n
    BY <1>2, <1>9, <2>1
  <2>2. CASE i # n
    <3>1. i \in 1..n - 1
      BY <1>2, <2>2
    <3>2. QED  BY <1>4, <1>6, <3>1
  <2>3. QED  BY <2>1, <2>2
<1>13. IF viewing'[s] = NoProject THEN r[Len(r)].op = "leave"
       ELSE r[Len(r)] = [op |-> "join", project |-> viewing'[s]]
  BY <1>2, <1>3, SocketsAssumption
<1>14. PageMessages(s)'
  BY <1>10, <1>12, <1>13 DEF PageMessages
<1>15. ASSUME NEW p, LeaveIsDue(s, p) PROVE LeaveIsDue(s, p)'
  <2>1. PICK i \in 1..n : q[i] = [op |-> "leave", project |-> p]
    BY <1>11, <1>15
  <2>2. i \in 1..Len(r) /\ r[i] = q[i]
    BY <1>2
  <2>3. QED  BY <1>11, <2>1, <2>2
<1>16. m.op = "leave" => LeaveIsDue(s, m.project)'
  <2>1. n + 1 \in 1..Len(r)
    BY <1>2
  <2>2. QED  BY <1>2, <1>3, <1>11, <2>1
<1>17. QED  BY <1>14, <1>15, <1>16

LEMMA PageClient ==
    ASSUME PageInv, NEW s \in Sockets,
           (\E p \in Projects : OpenPage(s, p)) \/ ClosePage(s) \/ LoseClient(s)
    PROVE  \A x \in Sockets : open'[x] => PageOK(x)'
<1>1. ASSUME NEW x \in Sockets, x # s PROVE open'[x] => PageOK(x)'
  BY <1>1, PageKept
     DEF PageInv, RoomInv, Typed, TypeOK, OpenPage, ClosePage, LoseClient, serverVars
<1>2. CASE LoseClient(s)
  <2>1. ~open'[s]
    BY <1>2 DEF PageInv, RoomInv, Typed, TypeOK, LoseClient
  <2>2. QED  BY <1>1, <2>1
<1>3. CASE (\E p \in Projects : OpenPage(s, p)) \/ ClosePage(s)
  <2>1. PICK m \in Message :
          /\ inbox'[s] = Append(inbox[s], m)
          /\ m.op = "join" => viewing[s] = NoProject /\ viewing'[s] = m.project
          /\ m.op = "leave" => viewing[s] = m.project /\ viewing'[s] = NoProject
          /\ m.op = "leave" => viewing[s] # NoProject
    <3>1. ASSUME NEW p \in Projects, OpenPage(s, p)
          PROVE  /\ [op |-> "join", project |-> p] \in Message
                 /\ inbox'[s] = Append(inbox[s], [op |-> "join", project |-> p])
                 /\ viewing[s] = NoProject /\ viewing'[s] = p
      BY <3>1 DEF PageInv, RoomInv, Typed, TypeOK, OpenPage, Message
    <3>2. ASSUME ClosePage(s)
          PROVE  /\ [op |-> "leave", project |-> viewing[s]] \in Message
                 /\ inbox'[s] = Append(inbox[s], [op |-> "leave", project |-> viewing[s]])
                 /\ viewing[s] # NoProject /\ viewing'[s] = NoProject
      BY <3>2 DEF PageInv, RoomInv, Typed, TypeOK, ClosePage, Message
    <3>3. QED  BY <1>3, <3>1, <3>2
  <2>2. UNCHANGED <<rooms, checks, strayed, open>>
    BY <1>3 DEF OpenPage, ClosePage, serverVars
  <2>3. Asking(s)' = Asking(s)
    BY <2>2 DEF Asking
  <2> SUFFICES ASSUME open[s] PROVE PageOK(s)'
    BY <1>1, <2>2
  <2>4. PageOK(s)
    BY DEF PageInv
  <2>5. /\ PageMessages(s)'
        /\ \A p : LeaveIsDue(s, p) => LeaveIsDue(s, p)'
        /\ m.op = "leave" => LeaveIsDue(s, m.project)'
    <3>1. TypeOK /\ PageMessages(s)
      BY <2>4 DEF PageInv, RoomInv, Typed, PageOK
    <3>2. QED  BY <2>1, <3>1, PageAppend
  <2>6. ASSUME NEW x \in Projects \ ({viewing'[s]} \cup strayed[s]),
               ProjectRoom(x) \in rooms[s] \/ x \in Asking(s)
        PROVE  LeaveIsDue(s, x)'
    <3>1. CASE x = viewing[s]
      <4>1. m.op = "leave" /\ m.project = x
        BY <2>1, <3>1, SocketsAssumption DEF Message
      <4>2. QED  BY <2>5, <4>1
    <3>2. CASE x # viewing[s]
      BY <2>4, <2>5, <2>6, <3>2 DEF PageOK
    <3>3. QED  BY <3>1, <3>2
  <2>7. QED  BY <2>2, <2>3, <2>5, <2>6 DEF PageOK, ProjectRoom
<1>4. QED  BY <1>2, <1>3

LEMMA PageNext ==
    ASSUME PageInv, [Next]_vars
    PROVE  PageInv'
<1>1. RoomInv'
  BY RoomNext DEF PageInv
<1> SUFFICES \A s \in Sockets : open'[s] => PageOK(s)'
  BY <1>1 DEF PageInv
<1>2. CASE AccessNext /\ UNCHANGED <<serverVars, clientVars, strayed>>
  BY <1>2, PageKept DEF PageInv, serverVars, clientVars
<1>3. ASSUME NEW s \in Sockets, NEW u \in Users, NEW p \in Projects \cup {NoProject},
             NEW mounting \in BOOLEAN, Connect(s, u, p, mounting)
      PROVE  \A x \in Sockets : open'[x] => PageOK(x)'
  BY <1>3, PageConnect
<1>4. ASSUME NEW s \in Sockets, NEW j \in Joins,
             HandleJoin(s, j) \/ CheckAccess(s, j) \/ FinishJoin(s, j)
      PROVE  \A x \in Sockets : open'[x] => PageOK(x)'
  BY <1>4, PageHandleJoin, PageCheck
<1>5. ASSUME NEW s \in Sockets, HandleLeave(s)
      PROVE  \A x \in Sockets : open'[x] => PageOK(x)'
  BY <1>5, PageHandleLeave
<1>6. ASSUME NEW s \in Sockets, Disconnect(s)
      PROVE  \A x \in Sockets : open'[x] => PageOK(x)'
  <2>1. ~open'[s]
    BY <1>6 DEF PageInv, RoomInv, Typed, TypeOK, Disconnect
  <2>2. ASSUME NEW x \in Sockets, x # s PROVE open'[x] => PageOK(x)'
    BY <1>6, <2>2, PageKept DEF PageInv, RoomInv, Typed, TypeOK, Disconnect
  <2>3. QED  BY <2>1, <2>2
<1>7. ASSUME NEW s \in Sockets,
             (\E p \in Projects : OpenPage(s, p)) \/ ClosePage(s) \/ LoseClient(s)
      PROVE  \A x \in Sockets : open'[x] => PageOK(x)'
  BY <1>7, PageClient
<1>8. CASE Crash
  BY <1>8 DEF Crash
<1>9. CASE UNCHANGED vars
  BY <1>9, PageKept DEF PageInv, vars
<1>10. QED  BY <1>2, <1>3, <1>4, <1>5, <1>6, <1>7, <1>8, <1>9 DEF Next

\* A leave that overtakes the database's answer to its join is the only way in which a
\* socket, once its messages are handled, is in the room of a page it does not show.
THEOREM OnlyOvertakingStrays == Spec => []StraysByOvertaking
<1>1. Init => PageInv
  BY RoomInit DEF PageInv, Init
<1>2. PageInv /\ [Next]_vars => PageInv'
  BY PageNext
<1>3. PageInv => StraysByOvertaking
  <2> SUFFICES ASSUME PageInv, NEW s \in Sockets, open[s], inbox[s] = <<>>,
                      NEW p \in Projects, ProjectRoom(p) \in rooms[s],
                      p # viewing[s], p \notin strayed[s]
               PROVE  FALSE
    BY DEF StraysByOvertaking
  <2>1. LeaveIsDue(s, p)
    BY DEF PageInv, PageOK
  <2>2. QED  BY <2>1 DEF LeaveIsDue
<1>4. QED  BY <1>1, <1>2, <1>3, PTL DEF Spec
=============================================================================
