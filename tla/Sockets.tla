------------------------------- MODULE Sockets -------------------------------
(* sockets/index.ts: the rooms a connection is in, the presence map, and the  *)
(* messages with which a project page joins and leaves its room, over the     *)
(* rights of Access.                                                          *)
(*                                                                            *)
(* A connection is the server's socket and the client's end of it.  The server*)
(* may go on holding a socket whose client is gone until its ping times out.  *)
(* Messages of one connection arrive in order, but the handler of a join waits*)
(* for the database, so the handlers of later messages can run before it ends.*)
(*                                                                            *)
(* AllowedByRole, UntrackedUser, UntrackedKeeping and AnnounceFirst are not    *)
(* used here: each varies the definition after it, the way that code could be *)
(* wrong.                                                                     *)
EXTENDS Access, Naturals, Sequences, FiniteSets

CONSTANTS
    Sockets,        \* connections that can exist together
    Joins,          \* bound: slots for join handlers one socket can have waiting
    MaxInbox        \* bound: room messages of one client sent and not yet handled

ASSUME SocketsAssumption ==
    /\ NoProject \notin Projects
    /\ MaxInbox \in Nat

VARIABLES
    conn,           \* socket -> its user, or NoUser: the server has no such socket
    rooms,          \* socket -> the rooms it has joined
    onlineUsers,    \* the presence map: user -> non-empty set of sockets
    shown,          \* socket -> the last presence:count emitted to it
    checks,         \* socket -> its join handlers that wait for userCanAccessProject:
                    \* slot -> the project asked for, and whether the answer is yes
    open,           \* socket -> the client's end is alive
    viewing,        \* socket -> the project whose page the client shows
    inbox,          \* socket -> the room messages sent and not yet handled
    strayed         \* history: socket -> projects whose latest leave was handled while
                    \* a join of it was waiting

serverVars == <<conn, rooms, onlineUsers, shown, checks>>
clientVars == <<open, viewing, inbox>>
vars == <<pmId, task, conn, rooms, onlineUsers, shown, checks, open, viewing, inbox, strayed>>
-------------------------------------------------------------------------------
\* Rooms.

ProjectRoom(p) == <<"project", p>>

\* The room of a role's own feed.
RoleRoom(u) ==
    CASE RoleOf[u] = "ADMIN" -> <<"admin-feed">>
      [] RoleOf[u] = "PM" -> <<"pm-feed", u>>
      [] RoleOf[u] = "DEVELOPER" -> <<"dev-feed", u>>

\* broadcastActivity: the rooms an event about task t is emitted to.
BroadcastRooms(t) ==
    {ProjectRoom(task[t].project), <<"admin-feed">>, <<"pm-feed", pmId[task[t].project]>>}
    \cup {<<"dev-feed", a>> : a \in {task[t].assignee} \ {NoUser}}

Rooms ==
    {ProjectRoom(p) : p \in Projects} \cup {RoleRoom(u) : u \in Users}
    \cup {<<"user", u>> : u \in Users}
-------------------------------------------------------------------------------
\* Presence.

\* trackOnline.
Tracked(s, u) ==
    [x \in DOMAIN onlineUsers \cup {u} |->
        (IF x \in DOMAIN onlineUsers THEN onlineUsers[x] ELSE {})
        \cup (IF x = u THEN {s} ELSE {})]

UntrackedUser(s, u) == [x \in DOMAIN onlineUsers \ {u} |-> onlineUsers[x]]

UntrackedKeeping(s, u) == [x \in DOMAIN onlineUsers |-> onlineUsers[x] \ {s}]

\* untrackOnline.
Untracked(s, u) ==
    [x \in {y \in DOMAIN onlineUsers : y = u => onlineUsers[y] # {s}} |->
        IF x = u THEN onlineUsers[x] \ {s} ELSE onlineUsers[x]]

AnnounceFirst(joined, online) ==
    [s \in Sockets |-> IF <<"admin-feed">> \in joined[s]
                       THEN Cardinality(DOMAIN onlineUsers) ELSE shown[s]]

\* broadcastPresenceCount, given the rooms and the map by then.
Announce(joined, online) ==
    [s \in Sockets |-> IF <<"admin-feed">> \in joined[s]
                       THEN Cardinality(DOMAIN online) ELSE shown[s]]
-------------------------------------------------------------------------------
NoCheck == [pc |-> "none"]

Check == [pc : {"asked", "allowed"}, project : Projects]

Free == [j \in Joins |-> NoCheck]

Init ==
    /\ AccessInit
    /\ conn = [s \in Sockets |-> NoUser]
    /\ rooms = [s \in Sockets |-> {}]
    /\ onlineUsers = [u \in {} |-> {}]
    /\ shown = [s \in Sockets |-> 0]
    /\ checks = [s \in Sockets |-> Free]
    /\ open = [s \in Sockets |-> FALSE]
    /\ viewing = [s \in Sockets |-> NoProject]
    /\ inbox = [s \in Sockets |-> <<>>]
    /\ strayed = [s \in Sockets |-> {}]

-------------------------------------------------------------------------------
\* The server.

\* handleConnection, of a client whose page shows p.  A page that mounts with its
\* socket sends its join with it; one that was mounted before the connection was
\* lost is not told of the new one and sends nothing.
Connect(s, u, p, mounting) ==
    /\ conn[s] = NoUser
    /\ mounting => p # NoProject
    /\ conn' = [conn EXCEPT ![s] = u]
    /\ rooms' = [rooms EXCEPT ![s] = {<<"user", u>>, RoleRoom(u)}]
    /\ onlineUsers' = Tracked(s, u)
    /\ shown' = Announce(rooms', onlineUsers')
    /\ open' = [open EXCEPT ![s] = TRUE]
    /\ viewing' = [viewing EXCEPT ![s] = p]
    /\ inbox' = [inbox EXCEPT ![s] = IF mounting THEN <<[op |-> "join", project |-> p]>>
                                     ELSE <<>>]
    /\ UNCHANGED <<pmId, task, checks, strayed>>

\* project:join up to the await.  The answer to an admin comes without a query,
\* but also only after the handlers that are already due.
HandleJoin(s, j) ==
    /\ inbox[s] # <<>>
    /\ Head(inbox[s]).op = "join"
    /\ checks[s][j] = NoCheck
    /\ checks' = [checks EXCEPT ![s][j] = [pc |-> "asked", project |-> Head(inbox[s]).project]]
    /\ inbox' = [inbox EXCEPT ![s] = Tail(@)]
    /\ UNCHANGED <<pmId, task, conn, rooms, onlineUsers, shown, open, viewing, strayed>>

AllowedByRole(u, p) == RoleOf[u] # "DEVELOPER" \/ HasTask(u, p)

Allowed(u, p) == CanAccess(u, p)

\* The database answers; a refused join ends here.
CheckAccess(s, j) ==
    /\ checks[s][j].pc = "asked"
    /\ checks' = [checks EXCEPT ![s][j] =
                     IF Allowed(conn[s], checks[s][j].project)
                     THEN [checks[s][j] EXCEPT !.pc = "allowed"] ELSE NoCheck]
    /\ UNCHANGED <<pmId, task, conn, rooms, onlineUsers, shown, clientVars, strayed>>

\* project:join after the await.
FinishJoin(s, j) ==
    /\ checks[s][j].pc = "allowed"
    /\ rooms' = [rooms EXCEPT ![s] = @ \cup {ProjectRoom(checks[s][j].project)}]
    /\ checks' = [checks EXCEPT ![s][j] = NoCheck]
    /\ UNCHANGED <<pmId, task, conn, onlineUsers, shown, clientVars, strayed>>

\* The projects whose joins of s wait.
Asking(s) == {checks[s][j].project : j \in {k \in Joins : checks[s][k] # NoCheck}}

\* project:leave.
HandleLeave(s) ==
    /\ inbox[s] # <<>>
    /\ Head(inbox[s]).op = "leave"
    /\ LET p == Head(inbox[s]).project IN
        /\ rooms' = [rooms EXCEPT ![s] = @ \ {ProjectRoom(p)}]
        /\ strayed' = [strayed EXCEPT ![s] =
             IF p \in Asking(s) THEN @ \cup {p} ELSE @ \ {p}]
    /\ inbox' = [inbox EXCEPT ![s] = Tail(@)]
    /\ UNCHANGED <<pmId, task, conn, onlineUsers, shown, checks, open, viewing>>

\* The server drops the socket: on a close it saw, or when pings stay unanswered.
\* socket.io leaves all rooms first and makes the join of a handler that is
\* still waiting a no-op, so that handler is as good as gone.
Disconnect(s) ==
    /\ conn[s] # NoUser
    /\ conn' = [conn EXCEPT ![s] = NoUser]
    /\ rooms' = [rooms EXCEPT ![s] = {}]
    /\ onlineUsers' = Untracked(s, conn[s])
    /\ shown' = Announce(rooms', onlineUsers')
    /\ checks' = [checks EXCEPT ![s] = Free]
    /\ open' = [open EXCEPT ![s] = FALSE]
    /\ viewing' = [viewing EXCEPT ![s] = NoProject]
    /\ inbox' = [inbox EXCEPT ![s] = <<>>]
    /\ strayed' = [strayed EXCEPT ![s] = {}]
    /\ UNCHANGED <<pmId, task>>

\* The process ends, for one because the check of a join rejected and nothing
\* catches that, and is started again.  Rooms and presence were in memory only.
Crash ==
    /\ conn # [s \in Sockets |-> NoUser]
    /\ conn' = [s \in Sockets |-> NoUser]
    /\ rooms' = [s \in Sockets |-> {}]
    /\ onlineUsers' = [u \in {} |-> {}]
    /\ shown' = [s \in Sockets |-> 0]
    /\ checks' = [s \in Sockets |-> Free]
    /\ open' = [s \in Sockets |-> FALSE]
    /\ viewing' = [s \in Sockets |-> NoProject]
    /\ inbox' = [s \in Sockets |-> <<>>]
    /\ strayed' = [s \in Sockets |-> {}]
    /\ UNCHANGED accessVars
-------------------------------------------------------------------------------
\* The clients.

\* ActivityFeed mounts with a projectId.
OpenPage(s, p) ==
    /\ open[s] /\ viewing[s] = NoProject
    /\ Len(inbox[s]) < MaxInbox
    /\ viewing' = [viewing EXCEPT ![s] = p]
    /\ inbox' = [inbox EXCEPT ![s] = Append(@, [op |-> "join", project |-> p])]
    /\ UNCHANGED <<pmId, task, serverVars, open, strayed>>

\* It unmounts, or its projectId changes.
ClosePage(s) ==
    /\ open[s] /\ viewing[s] # NoProject
    /\ Len(inbox[s]) < MaxInbox
    /\ viewing' = [viewing EXCEPT ![s] = NoProject]
    /\ inbox' = [inbox EXCEPT ![s] = Append(@, [op |-> "leave", project |-> viewing[s]])]
    /\ UNCHANGED <<pmId, task, serverVars, open, strayed>>

\* The tab is closed or loses its network; the server does not know yet.
LoseClient(s) ==
    /\ open[s]
    /\ open' = [open EXCEPT ![s] = FALSE]
    /\ viewing' = [viewing EXCEPT ![s] = NoProject]
    /\ UNCHANGED <<pmId, task, serverVars, inbox, strayed>>
-------------------------------------------------------------------------------
Next ==
    \/ AccessNext /\ UNCHANGED <<serverVars, clientVars, strayed>>
    \/ \E s \in Sockets :
        \/ \E u \in Users, p \in Projects \cup {NoProject}, mounting \in BOOLEAN :
              Connect(s, u, p, mounting)
        \/ \E j \in Joins : HandleJoin(s, j) \/ CheckAccess(s, j) \/ FinishJoin(s, j)
        \/ HandleLeave(s)
        \/ Disconnect(s)
        \/ \E p \in Projects : OpenPage(s, p)
        \/ ClosePage(s)
        \/ LoseClient(s)
    \/ Crash

Spec == Init /\ [][Next]_vars
-------------------------------------------------------------------------------
\* Every variable has its type, no user of the presence map is left with an
\* empty set, and what a handler or a message names exists.
TypeOK ==
    /\ pmId \in [Created -> Users] /\ Created \subseteq Projects
    /\ task \in [DOMAIN task -> TaskRef] /\ DOMAIN task \subseteq Tasks
    /\ \A t \in DOMAIN task : task[t].project \in Created
    /\ conn \in [Sockets -> Users \cup {NoUser}]
    /\ rooms \in [Sockets -> SUBSET Rooms]
    /\ DOMAIN onlineUsers \subseteq Users
    /\ onlineUsers \in [DOMAIN onlineUsers -> (SUBSET Sockets) \ {{}}]
    /\ shown \in [Sockets -> Nat]
    /\ checks \in [Sockets -> [Joins -> Check \cup {NoCheck}]]
    /\ open \in [Sockets -> BOOLEAN]
    /\ viewing \in [Sockets -> Projects \cup {NoProject}]
    /\ inbox \in [Sockets -> Seq([op : {"join", "leave"}, project : Projects])]
    /\ strayed \in [Sockets -> SUBSET Projects]

\* A socket is only ever in rooms its user may hear: its own, its role's, and
\* those of projects it could open, although the right was checked before an
\* await and messages, disconnects and new tasks come in between.
RoomsAreEntitled ==
    \A s \in Sockets : \A room \in rooms[s] :
        /\ conn[s] # NoUser
        /\ \/ room \in {<<"user", conn[s]>>, RoleRoom(conn[s])}
           \/ \E p \in Projects :
                /\ room = ProjectRoom(p)
                /\ RoleOf[conn[s]] = "ADMIN" \/ GetProject(conn[s], p)

\* What is pushed is what would be fetched.  Outside the project rooms a connected
\* user receives an event about exactly the tasks of the user's own feed; and while a
\* socket is in a project's room, its user is pushed exactly the tasks the feed of that
\* project or the user's own would return.  It says nothing of who may fetch: the room
\* checks its user (RoomsAreEntitled), getFeed with a projectId does not.
LiveMatchesFeed ==
    \A s \in Sockets : conn[s] # NoUser =>
        LET u == conn[s]
            joined == {p \in Projects : ProjectRoom(p) \in rooms[s]}
        IN  \A t \in DOMAIN task :
                LET heard == BroadcastRooms(t) \cap rooms[s] IN
                /\ t \in Feed(u, NoProject) <=> heard \ {ProjectRoom(p) : p \in Projects} # {}
                /\ heard # {} <=> \E p \in joined \cup {NoProject} : t \in Feed(u, p)

\* The presence map holds exactly the sockets the server has, by their users:
\* a second tab keeps a user online when the first one goes.
PresenceIsExact ==
    onlineUsers = [u \in {conn[s] : s \in Sockets} \ {NoUser} |->
                     {s \in Sockets : conn[s] = u}]

\* A socket is in the room of a page it does not show only when the leave of that page
\* was handled while a join of it waited.
StraysByOvertaking ==
    \A s \in Sockets : open[s] /\ inbox[s] = <<>> /\ Asking(s) = {} =>
        \A p \in Projects :
            ProjectRoom(p) \in rooms[s] => p = viewing[s] \/ p \in strayed[s]
-------------------------------------------------------------------------------
\* What the repository's text says and the code does not do.

\* sockets/index.ts: "A client joins a project room only while actively viewing that
\* project's page", so with its messages handled and no join waiting a live client's
\* socket is in no project's room but that of its page.  A leave does not wait for the
\* join before it; it finds no room to leave, and the join then goes through.
RoomsFollowPage ==
    \A s \in Sockets : open[s] /\ inbox[s] = <<>> /\ Asking(s) = {} =>
        \A p \in Projects : ProjectRoom(p) \in rooms[s] => p = viewing[s]
=============================================================================
