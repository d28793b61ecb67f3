--------------------------- MODULE AdminDashboard ---------------------------
(* AdminDashboard.tsx over Sockets: an admin's tab whose "Online Now" is set   *)
(* by the answer of GET /api/dashboard and by every presence:count pushed to   *)
(* the tab's socket.  The answer and the pushes come by different connections, *)
(* so either can overtake the other.  The tab is one of Sockets; a reconnect   *)
(* takes the same slot again.  The counts of projects and tasks beside it are  *)
(* read once and left out.                                                     *)
EXTENDS Sockets, Integers

CONSTANTS
    tab,            \* the socket of the tab
    TabProjects,    \* bound: the projects whose pages the tab goes to
    MaxPushes       \* bound: counts pushed to the tab and not handled yet

ASSUME DashboardAssumption == tab \in Sockets /\ MaxPushes \in Nat

VARIABLES
    mounted,        \* the tab shows the dashboard
    pushes,         \* the counts on their way to the tab
    fetch,          \* GET /api/dashboard, and its onlineUsers once answered
    stats,          \* the onlineUsers of the page's state, or Unknown
    crossed         \* history: a push was handled while the answer shown now was on its way

pageVars == <<mounted, fetch, stats, crossed>>
dashboardVars == <<vars, pushes, pageVars>>
-------------------------------------------------------------------------------
\* stats is null, and "-" is shown.
Unknown == -1

NoFetch == [pc |-> "none", count |-> 0]

\* getOnlineCount.
Online == Cardinality(DOMAIN onlineUsers)

DashboardInit ==
    /\ Init
    /\ mounted = FALSE
    /\ pushes = <<>>
    /\ fetch = NoFetch
    /\ stats = Unknown
    /\ crossed = FALSE

\* Whoever connects or goes is announced to the admins; what was on its way to the
\* tab is lost with its connection.  The tab shows the dashboard or a project's page,
\* never both.
SocketStep ==
    /\ Next
    /\ conn'[tab] # NoUser => RoleOf[conn'[tab]] = "ADMIN"
    /\ viewing'[tab] # NoProject => ~mounted /\ viewing'[tab] \in TabProjects
    /\ conn' # conn /\ open'[tab] => Len(pushes) < MaxPushes
    /\ pushes' = IF ~open'[tab] THEN <<>>
                 ELSE IF conn' # conn THEN Append(pushes, shown'[tab])
                 ELSE pushes
    /\ UNCHANGED pageVars

\* The tab goes to the dashboard, with or without a connection.
Mount ==
    /\ ~mounted /\ viewing[tab] = NoProject
    /\ mounted' = TRUE
    /\ fetch' = [pc |-> "asked", count |-> 0]
    /\ stats' = Unknown
    /\ crossed' = FALSE
    /\ UNCHANGED <<vars, pushes>>

\* Its handler is removed, and an answer that is still to come sets nothing.
Unmount ==
    /\ mounted
    /\ mounted' = FALSE
    /\ fetch' = NoFetch
    /\ stats' = Unknown
    /\ crossed' = FALSE
    /\ UNCHANGED <<vars, pushes>>

\* getAdminDashboard: the users are counted last, when the database has answered.
AnswerStats ==
    /\ fetch.pc = "asked"
    /\ fetch' = [pc |-> "answered", count |-> Online]
    /\ UNCHANGED <<vars, pushes, mounted, stats, crossed>>

StatsArrive ==
    /\ fetch.pc = "answered"
    /\ stats' = fetch.count
    /\ fetch' = NoFetch
    /\ UNCHANGED <<vars, pushes, mounted, crossed>>

\* The rejection is not handled: the page goes on without stats.
StatsFail ==
    /\ fetch.pc # "none"
    /\ fetch' = NoFetch
    /\ UNCHANGED <<vars, pushes, mounted, stats, crossed>>

\* The handler changes stats only where there are some.
WithOnline(count) == IF stats = Unknown THEN Unknown ELSE count

HandlePresence ==
    /\ pushes # <<>>
    /\ pushes' = Tail(pushes)
    /\ stats' = IF mounted THEN WithOnline(Head(pushes)) ELSE stats
    /\ crossed' = (fetch.pc = "answered")
    /\ UNCHANGED <<vars, mounted, fetch>>

DashboardNext ==
    \/ SocketStep
    \/ Mount
    \/ Unmount
    \/ AnswerStats
    \/ StatsArrive
    \/ StatsFail
    \/ HandlePresence

DashboardSpec == DashboardInit /\ [][DashboardNext]_dashboardVars
-------------------------------------------------------------------------------
\* With the tab connected and nothing on its way to it, "Online Now" is the number of
\* users the server has a socket of, through crashes, reconnects and second tabs,
\* unless the answer the page shows was overtaken by the newest push.
DashboardShowsOnline ==
    open[tab] /\ pushes = <<>> /\ fetch.pc = "none" /\ stats # Unknown /\ ~crossed =>
        stats = Cardinality({conn[s] : s \in Sockets} \ {NoUser})
=============================================================================
