------------------------ MODULE AdminDashboard_proofs ------------------------
(* What TLAPS proves of AdminDashboard, over what it proves of Sockets, for   *)
(* every number of users, of sockets and of pushes on their way.              *)
EXTENDS AdminDashboard, Sockets_proofs

\* The rest of the system behaves as in Sockets, and the tab is an admin's.
ServerOK ==
    /\ RoomInv /\ PresenceIsExact
    /\ conn[tab] # NoUser => RoleOf[conn[tab]] = "ADMIN"

\* The last count emitted to the tab is the number of users online now, and so is
\* the last that is still on its way.
LastPush ==
    /\ pushes \in Seq(Nat)
    /\ conn[tab] # NoUser => shown[tab] = Online
    /\ open[tab] /\ pushes # <<>> => pushes[Len(pushes)] = Online

\* With no push on its way, an answer that is on its way, and then the number on the
\* page, is that number too, unless a push was handled while the answer was on its way.
PageOfLast ==
    /\ fetch.pc # "none" => mounted /\ stats = Unknown
    /\ ~mounted => stats = Unknown
    /\ open[tab] /\ pushes = <<>> /\ ~crossed =>
         /\ fetch.pc = "answered" => fetch.count = Online
         /\ stats # Unknown => stats = Online

DashboardInv == ServerOK /\ LastPush /\ PageOfLast

LEMMA DashboardStart == DashboardInit => DashboardInv
<1> SUFFICES ASSUME DashboardInit PROVE DashboardInv
  OBVIOUS
<1>1. RoomInv /\ PresenceIsExact
  BY RoomInit DEF DashboardInit, Init, PresenceIsExact
<1>2. conn[tab] = NoUser /\ ~open[tab]
  BY DashboardAssumption DEF DashboardInit, Init
<1>3. pushes = <<>> /\ pushes \in Seq(Nat)
  BY EmptySeq DEF DashboardInit
<1>4. QED  BY <1>1, <1>2, <1>3 DEF DashboardInit, DashboardInv, ServerOK, LastPush, PageOfLast, NoFetch

\* Who is online changes only with the connections, and is then announced to an
\* admin's socket that stays or comes.
LEMMA AnnouncedOrSame ==
    ASSUME ServerOK, Next, RoomInv', conn'[tab] # NoUser => RoleOf[conn'[tab]] = "ADMIN"
    PROVE  /\ conn' = conn => UNCHANGED <<onlineUsers, shown>> /\ (open'[tab] => open[tab])
           /\ conn' # conn /\ conn'[tab] # NoUser => shown'[tab] = Online'
<1>1. tab \in Sockets /\ conn \in [Sockets -> Users \cup {NoUser}] /\ NoUser \notin Users
  BY DashboardAssumption, DomainAssumption DEF ServerOK, RoomInv, Typed, TypeOK
<1>2. conn'[tab] # NoUser => <<"admin-feed">> \in rooms'[tab]
  BY <1>1 DEF RoomInv, SocketOK, RoleRoom
<1>3. ASSUME UNCHANGED <<conn, onlineUsers, shown>>, open'[tab] => open[tab]
      PROVE  /\ conn' = conn => UNCHANGED <<onlineUsers, shown>> /\ (open'[tab] => open[tab])
             /\ conn' # conn /\ conn'[tab] # NoUser => shown'[tab] = Online'
  BY <1>3
<1>4. ASSUME conn' # conn, shown' = Announce(rooms', onlineUsers')
      PROVE  /\ conn' = conn => UNCHANGED <<onlineUsers, shown>> /\ (open'[tab] => open[tab])
             /\ conn' # conn /\ conn'[tab] # NoUser => shown'[tab] = Online'
  BY <1>1, <1>2, <1>4 DEF Announce, Online
<1>5. CASE AccessNext /\ UNCHANGED <<serverVars, clientVars, strayed>>
  BY <1>3, <1>5 DEF serverVars, clientVars
<1>6. ASSUME NEW s \in Sockets, NEW u \in Users, NEW p \in Projects \cup {NoProject},
             NEW mounting \in BOOLEAN, Connect(s, u, p, mounting)
      PROVE  conn' # conn /\ shown' = Announce(rooms', onlineUsers')
  BY <1>1, <1>6 DEF Connect
<1>7. ASSUME NEW s \in Sockets, Disconnect(s)
      PROVE  conn' # conn /\ shown' = Announce(rooms', onlineUsers')
  BY <1>1, <1>7 DEF Disconnect
<1>8. ASSUME NEW s \in Sockets,
             \/ \E j \in Joins : HandleJoin(s, j) \/ CheckAccess(s, j) \/ FinishJoin(s, j)
             \/ HandleLeave(s) \/ ClosePage(s) \/ LoseClient(s)
             \/ \E p \in Projects : OpenPage(s, p)
      PROVE  UNCHANGED <<conn, onlineUsers, shown>> /\ (open'[tab] => open[tab])
  BY <1>1, <1>8 DEF HandleJoin, CheckAccess, FinishJoin, HandleLeave, ClosePage, LoseClient,
              OpenPage, serverVars, clientVars, ServerOK, RoomInv, Typed, TypeOK
<1>9. CASE Crash
  BY <1>1, <1>9 DEF Crash
<1>10. QED  BY <1>3, <1>4, <1>5, <1>6, <1>7, <1>8, <1>9 DEF Next

LEMMA DashboardSocketStep ==
    ASSUME DashboardInv, SocketStep
    PROVE  DashboardInv'
<1>1. Next /\ UNCHANGED pageVars /\ (conn'[tab] # NoUser => RoleOf[conn'[tab]] = "ADMIN")
  BY DEF SocketStep
<1>2. ServerOK'
  BY <1>1, RoomNext, PresenceNext DEF DashboardInv, ServerOK, RoomInv
<1>3. /\ conn' = conn => UNCHANGED <<onlineUsers, shown>> /\ (open'[tab] => open[tab])
      /\ conn' # conn /\ conn'[tab] # NoUser => shown'[tab] = Online'
  BY <1>1, <1>2, AnnouncedOrSame DEF DashboardInv, ServerOK
<1>4. /\ shown \in [Sockets -> Nat] /\ shown' \in [Sockets -> Nat] /\ tab \in Sockets
      /\ open'[tab] => conn'[tab] # NoUser
  BY <1>2, DashboardAssumption DEF DashboardInv, ServerOK, RoomInv, SocketOK, Typed, TypeOK
<1>5. pushes' = IF ~open'[tab] THEN <<>>
                ELSE IF conn' # conn THEN Append(pushes, shown'[tab])
                ELSE pushes
  BY DEF SocketStep
<1>6. conn' = conn => Online' = Online
  BY <1>3 DEF Online
<1>7. CASE ~open'[tab]
  <2>1. pushes' \in Seq(Nat)
    BY <1>5, <1>7, EmptySeq
  <2>2. conn'[tab] # NoUser => shown'[tab] = Online'
    BY <1>3, <1>6 DEF DashboardInv, LastPush
  <2>3. QED  BY <1>1, <1>2, <1>7, <2>1, <2>2 DEF DashboardInv, LastPush, PageOfLast, pageVars
<1>8. CASE open'[tab] /\ conn' # conn
  <2>1. /\ pushes' = Append(pushes, shown'[tab]) /\ shown'[tab] \in Nat /\ pushes \in Seq(Nat)
        /\ shown'[tab] = Online'
    BY <1>3, <1>4, <1>5, <1>8 DEF DashboardInv, LastPush
  <2>2. pushes' \in Seq(Nat) /\ pushes' # <<>> /\ pushes'[Len(pushes')] = Online'
    BY <2>1, AppendProperties
  <2>3. QED  BY <1>1, <1>2, <2>1, <2>2 DEF DashboardInv, LastPush, PageOfLast, pageVars
<1>9. CASE open'[tab] /\ conn' = conn
  <2>1. pushes' = pushes /\ open[tab] /\ shown' = shown
    BY <1>3, <1>5, <1>9
  <2>2. QED  BY <1>1, <1>2, <1>6, <1>9, <2>1 DEF DashboardInv, LastPush, PageOfLast, pageVars
<1>10. QED  BY <1>7, <1>8, <1>9

LEMMA DashboardPageStep ==
    ASSUME DashboardInv,
           Mount \/ Unmount \/ AnswerStats \/ StatsArrive \/ StatsFail \/ HandlePresence
    PROVE  DashboardInv'
<1>1. UNCHANGED vars
  BY DEF Mount, Unmount, AnswerStats, StatsArrive, StatsFail, HandlePresence
<1>2. UNCHANGED <<conn, shown, open, onlineUsers>> /\ Online' = Online
  BY <1>1 DEF vars, Online
<1>3. ServerOK'
  <2>1. RoomInv'
    BY <1>1, RoomNext DEF DashboardInv, ServerOK
  <2>2. QED  BY <1>2, <2>1 DEF DashboardInv, ServerOK, PresenceIsExact
<1>4. CASE Mount \/ Unmount
  BY <1>2, <1>3, <1>4 DEF Mount, Unmount, DashboardInv, LastPush, PageOfLast, NoFetch
<1>5. CASE AnswerStats
  BY <1>2, <1>3, <1>5 DEF AnswerStats, DashboardInv, LastPush, PageOfLast
<1>6. CASE StatsArrive
  BY <1>2, <1>3, <1>6 DEF StatsArrive, DashboardInv, LastPush, PageOfLast, NoFetch
<1>7. CASE StatsFail
  BY <1>2, <1>3, <1>7 DEF StatsFail, DashboardInv, LastPush, PageOfLast, NoFetch
<1>8. CASE HandlePresence
  <2>1. pushes \in Seq(Nat) /\ pushes # <<>> /\ pushes' = Tail(pushes)
    BY <1>8 DEF HandlePresence, DashboardInv, LastPush
  <2>2. /\ pushes' \in Seq(Nat) /\ Len(pushes) \in Nat /\ Len(pushes) # 0
        /\ pushes' # <<>> => pushes'[Len(pushes')] = pushes[Len(pushes)]
        /\ pushes' = <<>> => Head(pushes) = pushes[Len(pushes)]
    <3>1. /\ Len(pushes) \in Nat \ {0} /\ Len(pushes') = Len(pushes) - 1
          /\ pushes' \in Seq(Nat) /\ Head(pushes) = pushes[1]
          /\ \A i \in 1..Len(pushes') : pushes'[i] = pushes[i + 1]
      BY <2>1, HeadTailProperties, EmptySeq
    <3>2. pushes' # <<>> => Len(pushes') \in Nat \ {0}
      BY <3>1, EmptySeq
    <3>3. pushes' = <<>> => Len(pushes') = 0
      OBVIOUS
    <3>4. QED  BY <3>1, <3>2, <3>3
  <2>3. LastPush'
    BY <1>2, <2>1, <2>2 DEF DashboardInv, LastPush
  <2>4. ASSUME open[tab], pushes' = <<>>, fetch.pc # "answered", stats' # Unknown
        PROVE  stats' = Online
    BY <1>8, <2>1, <2>2, <2>4 DEF HandlePresence, WithOnline, DashboardInv, LastPush, PageOfLast
  <2>5. PageOfLast'
    <3>1. /\ crossed' = (fetch.pc = "answered") /\ mounted' = mounted /\ fetch' = fetch
          /\ stats = Unknown => stats' = Unknown
      BY <1>8 DEF HandlePresence, WithOnline
    <3>2. (fetch.pc # "none" => mounted /\ stats = Unknown) /\ (~mounted => stats = Unknown)
      BY DEF DashboardInv, PageOfLast
    <3>3. QED  BY <1>2, <2>4, <3>1, <3>2 DEF PageOfLast
  <2>6. QED  BY <1>3, <2>3, <2>5 DEF DashboardInv
<1>9. QED  BY <1>4, <1>5, <1>6, <1>7, <1>8

\* "Online Now" of an admin's tab is always the number of users with a socket once
\* nothing is on its way to the tab, whichever of the answer and the pushes came first,
\* unless the answer was overtaken by the newest push.
THEOREM DashboardAlwaysShowsOnline == DashboardSpec => []DashboardShowsOnline
<1>1. DashboardInit => DashboardInv
  BY DashboardStart
<1>2. DashboardInv /\ [DashboardNext]_dashboardVars => DashboardInv'
  <2> SUFFICES ASSUME DashboardInv, [DashboardNext]_dashboardVars PROVE DashboardInv'
    OBVIOUS
  <2>1. CASE UNCHANGED dashboardVars
    <3>1. UNCHANGED vars /\ UNCHANGED <<pushes, mounted, fetch, stats, crossed>>
      BY <2>1 DEF dashboardVars, pageVars
    <3>2. RoomInv'
      BY <3>1, RoomNext DEF DashboardInv, ServerOK
    <3>3. QED
      BY <3>1, <3>2 DEF DashboardInv, ServerOK, PresenceIsExact, LastPush, PageOfLast, Online, vars
  <2>2. QED  BY <2>1, DashboardSocketStep, DashboardPageStep DEF DashboardNext
<1>3. DashboardInv => DashboardShowsOnline
  <2> SUFFICES ASSUME DashboardInv, open[tab], pushes = <<>>, stats # Unknown, ~crossed
               PROVE  stats = Cardinality({conn[s] : s \in Sockets} \ {NoUser})
    BY DEF DashboardShowsOnline
  <2>1. stats = Cardinality(DOMAIN onlineUsers)
    BY DEF DashboardInv, PageOfLast, Online
  <2>2. DOMAIN onlineUsers = {conn[s] : s \in Sockets} \ {NoUser}
    BY DEF DashboardInv, ServerOK, PresenceIsExact
  <2>3. QED  BY <2>1, <2>2
<1>4. QED  BY <1>1, <1>2, <1>3, PTL DEF DashboardSpec

\* Beside the dashboard the server, its sockets and their pages behave as in Sockets:
\* the page reads the presence map and takes what is pushed to it, and sets nothing there.
LEMMA DashboardIsWatching == DashboardSpec => Spec
<1>1. DashboardInit => Init
  BY DEF DashboardInit
<1>2. [DashboardNext]_dashboardVars => [Next]_vars
  BY DEF DashboardNext, dashboardVars, SocketStep, Mount, Unmount, AnswerStats, StatsArrive,
         StatsFail, HandlePresence
<1>3. QED  BY <1>1, <1>2, PTL DEF DashboardSpec, Spec

\* So the presence map is exact with the dashboard beside it too.
THEOREM PresenceExactBesideDashboard == DashboardSpec => []PresenceIsExact
BY DashboardIsWatching, PresenceAlwaysExact, PTL
=============================================================================
