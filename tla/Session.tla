------------------------------ MODULE Session ------------------------------
(* One browser tab between the routes of /api/auth and the pages: the access  *)
(* token in memory, the refresh cookie it shares with the browser's other     *)
(* tabs, request() with its one refresh and retry, AuthContext, and the token *)
(* the socket is created with.                                                *)
(*                                                                            *)
(* ResentAsBefore, ResentAfresh, MayRefreshAgain and SignedInFirst are not    *)
(* used here: each varies a definition after it, the way that code could be   *)
(* wrong.                                                                     *)
EXTENDS Integers, FiniteSets

CONSTANTS
    Users,
    NoUser,
    Requests,   \* bound: requests of the tab under way at once
    MaxAge      \* bound: how often the access tokens of the time expire

ASSUME SessionAssumption == NoUser \notin Users /\ Requests # {} /\ MaxAge \in Nat

VARIABLES
    age,        \* how often access tokens have expired
    cookie,     \* whose refresh token the browser holds, NoUser: none that is valid
    token,      \* accessToken of api/client.ts
    user,       \* user of AuthContext
    loading,    \* loading of AuthContext
    shown,      \* the user the page was last rendered for
    socket,     \* the token the page's socket was created with
    link,       \* its connection: "none", "up", if with gaps, or "refused" for good
    req,        \* the requests
    seen        \* history: what has happened to the session, of Happenings

vars == <<age, cookie, token, user, loading, shown, socket, link, req, seen>>
tab == <<token, user, loading, shown, socket, link>>

\* A request or its answer got lost, or the refresh token; another tab replaced it;
\* the tab signed out; it signed in or out while a refresh was under way.
Happenings == {"lost", "tab", "logout", "crossed"}
-------------------------------------------------------------------------------
Tokens == [sub : Users \cup {NoUser}, gen : 0..MaxAge]
NoToken == [sub |-> NoUser, gen |-> 0]

\* signAccessToken and verifyAccessToken: a token is good until it expires.
Signed(u) == IF u = NoUser THEN NoToken ELSE [sub |-> u, gen |-> age]
Live(t) == t.sub # NoUser /\ t.gen = age

\* who: whose credentials a login sends, NoUser: wrong ones.  sentToken and
\* sentCookie are what the browser attached, as far as the server reads it; got is
\* the token an answer brings.
Idle == [pc |-> "idle", path |-> "none", who |-> NoUser, tries |-> 0,
         sentToken |-> NoToken, sentCookie |-> NoUser, ok |-> FALSE, got |-> NoToken]

\* The refresh with which AuthContext starts; its GET /me is yet to be tried.
Booting == [Idle EXCEPT !.pc = "refreshing", !.path = "me", !.sentCookie = cookie]
BootSlot == CHOOSE r \in Requests : TRUE

Init ==
    /\ age = 0
    /\ cookie \in Users \cup {NoUser}
    /\ token = NoToken /\ user = NoUser /\ loading = TRUE
    /\ shown = NoUser /\ socket = NoToken /\ link = "none"
    /\ req = [r \in Requests |-> IF r = BootSlot THEN Booting ELSE Idle]
    /\ seen = {}

\* The page is loaded anew: what it had in memory and under way is gone.
Reload ==
    /\ token' = NoToken /\ user' = NoUser /\ loading' = TRUE
    /\ shown' = NoUser /\ socket' = NoToken /\ link' = "none"
    /\ req' = [r \in Requests |-> IF r = BootSlot THEN Booting ELSE Idle]
    /\ UNCHANGED <<age, cookie, seen>>
-------------------------------------------------------------------------------
\* The user and the pages start requests.

Begin(r, path, who) ==
    /\ req[r].pc = "idle"
    /\ req' = [req EXCEPT ![r] = [Idle EXCEPT !.pc = "sent", !.path = path, !.who = who,
                                              !.tries = 1,
                        !.sentToken = IF path = "data" THEN token ELSE NoToken]]
    /\ UNCHANGED <<age, cookie, tab, seen>>

\* The form stays disabled while a login is under way.
SubmitLogin(r, who) ==
    /\ ~loading /\ user = NoUser
    /\ \A q \in Requests : req[q].path # "login"
    /\ Begin(r, "login", who)

ClickLogout(r) == user # NoUser /\ Begin(r, "logout", NoUser)

PageAsks(r) == user # NoUser /\ Begin(r, "data", NoUser)
-------------------------------------------------------------------------------
\* The server.

\* authenticate guards the data and /me; login checks the credentials; logout is open.
Accepted(q) ==
    CASE q.path \in {"data", "me"} -> Live(q.sentToken)
      [] q.path = "login" -> q.who # NoUser
      [] q.path = "logout" -> TRUE

\* login of auth.service.ts.
Brought(q) == IF q.path = "login" THEN Signed(q.who) ELSE NoToken

\* What was sent is forgotten, but for whom /me answers about.
Serve(r) ==
    /\ req[r].pc = "sent"
    /\ req' = [req EXCEPT ![r].pc = "answered", ![r].ok = Accepted(req[r]),
                          ![r].got = Brought(req[r]),
                          ![r].sentToken = IF req[r].path = "me" THEN @ ELSE NoToken]
    /\ UNCHANGED <<age, cookie, tab, seen>>

\* POST /api/auth/refresh.
ServeRefresh(r) ==
    /\ req[r].pc = "refreshing"
    /\ req' = [req EXCEPT ![r].pc = "refreshed", ![r].got = Signed(req[r].sentCookie),
                          ![r].sentCookie = NoUser, ![r].sentToken = NoToken]
    /\ UNCHANGED <<age, cookie, tab, seen>>
-------------------------------------------------------------------------------
\* The client takes the answers.

MayRefreshAgain(q) == ~q.ok

\* A 401 is followed by one refresh, and the request by one retry.
MayRefresh(q) == ~q.ok /\ q.tries = 1

Refresh(r) ==
    /\ req[r].pc = "answered" /\ MayRefresh(req[r])
    /\ req' = [req EXCEPT ![r].pc = "refreshing", ![r].sentCookie = cookie]
    /\ UNCHANGED <<age, cookie, tab, seen>>

ResentAsBefore(q) ==
    [q EXCEPT !.pc = "sent", !.tries = q.tries + 1, !.got = NoToken]

ResentAfresh(q) ==
    [q EXCEPT !.pc = "sent", !.got = NoToken,
              !.sentToken = IF q.path \in {"data", "me"} THEN q.got ELSE NoToken]

\* The request goes out with the token the refresh brought.
Resent(q) ==
    [q EXCEPT !.pc = "sent", !.tries = q.tries + 1, !.got = NoToken,
              !.sentToken = IF q.path \in {"data", "me"} THEN q.got ELSE NoToken]

\* Whoever the token is for, it becomes the tab's.
RefreshArrives(r) ==
    /\ req[r].pc = "refreshed" /\ req[r].got # NoToken
    /\ token' = req[r].got
    /\ req' = [req EXCEPT ![r] = Resent(req[r])]
    /\ UNCHANGED <<age, cookie, user, loading, shown, socket, link, seen>>

Crossing(r) ==
    IF \E q \in Requests \ {r} : req[q].pc \in {"refreshing", "refreshed"}
    THEN {"crossed"} ELSE {}

SignedInFirst(r) == user' = req[r].who /\ token' = token

\* login of AuthContext.
SignedIn(r) == user' = req[r].who /\ token' = req[r].got

Succeed(r) ==
    /\ req[r].pc = "answered" /\ req[r].ok
    /\ CASE req[r].path = "login" ->
              /\ SignedIn(r) /\ cookie' = req[r].who
              /\ seen' = seen \cup Crossing(r)
              /\ UNCHANGED loading
         [] req[r].path = "logout" ->
              /\ user' = NoUser /\ token' = NoToken /\ cookie' = NoUser
              /\ seen' = seen \cup {"logout"} \cup Crossing(r)
              /\ UNCHANGED loading
         [] req[r].path = "me" ->
              /\ user' = req[r].sentToken.sub /\ loading' = FALSE
              /\ UNCHANGED <<token, cookie, seen>>
         [] req[r].path = "data" -> UNCHANGED <<user, token, cookie, loading, seen>>
    /\ req' = [req EXCEPT ![r] = Idle]
    /\ UNCHANGED <<age, shown, socket, link>>

\* An error ends the request; only the one AuthContext starts with does more.
GiveUp(r) ==
    /\ IF req[r].path = "me" THEN user' = NoUser /\ loading' = FALSE ELSE UNCHANGED <<user, loading>>
    /\ req' = [req EXCEPT ![r] = Idle]
    /\ UNCHANGED <<age, cookie, token, shown, socket, link>>

Refused(r) ==
    /\ \/ req[r].pc = "answered" /\ ~req[r].ok /\ ~MayRefresh(req[r])
       \/ req[r].pc = "refreshed" /\ req[r].got = NoToken
    /\ GiveUp(r)
    /\ UNCHANGED seen

\* Nothing comes back, or nothing got there.
Fail(r) ==
    /\ req[r].pc # "idle"
    /\ GiveUp(r)
    /\ seen' = seen \cup {"lost"}

\* The middleware of io.use.  socket.io tries again after a lost connection, and not
\* after a refusal of the server's own.
Handshake(t) == IF Live(t) THEN "up" ELSE "refused"

\* SocketProvider's effect runs after the page was rendered for another user, with
\* the token there is by then.
Render ==
    /\ shown # user
    /\ shown' = user
    /\ socket' = IF user = NoUser THEN NoToken ELSE token
    /\ link' = IF user = NoUser THEN "none" ELSE Handshake(socket')
    /\ UNCHANGED <<age, cookie, token, user, loading, req, seen>>

\* The connection is lost and socket.io connects again by itself, with the token of
\* the first time.
Reconnect ==
    /\ link = "up"
    /\ link' = Handshake(socket)
    /\ UNCHANGED <<age, cookie, token, user, loading, shown, socket, req, seen>>
-------------------------------------------------------------------------------
\* Time, and the browser's other tabs.

TokensExpire ==
    /\ age < MaxAge
    /\ age' = age + 1
    /\ UNCHANGED <<cookie, tab, req, seen>>

\* The refresh token expires, or another tab signs out.
CookieEnds ==
    /\ cookie # NoUser
    /\ cookie' = NoUser
    /\ seen' = seen \cup {"lost"}
    /\ UNCHANGED <<age, tab, req>>

\* Another tab signs in.
OtherTab(u) ==
    /\ cookie # u
    /\ cookie' = u
    /\ seen' = seen \cup {"tab"}
    /\ UNCHANGED <<age, tab, req>>
-------------------------------------------------------------------------------
Step(r) ==
    \/ Serve(r)
    \/ ServeRefresh(r)
    \/ Refresh(r)
    \/ RefreshArrives(r)
    \/ Succeed(r)
    \/ Refused(r)

Next ==
    \/ Reload
    \/ \E r \in Requests, who \in Users \cup {NoUser} : SubmitLogin(r, who)
    \/ \E r \in Requests : ClickLogout(r)
    \/ \E r \in Requests : PageAsks(r)
    \/ \E r \in Requests : Step(r)
    \/ \E r \in Requests : Fail(r)
    \/ Render
    \/ Reconnect
    \/ TokensExpire
    \/ CookieEnds
    \/ \E u \in Users : OtherTab(u)

\* A fetch settles, and the code after it runs.
Fairness == \A r \in Requests : WF_vars(Step(r))

Spec == Init /\ [][Next]_vars /\ Fairness
-------------------------------------------------------------------------------
\* Properties.

\* Every variable has its type.
TypeOK ==
    /\ age \in 0..MaxAge
    /\ cookie \in Users \cup {NoUser} /\ user \in Users \cup {NoUser} /\ shown \in Users \cup {NoUser}
    /\ token \in Tokens /\ socket \in Tokens
    /\ loading \in BOOLEAN
    /\ link \in {"none", "up", "refused"}
    /\ req \in [Requests ->
         [pc : {"idle", "sent", "answered", "refreshing", "refreshed"},
          path : {"none", "login", "logout", "me", "data"}, who : Users \cup {NoUser},
          tries : 0..2, sentToken : Tokens, sentCookie : Users \cup {NoUser},
          ok : BOOLEAN, got : Tokens]]
    /\ seen \subseteq Happenings

\* The tab's requests carry the token of the user it shows, and so does its socket,
\* unless another tab changed the cookie or the tab signed in or out while a refresh
\* was under way (tryRefresh takes any token; SocketContext reads it late).
TokenIsUsers ==
    seen \cap {"tab", "crossed"} = {} =>
        /\ user # NoUser /\ token # NoToken => token.sub = user
        /\ socket # NoToken => socket.sub = shown

\* When nothing is lost, a tab that has loaded is signed in as the owner of the
\* refresh cookie, and not at all without one, across reloads, logins and logouts,
\* as long as tokens expire no more than once (AuthContext, lines 22 to 47).
SessionFollowsCookie ==
    ~loading /\ age <= 1 /\ seen \cap {"lost", "tab"} = {} => user = cookie

\* When the session stays, one expiry does not show: no request of a page is about
\* to fail for want of a token (request and tryRefresh).
ExpiryIsHidden ==
    age <= 1 /\ seen = {} =>
        \A r \in Requests : req[r].path = "data" =>
            /\ ~(req[r].pc = "answered" /\ ~req[r].ok /\ req[r].tries # 1)
            /\ ~(req[r].pc = "refreshed" /\ req[r].got = NoToken)

\* Whatever logins, refreshes and logouts the page's socket was created beside, it has
\* a token, and comes back whenever its connection is lost until that token expires
\* (SocketContext keeps the token of the creation; io.use refuses it then).
SocketComesBack ==
    /\ shown # NoUser => link # "none"
    /\ link = "refused" => socket # NoToken /\ socket.gen < age

\* Every request comes to an end, a login with wrong credentials too, whatever
\* expires meanwhile, once the user stops reloading the page (request retries once).
RequestEnds ==
    <>[][~Reload]_vars => \A r \in Requests : []<>(req[r].pc = "idle")
=============================================================================
