---------------------------- MODULE Session_proofs ----------------------------
(* What TLAPS proves of Session for every set of users and of requests and any *)
(* number of expiries.                                                         *)
EXTENDS Session, TLAPS

Request ==
    [pc : {"idle", "sent", "answered", "refreshing", "refreshed"},
     path : {"none", "login", "logout", "me", "data"}, who : Users \cup {NoUser},
     tries : 0..2, sentToken : Tokens, sentCookie : Users \cup {NoUser},
     ok : BOOLEAN, got : Tokens]

\* A token is none, or was signed for a user and has not come from the future.
Good(t) == t = NoToken \/ (t.sub \in Users /\ t.gen <= age)

\* The stages of a request: a retry and the refresh before it come at most once; what
\* is sent with a token has one.
Staged(q) ==
    /\ IF q.pc = "idle" THEN q = Idle ELSE q.path # "none"
    /\ q.pc \in {"refreshing", "refreshed"} => q.tries = 1 \/ (q.tries = 0 /\ q.path = "me")
    /\ q.pc \in {"sent", "answered"} => q.tries \in {1, 2}
    /\ q.pc = "sent" /\ q.path = "data" => q.sentToken # NoToken
    /\ q.pc = "answered" /\ q.ok /\ q.path = "login" => q.got # NoToken /\ q.got.sub = q.who
    /\ Good(q.sentToken) /\ Good(q.got)

\* A token was refused for its age: once by the first try, twice by the second.
Aged(q) ==
    q.path \in {"me", "data"} =>
        /\ q.tries = 1 /\ (q.pc = "refreshing" \/ (q.pc = "answered" /\ ~q.ok)) => age >= 1
        /\ q.tries = 1 /\ q.pc = "refreshed" /\ q.got # NoToken => q.got.gen >= 1
        /\ q.tries = 2 /\ q.pc = "sent" => q.sentToken.gen >= 1
        /\ q.tries = 2 /\ q.pc = "answered" /\ ~q.ok => age >= 2

\* While the page loads there is its GET /me and nothing else; the tab's token is the one
\* it is sent with.  A user who is shown has a token.
Boots ==
    /\ loading =>
         /\ user = NoUser /\ req[BootSlot].path = "me"
         /\ \A r \in Requests \ {BootSlot} : req[r] = Idle
         /\ req[BootSlot].pc \in {"sent", "answered"} =>
              token = req[BootSlot].sentToken /\ token # NoToken
    /\ ~loading => \A r \in Requests : req[r].path # "me"
    /\ user # NoUser => token # NoToken

Links ==
    /\ Good(token) /\ Good(socket)
    /\ shown # NoUser => link # "none"
    /\ link = "up" => socket # NoToken
    /\ link = "refused" => socket # NoToken /\ socket.gen < age

\* Whose answer the GET /me, or the refresh before it, will bring.
BootIsCookie ==
    LET q == req[BootSlot] IN
    /\ q.pc = "refreshing" => q.sentCookie = cookie
    /\ q.pc = "refreshed" => IF cookie = NoUser THEN q.got = NoToken
                             ELSE q.got # NoToken /\ q.got.sub = cookie
    /\ q.pc \in {"sent", "answered"} => q.sentToken.sub = cookie

\* The same where the cookie may have ended meanwhile.
BootWasCookie ==
    LET q == req[BootSlot] IN
    /\ q.pc = "refreshing" => q.sentCookie = NoUser \/ cookie \in {NoUser, q.sentCookie}
    /\ q.pc = "refreshed" => q.got = NoToken \/ cookie \in {NoUser, q.got.sub}
    /\ q.pc \in {"sent", "answered"} => cookie \in {NoUser, q.sentToken.sub}

\* No refresh under way can bring the token of somebody else than the user shown.
RefreshesAreUsers ==
    \A r \in Requests :
        /\ req[r].pc = "refreshing" => req[r].sentCookie \in {NoUser, user}
        /\ req[r].pc = "refreshed" => req[r].got = NoToken \/ req[r].got.sub = user

Owned ==
    /\ "tab" \notin seen /\ loading => BootWasCookie
    /\ seen \cap {"tab", "crossed"} = {} =>
         /\ user # NoUser => cookie \in {NoUser, user} /\ token.sub = user /\ RefreshesAreUsers
         /\ socket # NoToken => socket.sub = shown

Followed ==
    seen \cap {"lost", "tab"} = {} =>
        /\ loading => BootIsCookie
        /\ user # NoUser => cookie = user
        /\ ~loading /\ age <= 1 => user = cookie

\* A page's request has the cookie to refresh with.
Hidden ==
    seen = {} =>
        \A r \in Requests : req[r].path = "data" =>
            /\ user # NoUser
            /\ req[r].pc = "refreshing" => req[r].sentCookie # NoUser
            /\ req[r].pc = "refreshed" => req[r].got # NoToken

SessionInv ==
    /\ TypeOK
    /\ \A r \in Requests : Staged(req[r]) /\ Aged(req[r])
    /\ Boots /\ Links /\ Owned /\ Followed /\ Hidden
-------------------------------------------------------------------------------
\* Records.

LEMMA BootSlotExists == BootSlot \in Requests
  BY SessionAssumption DEF BootSlot

LEMMA IdleIsRequest ==
    ASSUME TypeOK
    PROVE  /\ Idle \in Request /\ Booting \in Request /\ NoToken \in Tokens
           /\ Idle.pc = "idle" /\ Idle.path = "none" /\ Staged(Idle) /\ Aged(Idle)
           /\ Booting.pc = "refreshing" /\ Booting.path = "me" /\ Booting.tries = 0
           /\ Booting.sentCookie = cookie
           /\ Booting.sentToken = NoToken /\ Booting.got = NoToken
           /\ Staged(Booting) /\ Aged(Booting)
<1>1. NoToken \in Tokens
  BY SessionAssumption DEF NoToken, Tokens
<1>2. cookie \in Users \cup {NoUser}
  BY DEF TypeOK
<1>3. Idle \in Request
  BY <1>1, SMTT(20) DEF Request, Idle
<1>4. Idle.pc = "idle" /\ Idle.path = "none" /\ Idle.sentToken = NoToken /\ Idle.got = NoToken
  BY DEF Idle
<1>5. Staged(Idle) /\ Aged(Idle)
  BY <1>4 DEF Staged, Aged, Good
<1>6. /\ Booting.pc = "refreshing" /\ Booting.path = "me" /\ Booting.tries = 0
      /\ Booting.sentCookie = cookie
      /\ Booting.sentToken = NoToken /\ Booting.got = NoToken
  BY DEF Booting, Idle
<1>7. Booting \in Request
  BY <1>2, <1>3 DEF Booting, Request
<1>8. Staged(Booting) /\ Aged(Booting)
  BY <1>6 DEF Staged, Aged, Good
<1>9. QED  BY <1>1, <1>3, <1>4, <1>5, <1>6, <1>7, <1>8

\* A step of one request.
LEMMA RequestUpdate ==
    ASSUME TypeOK, NEW r \in Requests, NEW n \in Request, req' = [req EXCEPT ![r] = n]
    PROVE  /\ req' \in [Requests -> Request] /\ req'[r] = n
           /\ \A x \in Requests : x # r => req'[x] = req[x]
  BY DEF TypeOK, Request

LEMMA SignedIsGood ==
    ASSUME TypeOK, NEW u \in Users \cup {NoUser}
    PROVE  /\ Signed(u) \in Tokens /\ Good(Signed(u))
           /\ u = NoUser => Signed(u) = NoToken
           /\ u # NoUser => Signed(u) # NoToken /\ Signed(u).sub = u /\ Signed(u).gen = age
  BY SessionAssumption DEF TypeOK, Signed, Good, Tokens, NoToken

LEMMA BeginShape ==
    ASSUME TypeOK, NEW r \in Requests, NEW path \in {"login", "logout", "data"},
           NEW who \in Users \cup {NoUser}, Begin(r, path, who)
    PROVE  \E n \in Request :
             /\ req' = [req EXCEPT ![r] = n]
             /\ n.pc = "sent" /\ n.path = path /\ n.who = who /\ n.tries = 1
             /\ n.sentToken = (IF path = "data" THEN token ELSE NoToken) /\ n.got = NoToken
<1> DEFINE n == [Idle EXCEPT !.pc = "sent", !.path = path, !.who = who, !.tries = 1,
                             !.sentToken = IF path = "data" THEN token ELSE NoToken]
<1>1. NoToken \in Tokens /\ token \in Tokens
  BY IdleIsRequest DEF TypeOK
<1>2. n \in Request /\ n.pc = "sent" /\ n.path = path /\ n.who = who /\ n.tries = 1
      /\ n.sentToken = (IF path = "data" THEN token ELSE NoToken) /\ n.got = NoToken
  <2>1. Idle \in Request
    BY IdleIsRequest
  <2>2. n \in Request
    <3>1. "sent" \in {"idle", "sent", "answered", "refreshing", "refreshed"}
          /\ path \in {"none", "login", "logout", "me", "data"} /\ 1 \in 0..2
      OBVIOUS
    <3>2. \A t \in Tokens : [Idle EXCEPT !.pc = "sent", !.path = path, !.who = who,
                                         !.tries = 1, !.sentToken = t] \in Request
      BY <2>1, <3>1 DEF Request
    <3>3. (IF path = "data" THEN token ELSE NoToken) \in Tokens
      BY <1>1
    <3>4. QED  BY <3>2, <3>3
  <2>3. Idle.got = NoToken
    BY DEF Idle
  <2>4. QED  BY <2>1, <2>2, <2>3 DEF Request
<1>3. req' = [req EXCEPT ![r] = n]
  BY DEF Begin
<1> HIDE DEF n
<1>4. QED  BY <1>2, <1>3

LEMMA ServeShape ==
    ASSUME TypeOK, NEW r \in Requests, Staged(req[r]), Serve(r)
    PROVE  \E n \in Request :
             /\ req' = [req EXCEPT ![r] = n]
             /\ n.pc = "answered" /\ n.ok = Accepted(req[r]) /\ n.got = Brought(req[r])
             /\ n.sentToken = IF req[r].path = "me" THEN req[r].sentToken ELSE NoToken
             /\ n.path = req[r].path /\ n.who = req[r].who /\ n.tries = req[r].tries
<1> DEFINE q == req[r]
           n == [q EXCEPT !.pc = "answered", !.ok = Accepted(q), !.got = Brought(q),
                          !.sentToken = IF q.path = "me" THEN q.sentToken ELSE NoToken]
<1>1. q \in Request /\ NoToken \in Tokens
  BY IdleIsRequest DEF TypeOK, Request
<1>2. Brought(q) \in Tokens
  BY <1>1, SignedIsGood DEF Brought, Request
<1>3. Accepted(q) \in BOOLEAN
  BY <1>1 DEF Accepted, Live, Request, Serve, Staged
<1>4. req' = [req EXCEPT ![r] = n]
  BY DEF Serve, TypeOK
<1>5. /\ n \in Request
      /\ n.pc = "answered" /\ n.ok = Accepted(q) /\ n.got = Brought(q)
      /\ n.sentToken = (IF q.path = "me" THEN q.sentToken ELSE NoToken)
      /\ n.path = q.path /\ n.who = q.who /\ n.tries = q.tries
  BY <1>1, <1>2, <1>3 DEF Request
<1> HIDE DEF n
<1>6. QED  BY <1>4, <1>5

LEMMA ServeRefreshShape ==
    ASSUME TypeOK, NEW r \in Requests, ServeRefresh(r)
    PROVE  \E n \in Request :
             /\ req' = [req EXCEPT ![r] = n]
             /\ n.pc = "refreshed" /\ n.got = Signed(req[r].sentCookie)
             /\ n.sentToken = NoToken
             /\ n.path = req[r].path /\ n.who = req[r].who /\ n.tries = req[r].tries
<1> DEFINE q == req[r]
           n == [q EXCEPT !.pc = "refreshed", !.got = Signed(q.sentCookie),
                          !.sentCookie = NoUser, !.sentToken = NoToken]
<1>1. q \in Request /\ NoToken \in Tokens
  BY IdleIsRequest DEF TypeOK, Request
<1>2. Signed(q.sentCookie) \in Tokens
  BY <1>1, SignedIsGood DEF Request
<1>3. req' = [req EXCEPT ![r] = n]
  BY DEF ServeRefresh, TypeOK
<1>4. /\ n \in Request /\ n.pc = "refreshed" /\ n.got = Signed(q.sentCookie)
      /\ n.sentToken = NoToken
      /\ n.path = q.path /\ n.who = q.who /\ n.tries = q.tries
  BY <1>1, <1>2 DEF Request
<1> HIDE DEF n
<1>5. QED  BY <1>3, <1>4

LEMMA RefreshShape ==
    ASSUME TypeOK, NEW r \in Requests, Refresh(r)
    PROVE  \E n \in Request :
             /\ req' = [req EXCEPT ![r] = n]
             /\ n.pc = "refreshing" /\ n.sentCookie = cookie
             /\ n.path = req[r].path /\ n.who = req[r].who /\ n.tries = req[r].tries
             /\ n.sentToken = req[r].sentToken /\ n.got = req[r].got
<1> DEFINE q == req[r]
           n == [q EXCEPT !.pc = "refreshing", !.sentCookie = cookie]
<1>1. q \in Request /\ cookie \in Users \cup {NoUser}
  BY DEF TypeOK, Request
<1>2. req' = [req EXCEPT ![r] = n]
  BY DEF Refresh, TypeOK
<1>3. /\ n \in Request /\ n.pc = "refreshing" /\ n.sentCookie = cookie
      /\ n.path = q.path /\ n.who = q.who /\ n.tries = q.tries
      /\ n.sentToken = q.sentToken /\ n.got = q.got
  BY <1>1 DEF Request
<1> HIDE DEF n
<1>4. QED  BY <1>2, <1>3

LEMMA ResentShape ==
    ASSUME TypeOK, NEW r \in Requests, Staged(req[r]), RefreshArrives(r)
    PROVE  \E n \in Request :
             /\ req' = [req EXCEPT ![r] = n]
             /\ n.pc = "sent" /\ n.tries = req[r].tries + 1 /\ n.got = NoToken
             /\ n.sentToken = (IF req[r].path \in {"me", "data"} THEN req[r].got ELSE NoToken)
             /\ n.path = req[r].path /\ n.who = req[r].who
<1> DEFINE q == req[r]
           n == Resent(q)
<1>1. q \in Request /\ NoToken \in Tokens
  BY IdleIsRequest DEF TypeOK, Request
<1>2. q.tries \in {0, 1}
  BY DEF Staged, RefreshArrives
<1>3. req' = [req EXCEPT ![r] = n]
  BY DEF RefreshArrives
<1>4. /\ n \in Request /\ n.pc = "sent" /\ n.tries = q.tries + 1 /\ n.got = NoToken
      /\ n.sentToken = (IF q.path \in {"me", "data"} THEN q.got ELSE NoToken)
      /\ n.path = q.path /\ n.who = q.who
  <2>1. q.tries + 1 \in 0..2
    BY <1>2
  <2>2. (IF q.path \in {"me", "data"} THEN q.got ELSE NoToken) \in Tokens
    BY <1>1 DEF Request
  <2> DEFINE k == q.tries + 1
             t == IF q.path \in {"me", "data"} THEN q.got ELSE NoToken
  <2>3. n = [q EXCEPT !.pc = "sent", !.tries = k, !.got = NoToken, !.sentToken = t]
    BY DEF Resent
  <2> HIDE DEF n, k, t
  <2>4. k \in 0..2 /\ t \in Tokens
    BY <2>1, <2>2 DEF k, t
  <2>5. /\ n \in Request /\ n.pc = "sent" /\ n.tries = k /\ n.got = NoToken
        /\ n.sentToken = t /\ n.path = q.path /\ n.who = q.who
    BY <1>1, <2>3, <2>4 DEF Request
  <2>6. QED  BY <2>5 DEF k, t
<1> HIDE DEF n
<1>5. QED  BY <1>3, <1>4
-------------------------------------------------------------------------------
\* One lemma per action; each shows the parts of the invariant that it can disturb.

\* The parts that only the tab's own variables occur in.
TabPart == <<age, cookie, token, user, loading, shown, socket, link, seen>>

LEMMA InvBegin ==
    ASSUME SessionInv, NEW r \in Requests, NEW path \in {"login", "logout", "data"},
           NEW who \in Users \cup {NoUser}, Begin(r, path, who), ~loading,
           path = "data" => user # NoUser
    PROVE  SessionInv'
<1>1. PICK n \in Request :
        /\ req' = [req EXCEPT ![r] = n]
        /\ n.pc = "sent" /\ n.path = path /\ n.who = who /\ n.tries = 1
        /\ n.sentToken = (IF path = "data" THEN token ELSE NoToken) /\ n.got = NoToken
  BY BeginShape DEF SessionInv
<1>2. /\ req' \in [Requests -> Request] /\ req'[r] = n
      /\ \A x \in Requests : x # r => req'[x] = req[x]
  BY <1>1, RequestUpdate DEF SessionInv
<1>3. UNCHANGED TabPart
  BY DEF Begin, tab, TabPart
<1>4. TypeOK'
  BY <1>2, <1>3 DEF SessionInv, TypeOK, Request, TabPart
<1>5. Staged(n) /\ Aged(n)
  BY <1>1 DEF SessionInv, Boots, Links, Staged, Aged, Good
<1>6. \A x \in Requests : Staged(req[x])' /\ Aged(req[x])'
  BY <1>2, <1>3, <1>5 DEF SessionInv, Staged, Aged, Good, TabPart
<1>7. Boots' /\ Links'
  BY <1>1, <1>2, <1>3 DEF SessionInv, Boots, Links, Good, TabPart
<1>8. Owned'
  BY <1>1, <1>2, <1>3 DEF SessionInv, Owned, RefreshesAreUsers, TabPart
<1>9. Followed' /\ Hidden'
  BY <1>1, <1>2, <1>3 DEF SessionInv, Followed, Hidden, TabPart
<1>10. QED  BY <1>4, <1>6, <1>7, <1>8, <1>9 DEF SessionInv

LEMMA InvServe ==
    ASSUME SessionInv, NEW r \in Requests, Serve(r)
    PROVE  SessionInv'
<1> DEFINE q == req[r]
<1>1. PICK n \in Request :
        /\ req' = [req EXCEPT ![r] = n]
        /\ n.pc = "answered" /\ n.ok = Accepted(q) /\ n.got = Brought(q)
        /\ n.sentToken = IF q.path = "me" THEN q.sentToken ELSE NoToken
        /\ n.path = q.path /\ n.who = q.who /\ n.tries = q.tries
  BY ServeShape DEF SessionInv
<1>2. /\ req' \in [Requests -> Request] /\ req'[r] = n
      /\ \A x \in Requests : x # r => req'[x] = req[x]
  BY <1>1, RequestUpdate DEF SessionInv
<1>3. UNCHANGED TabPart /\ q.pc = "sent" /\ q \in Request
  BY DEF Serve, tab, TabPart, SessionInv, TypeOK, Request
<1>4. TypeOK'
  BY <1>2, <1>3 DEF SessionInv, TypeOK, Request, TabPart
<1>5. q.path \in {"me", "data"} => q.sentToken # NoToken
  <2>1. CASE q.path = "me"
    <3>1. loading /\ r = BootSlot
      BY <1>3, <2>1 DEF SessionInv, Boots, Idle
    <3>2. QED  BY <1>3, <3>1 DEF SessionInv, Boots
  <2>2. QED  BY <1>3, <2>1 DEF SessionInv, Staged
<1>6. Staged(n)
  <2>1. q.path = "login" /\ q.who # NoUser => n.got # NoToken /\ n.got.sub = q.who
    BY <1>1, <1>3, SignedIsGood DEF SessionInv, Brought, Request
  <2>2. Good(n.got)
    BY <1>1, <1>3, SignedIsGood DEF SessionInv, Brought, Request, Good
  <2>3. Good(n.sentToken)
    BY <1>1 DEF SessionInv, Staged, Good
  <2>4. n.path # "none" /\ n.tries \in {1, 2}
    BY <1>1, <1>3 DEF SessionInv, Staged
  <2>5. n.path = "login" /\ n.ok => q.who # NoUser
    BY <1>1 DEF Accepted
  <2>6. QED  BY <1>1, <2>1, <2>2, <2>3, <2>4, <2>5 DEF Staged
<1>7. Aged(n)
  <2>1. SUFFICES ASSUME q.path \in {"me", "data"}, ~Accepted(q)
                 PROVE  (q.tries = 1 => age >= 1) /\ (q.tries = 2 => age >= 2)
    BY <1>1 DEF Aged
  <2>2. ~Live(q.sentToken)
    BY <2>1 DEF Accepted
  <2>3. q.sentToken.sub \in Users /\ q.sentToken.gen <= age /\ q.sentToken.gen \in Nat /\ age \in Nat
    BY <1>3, <1>5, <2>1 DEF SessionInv, Staged, Good, TypeOK, Request, Tokens
  <2>4. q.sentToken.gen < age
    BY <2>2, <2>3, SessionAssumption DEF Live
  <2>5. q.tries = 2 => q.sentToken.gen >= 1
    BY <1>3, <2>1 DEF SessionInv, Aged
  <2>6. QED  BY <2>3, <2>4, <2>5
<1>8. \A x \in Requests : Staged(req[x])' /\ Aged(req[x])'
  BY <1>2, <1>3, <1>6, <1>7 DEF SessionInv, Staged, Aged, Good, TabPart
<1>9. Boots'
  <2>1. loading => r = BootSlot
    BY <1>3, IdleIsRequest DEF SessionInv, Boots
  <2>2. QED  BY <1>1, <1>2, <1>3, <2>1, BootSlotExists DEF SessionInv, Boots, TabPart
<1>10. Links'
  BY <1>3 DEF SessionInv, Links, Good, TabPart
<1>11. Owned'
  BY <1>1, <1>2, <1>3, BootSlotExists
     DEF SessionInv, Owned, RefreshesAreUsers, BootWasCookie, Boots, TabPart
<1>12. Followed'
  BY <1>1, <1>2, <1>3, BootSlotExists DEF SessionInv, Followed, BootIsCookie, Boots, TabPart
<1>13. Hidden'
  BY <1>1, <1>2, <1>3 DEF SessionInv, Hidden, TabPart
<1>14. QED  BY <1>4, <1>8, <1>9, <1>10, <1>11, <1>12, <1>13 DEF SessionInv

LEMMA InvServeRefresh ==
    ASSUME SessionInv, NEW r \in Requests, ServeRefresh(r)
    PROVE  SessionInv'
<1> DEFINE q == req[r]
<1>1. PICK n \in Request :
        /\ req' = [req EXCEPT ![r] = n]
        /\ n.pc = "refreshed" /\ n.got = Signed(q.sentCookie) /\ n.sentToken = NoToken
        /\ n.path = q.path /\ n.who = q.who /\ n.tries = q.tries
  BY ServeRefreshShape DEF SessionInv
<1>2. /\ req' \in [Requests -> Request] /\ req'[r] = n
      /\ \A x \in Requests : x # r => req'[x] = req[x]
  BY <1>1, RequestUpdate DEF SessionInv
<1>3. UNCHANGED TabPart /\ q.pc = "refreshing" /\ q.sentCookie \in Users \cup {NoUser}
  BY DEF ServeRefresh, tab, TabPart, SessionInv, TypeOK
<1>4. /\ Good(n.got)
      /\ q.sentCookie = NoUser => n.got = NoToken
      /\ q.sentCookie # NoUser => n.got # NoToken /\ n.got.sub = q.sentCookie /\ n.got.gen = age
  BY <1>1, <1>3, SignedIsGood DEF SessionInv
<1>5. TypeOK'
  BY <1>2, <1>3 DEF SessionInv, TypeOK, Request, TabPart
<1>6. Staged(n) /\ Aged(n)
  BY <1>1, <1>3, <1>4 DEF SessionInv, Staged, Aged, Good
<1>7. \A x \in Requests : Staged(req[x])' /\ Aged(req[x])'
  BY <1>2, <1>3, <1>6 DEF SessionInv, Staged, Aged, Good, TabPart
<1>8. Boots'
  <2>1. loading => r = BootSlot
    BY <1>3, IdleIsRequest DEF SessionInv, Boots
  <2>2. QED  BY <1>1, <1>2, <1>3, <2>1, BootSlotExists DEF SessionInv, Boots, TabPart
<1>9. Links'
  BY <1>3 DEF SessionInv, Links, Good, TabPart
<1>10. Owned'
  BY <1>1, <1>2, <1>3, <1>4, BootSlotExists
     DEF SessionInv, Owned, RefreshesAreUsers, BootWasCookie, TabPart
<1>11. Followed'
  BY <1>1, <1>2, <1>3, <1>4, BootSlotExists DEF SessionInv, Followed, BootIsCookie, TabPart
<1>12. Hidden'
  BY <1>1, <1>2, <1>3, <1>4 DEF SessionInv, Hidden, TabPart
<1>13. QED  BY <1>5, <1>7, <1>8, <1>9, <1>10, <1>11, <1>12 DEF SessionInv

LEMMA InvRefresh ==
    ASSUME SessionInv, NEW r \in Requests, Refresh(r)
    PROVE  SessionInv'
<1> DEFINE q == req[r]
<1>1. PICK n \in Request :
        /\ req' = [req EXCEPT ![r] = n]
        /\ n.pc = "refreshing" /\ n.sentCookie = cookie
        /\ n.path = q.path /\ n.who = q.who /\ n.tries = q.tries
        /\ n.sentToken = q.sentToken /\ n.got = q.got
  BY RefreshShape DEF SessionInv
<1>2. /\ req' \in [Requests -> Request] /\ req'[r] = n
      /\ \A x \in Requests : x # r => req'[x] = req[x]
  BY <1>1, RequestUpdate DEF SessionInv
<1>3. UNCHANGED TabPart /\ q.pc = "answered" /\ ~q.ok /\ q.tries = 1
  BY DEF Refresh, MayRefresh, tab, TabPart
<1>4. TypeOK'
  BY <1>2, <1>3 DEF SessionInv, TypeOK, Request, TabPart
<1>5. Staged(n) /\ Aged(n)
  BY <1>1, <1>3 DEF SessionInv, Staged, Aged, Good
<1>6. \A x \in Requests : Staged(req[x])' /\ Aged(req[x])'
  BY <1>2, <1>3, <1>5 DEF SessionInv, Staged, Aged, Good, TabPart
<1>7. Boots'
  <2>1. loading => r = BootSlot
    BY <1>3, IdleIsRequest DEF SessionInv, Boots
  <2>2. QED  BY <1>1, <1>2, <1>3, <2>1, BootSlotExists DEF SessionInv, Boots, TabPart
<1>8. Links'
  BY <1>3 DEF SessionInv, Links, Good, TabPart
<1>9. Owned'
  BY <1>1, <1>2, <1>3, BootSlotExists
     DEF SessionInv, Owned, RefreshesAreUsers, BootWasCookie, TabPart
<1>10. Followed'
  BY <1>1, <1>2, <1>3, BootSlotExists DEF SessionInv, Followed, BootIsCookie, TabPart
\* With nothing lost and no other tab, the user shown has the cookie.
<1>11. Hidden'
  BY <1>1, <1>2, <1>3 DEF SessionInv, Hidden, Followed, TabPart
<1>12. QED  BY <1>4, <1>6, <1>7, <1>8, <1>9, <1>10, <1>11 DEF SessionInv

LEMMA InvRefreshArrives ==
    ASSUME SessionInv, NEW r \in Requests, RefreshArrives(r)
    PROVE  SessionInv'
<1> DEFINE q == req[r]
<1>1. PICK n \in Request :
        /\ req' = [req EXCEPT ![r] = n]
        /\ n.pc = "sent" /\ n.tries = q.tries + 1 /\ n.got = NoToken
        /\ n.sentToken = (IF q.path \in {"me", "data"} THEN q.got ELSE NoToken)
        /\ n.path = q.path /\ n.who = q.who
  BY ResentShape DEF SessionInv
<1>2. /\ req' \in [Requests -> Request] /\ req'[r] = n
      /\ \A x \in Requests : x # r => req'[x] = req[x]
  BY <1>1, RequestUpdate DEF SessionInv
<1>3. /\ UNCHANGED <<age, cookie, user, loading, shown, socket, link, seen>>
      /\ token' = q.got /\ q.got # NoToken /\ q.pc = "refreshed"
  BY DEF RefreshArrives
<1>4. q.got \in Tokens /\ Good(q.got) /\ q.tries \in {0, 1} /\ q.path # "none"
      /\ (q.tries = 0 => q.path = "me")
  BY <1>3 DEF SessionInv, TypeOK, Staged
<1>5. TypeOK'
  BY <1>2, <1>3, <1>4 DEF SessionInv, TypeOK, Request
<1>6. Staged(n) /\ Aged(n)
  BY <1>1, <1>3, <1>4 DEF SessionInv, Staged, Aged, Good
<1>7. \A x \in Requests : Staged(req[x])' /\ Aged(req[x])'
  BY <1>2, <1>3, <1>6 DEF SessionInv, Staged, Aged, Good
<1>8. loading => r = BootSlot /\ q.path = "me"
  BY <1>3, IdleIsRequest DEF SessionInv, Boots
<1>9. Boots'
  BY <1>1, <1>2, <1>3, <1>8, BootSlotExists DEF SessionInv, Boots
<1>10. Links'
  BY <1>3, <1>4 DEF SessionInv, Links, Good
<1>11. Owned'
  BY <1>1, <1>2, <1>3, <1>8, BootSlotExists
     DEF SessionInv, Owned, RefreshesAreUsers, BootWasCookie
<1>12. Followed'
  BY <1>1, <1>2, <1>3, <1>8, BootSlotExists DEF SessionInv, Followed, BootIsCookie
<1>13. Hidden'
  BY <1>1, <1>2, <1>3 DEF SessionInv, Hidden
<1>14. QED  BY <1>5, <1>7, <1>9, <1>10, <1>11, <1>12, <1>13 DEF SessionInv

\* What a step that ends request r leaves of the requests.
LEMMA EndShape ==
    ASSUME SessionInv, NEW r \in Requests, req' = [req EXCEPT ![r] = Idle], age' = age
    PROVE  /\ req' \in [Requests -> Request] /\ req'[r] = Idle
           /\ \A x \in Requests : x # r => req'[x] = req[x]
           /\ \A x \in Requests : Staged(req[x])' /\ Aged(req[x])'
           /\ Idle.pc = "idle" /\ Idle.path = "none"
<1>1. Idle \in Request /\ Idle.pc = "idle" /\ Idle.path = "none" /\ Staged(Idle) /\ Aged(Idle)
  BY IdleIsRequest DEF SessionInv
<1>2. /\ req' \in [Requests -> Request] /\ req'[r] = Idle
      /\ \A x \in Requests : x # r => req'[x] = req[x]
  BY <1>1, RequestUpdate DEF SessionInv
<1>3. \A x \in Requests : Staged(req[x])' /\ Aged(req[x])'
  BY <1>1, <1>2 DEF SessionInv, Staged, Aged, Good
<1>4. QED  BY <1>1, <1>2, <1>3

LEMMA InvSucceed ==
    ASSUME SessionInv, NEW r \in Requests, Succeed(r)
    PROVE  SessionInv'
<1> DEFINE q == req[r]
<1>1. /\ q.pc = "answered" /\ q.ok /\ q.path \in {"login", "logout", "me", "data"}
      /\ req' = [req EXCEPT ![r] = Idle] /\ UNCHANGED <<age, shown, socket, link>>
  BY DEF Succeed, SessionInv, TypeOK, Staged
<1>2. /\ req' \in [Requests -> Request] /\ req'[r] = Idle
      /\ \A x \in Requests : x # r => req'[x] = req[x]
      /\ \A x \in Requests : Staged(req[x])' /\ Aged(req[x])'
      /\ Idle.pc = "idle" /\ Idle.path = "none"
  BY <1>1, EndShape
<1>3. loading => r = BootSlot /\ q.path = "me"
  BY <1>1, <1>2 DEF SessionInv, Boots
<1>4. CASE q.path = "login"
  <2>1. /\ user' = q.who /\ token' = q.got /\ cookie' = q.who /\ loading' = loading
        /\ seen' = seen \cup Crossing(r)
    BY <1>4 DEF Succeed, SignedIn
  <2>2. q.got # NoToken /\ q.got.sub = q.who /\ q.got \in Tokens /\ Good(q.got) /\ q.who \in Users
    BY <1>1, <1>4 DEF SessionInv, Staged, Good, TypeOK
  <2>3. ~loading
    BY <1>3, <1>4
  <2>4. TypeOK'
    BY <1>1, <1>2, <2>1, <2>2 DEF SessionInv, TypeOK, Request, Crossing, Happenings
  <2>5. Boots' /\ Links'
    BY <1>1, <1>2, <2>1, <2>2, <2>3 DEF SessionInv, Boots, Links, Good
\* A refresh that is under way for another user is a crossing.
  <2>6. "crossed" \notin seen' =>
          \A x \in Requests \ {r} : req[x].pc \notin {"refreshing", "refreshed"}
    BY <2>1 DEF Crossing
  <2>7. Owned'
    BY <1>1, <1>2, <2>1, <2>2, <2>3, <2>6 DEF SessionInv, Owned, RefreshesAreUsers
  <2>8. Followed'
    BY <1>1, <2>1, <2>3 DEF SessionInv, Followed
  <2>9. Hidden'
    BY <1>2, <2>1, <2>2, <2>6, SessionAssumption DEF SessionInv, Hidden
  <2>10. QED  BY <1>2, <2>4, <2>5, <2>7, <2>8, <2>9 DEF SessionInv
<1>5. CASE q.path = "logout"
  <2>1. /\ user' = NoUser /\ token' = NoToken /\ cookie' = NoUser /\ loading' = loading
        /\ seen' = seen \cup {"logout"} \cup Crossing(r)
    BY <1>5 DEF Succeed
  <2>2. ~loading /\ NoToken \in Tokens
    BY <1>3, <1>5, IdleIsRequest DEF SessionInv
  <2>3. TypeOK'
    BY <1>1, <1>2, <2>1, <2>2 DEF SessionInv, TypeOK, Request, Crossing, Happenings
  <2>4. Boots' /\ Links'
    BY <1>1, <1>2, <2>1, <2>2 DEF SessionInv, Boots, Links, Good
  <2>5. Owned' /\ Followed' /\ Hidden'
    BY <1>1, <2>1, <2>2 DEF SessionInv, Owned, Followed, Hidden
  <2>6. QED  BY <1>2, <2>3, <2>4, <2>5 DEF SessionInv
<1>6. CASE q.path = "me"
  <2>1. user' = q.sentToken.sub /\ loading' = FALSE /\ UNCHANGED <<token, cookie, seen>>
    BY <1>6 DEF Succeed
  <2>2. loading /\ r = BootSlot /\ token = q.sentToken /\ token # NoToken
    BY <1>1, <1>3, <1>6 DEF SessionInv, Boots
  <2>3. \A x \in Requests : req'[x] = Idle
    BY <1>2, <2>2 DEF SessionInv, Boots
  <2>4. q.sentToken.sub \in Users
    BY <2>2 DEF SessionInv, Staged, Good
  <2>5. TypeOK'
    BY <1>1, <1>2, <2>1, <2>4 DEF SessionInv, TypeOK, Request
  <2>6. Boots' /\ Links'
    BY <1>1, <1>2, <2>1, <2>2, <2>3 DEF SessionInv, Boots, Links, Good
  <2>7. Owned'
    BY <1>1, <1>2, <2>1, <2>2, <2>3 DEF SessionInv, Owned, BootWasCookie, RefreshesAreUsers
  <2>8. Followed'
    BY <1>1, <2>1, <2>2 DEF SessionInv, Followed, BootIsCookie
  <2>9. Hidden'
    BY <1>2, <2>3 DEF Hidden
  <2>10. QED  BY <1>2, <2>5, <2>6, <2>7, <2>8, <2>9 DEF SessionInv
<1>7. CASE q.path = "data"
  <2>1. UNCHANGED TabPart
    BY <1>1, <1>7 DEF Succeed, TabPart
  <2>2. ~loading
    BY <1>3, <1>7
  <2>3. TypeOK'
    BY <1>2, <2>1 DEF SessionInv, TypeOK, Request, TabPart
  <2>4. Boots' /\ Links'
    BY <1>2, <2>1, <2>2 DEF SessionInv, Boots, Links, Good, TabPart
  <2>5. Owned'
    BY <1>2, <2>1, <2>2 DEF SessionInv, Owned, RefreshesAreUsers, TabPart
  <2>6. Followed' /\ Hidden'
    BY <1>2, <2>1, <2>2 DEF SessionInv, Followed, Hidden, TabPart
  <2>7. QED  BY <1>2, <2>3, <2>4, <2>5, <2>6 DEF SessionInv
<1>8. QED  BY <1>1, <1>4, <1>5, <1>6, <1>7

\* GiveUp, after an answer or without one.
LEMMA InvGiveUp ==
    ASSUME SessionInv, NEW r \in Requests, req[r].pc # "idle", GiveUp(r),
           \/ seen' = seen /\ req[r].pc = "answered" /\ ~req[r].ok /\ req[r].tries # 1
           \/ seen' = seen /\ req[r].pc = "refreshed" /\ req[r].got = NoToken
           \/ seen' = seen \cup {"lost"}
    PROVE  SessionInv'
<1> DEFINE q == req[r]
<1>1. req' = [req EXCEPT ![r] = Idle] /\ UNCHANGED <<age, cookie, token, shown, socket, link>>
  BY DEF GiveUp
<1>2. /\ req' \in [Requests -> Request] /\ req'[r] = Idle
      /\ \A x \in Requests : x # r => req'[x] = req[x]
      /\ \A x \in Requests : Staged(req[x])' /\ Aged(req[x])'
      /\ Idle.pc = "idle" /\ Idle.path = "none"
  BY <1>1, EndShape
<1>3. loading => r = BootSlot /\ q.path = "me"
  BY <1>2 DEF SessionInv, Boots
<1>4. q.path = "me" => loading
  BY DEF SessionInv, Boots
<1>5. CASE q.path = "me"
  <2>1. user' = NoUser /\ loading' = FALSE /\ loading /\ r = BootSlot
    BY <1>3, <1>4, <1>5 DEF GiveUp
  <2>2. \A x \in Requests : req'[x] = Idle
    BY <1>2, <2>1 DEF SessionInv, Boots
  <2>3. TypeOK'
    BY <1>1, <1>2, <2>1 DEF SessionInv, TypeOK, Request, Happenings
  <2>4. Boots' /\ Links'
    BY <1>1, <1>2, <2>1, <2>2 DEF SessionInv, Boots, Links, Good
  <2>5. Owned' /\ Hidden'
    BY <1>1, <1>2, <2>1, <2>2 DEF SessionInv, Owned, Hidden
\* The page has no user only where no cookie was left, or after two expiries.
  <2>6. Followed'
    <3>1. SUFFICES ASSUME seen' \cap {"lost", "tab"} = {}, age <= 1 PROVE cookie = NoUser
      BY <1>1, <2>1 DEF Followed
    <3>2. seen' = seen /\ BootIsCookie
      BY <2>1, <3>1 DEF SessionInv, Followed
    <3>3. CASE q.pc = "answered" /\ ~q.ok /\ q.tries # 1
      <4>1. q.tries = 2
        BY <3>3 DEF SessionInv, Staged
      <4>2. age >= 2 /\ age \in Nat
        BY <1>5, <3>3, <4>1, SessionAssumption DEF SessionInv, Aged, TypeOK
      <4>3. QED  BY <3>1, <4>2
    <3>4. CASE q.pc = "refreshed" /\ q.got = NoToken
      BY <2>1, <3>2, <3>4 DEF BootIsCookie
    <3>5. QED  BY <3>1, <3>3, <3>4
  <2>7. QED  BY <1>2, <2>3, <2>4, <2>5, <2>6 DEF SessionInv
<1>6. CASE q.path # "me"
  <2>1. UNCHANGED <<user, loading>> /\ ~loading
    BY <1>3, <1>6 DEF GiveUp
  <2>2. TypeOK'
    BY <1>1, <1>2, <2>1 DEF SessionInv, TypeOK, Request, Happenings
  <2>3. Boots' /\ Links'
    BY <1>1, <1>2, <2>1 DEF SessionInv, Boots, Links, Good
  <2>4. Owned'
    BY <1>1, <1>2, <2>1 DEF SessionInv, Owned, RefreshesAreUsers
  <2>5. Followed' /\ Hidden'
    BY <1>1, <1>2, <2>1 DEF SessionInv, Followed, Hidden
  <2>6. QED  BY <1>2, <2>2, <2>3, <2>4, <2>5 DEF SessionInv
<1>7. QED  BY <1>5, <1>6

LEMMA InvFreshPage ==
    ASSUME TypeOK, cookie' = cookie, age' = age, TypeOK',
           token' = NoToken, user' = NoUser, loading' = TRUE, shown' = NoUser,
           socket' = NoToken, link' = "none",
           req' = [x \in Requests |-> IF x = BootSlot THEN Booting ELSE Idle]
    PROVE  SessionInv'
<1>1. /\ req'[BootSlot] = Booting
      /\ \A x \in Requests \ {BootSlot} : req'[x] = Idle
  BY BootSlotExists
<1>2. /\ Idle.pc = "idle" /\ Idle.path = "none" /\ Staged(Idle) /\ Aged(Idle)
      /\ Booting.pc = "refreshing" /\ Booting.path = "me" /\ Booting.sentCookie = cookie
      /\ Staged(Booting) /\ Aged(Booting)
  BY IdleIsRequest
<1>3. \A x \in Requests : Staged(req[x])' /\ Aged(req[x])'
  BY <1>1, <1>2 DEF Staged, Aged, Good
<1>4. Boots' /\ Links'
  BY <1>1, <1>2 DEF Boots, Links, Good
<1>5. Owned'
  BY <1>1, <1>2 DEF Owned, BootWasCookie
<1>6. Followed' /\ Hidden'
  BY <1>1, <1>2 DEF Followed, BootIsCookie, Hidden
<1>7. QED  BY <1>3, <1>4, <1>5, <1>6 DEF SessionInv

LEMMA InvReload ==
    ASSUME SessionInv, Reload
    PROVE  SessionInv'
<1>1. TypeOK'
  <2>1. req' \in [Requests -> Request]
    BY IdleIsRequest DEF Reload, SessionInv
  <2>2. QED  BY <2>1, IdleIsRequest DEF Reload, SessionInv, TypeOK, Request
<1>2. QED  BY <1>1, InvFreshPage DEF Reload, SessionInv

LEMMA InvRender ==
    ASSUME SessionInv, Render
    PROVE  SessionInv'
<1>1. /\ shown' = user /\ UNCHANGED <<age, cookie, token, user, loading, req, seen>>
      /\ socket' = (IF user = NoUser THEN NoToken ELSE token)
      /\ link' = (IF user = NoUser THEN "none" ELSE Handshake(socket'))
  BY DEF Render
<1>2. NoToken \in Tokens
  BY IdleIsRequest DEF SessionInv
<1>3. link' \in {"none", "up", "refused"}
  BY <1>1 DEF Handshake
<1>4. TypeOK'
  BY <1>1, <1>2, <1>3 DEF SessionInv, TypeOK
<1>5. \A x \in Requests : Staged(req[x])' /\ Aged(req[x])'
  BY <1>1 DEF SessionInv, Staged, Aged, Good
<1>6. Links'
  <2>1. CASE user = NoUser
    BY <1>1, <2>1 DEF SessionInv, Links, Good
  <2>2. CASE user # NoUser
    <3>1. socket' = token /\ token # NoToken /\ token.sub \in Users /\ token.gen <= age
          /\ token.gen \in Nat /\ age \in Nat
      BY <1>1, <2>2 DEF SessionInv, Boots, Links, Good, TypeOK, Tokens
    <3>2. link' = IF token.gen = age THEN "up" ELSE "refused"
      BY <1>1, <2>2, <3>1, SessionAssumption DEF Handshake, Live
    <3>3. QED  BY <1>1, <3>1, <3>2 DEF SessionInv, Links, Good
  <2>3. QED  BY <2>1, <2>2
<1>7. Boots'
  BY <1>1 DEF SessionInv, Boots
<1>8. Owned'
  BY <1>1 DEF SessionInv, Owned, BootWasCookie, RefreshesAreUsers
<1>9. Followed' /\ Hidden'
  BY <1>1 DEF SessionInv, Followed, BootIsCookie, Hidden
<1>10. QED  BY <1>4, <1>5, <1>6, <1>7, <1>8, <1>9 DEF SessionInv

LEMMA InvReconnect ==
    ASSUME SessionInv, Reconnect
    PROVE  SessionInv'
<1>1. /\ link = "up" /\ link' = Handshake(socket)
      /\ UNCHANGED <<age, cookie, token, user, loading, shown, socket, req, seen>>
  BY DEF Reconnect
<1>2. link' \in {"none", "up", "refused"}
  BY <1>1 DEF Handshake
<1>3. TypeOK'
  BY <1>1, <1>2 DEF SessionInv, TypeOK
<1>4. Links'
  <2>1. socket # NoToken /\ socket.sub \in Users /\ socket.gen <= age
        /\ socket.gen \in Nat /\ age \in Nat
    BY <1>1 DEF SessionInv, Links, Good, TypeOK, Tokens
  <2>2. link' = IF socket.gen = age THEN "up" ELSE "refused"
    BY <1>1, <2>1, SessionAssumption DEF Handshake, Live
  <2>3. QED  BY <1>1, <2>1, <2>2 DEF SessionInv, Links, Good
<1>5. \A x \in Requests : Staged(req[x])' /\ Aged(req[x])'
  BY <1>1 DEF SessionInv, Staged, Aged, Good
<1>6. Boots' /\ Owned'
  BY <1>1 DEF SessionInv, Boots, Owned, BootWasCookie, RefreshesAreUsers
<1>7. Followed' /\ Hidden'
  BY <1>1 DEF SessionInv, Followed, BootIsCookie, Hidden
<1>8. QED  BY <1>3, <1>4, <1>5, <1>6, <1>7 DEF SessionInv

LEMMA InvTime ==
    ASSUME SessionInv, TokensExpire \/ CookieEnds \/ \E u \in Users : OtherTab(u)
    PROVE  SessionInv'
<1>1. UNCHANGED <<token, user, loading, shown, socket, link, req>>
  BY DEF TokensExpire, CookieEnds, OtherTab, tab
<1>2. /\ age \in Nat /\ age' \in Nat /\ age <= age'
      /\ \A t \in Tokens : t.gen \in Nat
      /\ token \in Tokens /\ socket \in Tokens /\ req \in [Requests -> Request]
  BY SessionAssumption DEF TokensExpire, CookieEnds, OtherTab, SessionInv, TypeOK, Tokens, Request
<1>3. \A t \in Tokens : Good(t) => Good(t)'
  BY <1>2 DEF Good
<1>4. TypeOK'
  <2>1. /\ age' \in 0..MaxAge /\ cookie' \in Users \cup {NoUser} /\ seen' \subseteq Happenings
    <3>1. CASE TokensExpire
      BY <1>2, <3>1, SessionAssumption DEF TokensExpire, SessionInv, TypeOK
    <3>2. CASE CookieEnds
      BY <3>2 DEF CookieEnds, SessionInv, TypeOK, Happenings
    <3>3. CASE \E u \in Users : OtherTab(u)
      BY <3>3 DEF OtherTab, SessionInv, TypeOK, Happenings
    <3>4. QED  BY <3>1, <3>2, <3>3
  <2>2. QED  BY <1>1, <2>1 DEF SessionInv, TypeOK
<1>5. ASSUME NEW x \in Requests PROVE Staged(req[x])' /\ Aged(req[x])'
  <2>1. req[x].sentToken \in Tokens /\ req[x].got \in Tokens /\ Staged(req[x]) /\ Aged(req[x])
    BY <1>2 DEF SessionInv, Request
  <2>2. Staged(req[x])'
    BY <1>1, <1>3, <2>1 DEF Staged, Good, Idle, NoToken
  <2>3. Aged(req[x])'
    BY <1>1, <1>2, <2>1 DEF Aged
  <2>4. QED  BY <2>2, <2>3
<1>6. Boots'
  BY <1>1 DEF SessionInv, Boots
<1>7. Links'
  BY <1>1, <1>2, <1>3 DEF SessionInv, Links, Good
<1>8. Owned'
  <2>1. CASE TokensExpire
    BY <1>1, <2>1 DEF TokensExpire, SessionInv, Owned, BootWasCookie, RefreshesAreUsers
  <2>2. CASE CookieEnds
    BY <1>1, <2>2 DEF CookieEnds, SessionInv, Owned, BootWasCookie, RefreshesAreUsers
  <2>3. CASE \E u \in Users : OtherTab(u)
    BY <1>1, <2>3 DEF OtherTab, SessionInv, Owned
  <2>4. QED  BY <2>1, <2>2, <2>3
<1>9. Followed'
  <2>1. CASE TokensExpire
    BY <1>1, <1>2, <2>1 DEF TokensExpire, SessionInv, Followed, BootIsCookie
  <2>2. CASE CookieEnds \/ \E u \in Users : OtherTab(u)
    BY <2>2 DEF CookieEnds, OtherTab, Followed
  <2>3. QED  BY <2>1, <2>2
<1>10. Hidden'
  BY <1>1 DEF TokensExpire, CookieEnds, OtherTab, SessionInv, Hidden
<1>11. QED  BY <1>4, <1>5, <1>6, <1>7, <1>8, <1>9, <1>10 DEF SessionInv

LEMMA InvNext ==
    ASSUME SessionInv, [Next]_vars
    PROVE  SessionInv'
<1>1. ASSUME NEW r \in Requests, NEW who \in Users \cup {NoUser}, SubmitLogin(r, who)
      PROVE  SessionInv'
  BY <1>1, InvBegin DEF SubmitLogin
<1>2. ASSUME NEW r \in Requests, ClickLogout(r) \/ PageAsks(r)
      PROVE  SessionInv'
  <2>1. user # NoUser /\ ~loading
    BY <1>2 DEF ClickLogout, PageAsks, SessionInv, Boots
  <2>2. QED  BY <1>2, <2>1, InvBegin DEF ClickLogout, PageAsks
<1>3. ASSUME NEW r \in Requests, Serve(r) \/ ServeRefresh(r) \/ Refresh(r)
             \/ RefreshArrives(r) \/ Succeed(r)
      PROVE  SessionInv'
  BY <1>3, InvServe, InvServeRefresh, InvRefresh, InvRefreshArrives, InvSucceed
<1>4. ASSUME NEW r \in Requests, Refused(r) PROVE SessionInv'
  BY <1>4, InvGiveUp DEF Refused, MayRefresh
<1>5. ASSUME NEW r \in Requests, Fail(r) PROVE SessionInv'
  BY <1>5, InvGiveUp DEF Fail
<1>6. CASE UNCHANGED vars
  BY <1>6 DEF vars, SessionInv, TypeOK, Staged, Aged, Boots, Links, Good, Owned, Followed, Hidden,
              BootIsCookie, BootWasCookie, RefreshesAreUsers
<1>7. QED
  BY <1>1, <1>2, <1>3, <1>4, <1>5, <1>6, InvReload, InvRender, InvReconnect, InvTime
     DEF Next, Step

LEMMA InvInit == Init => SessionInv
<1> SUFFICES ASSUME Init PROVE SessionInv
  OBVIOUS
<1>1. TypeOK
  <2>1. NoToken \in Tokens
    BY SessionAssumption DEF NoToken, Tokens
  <2>2. Idle \in Request
    BY <2>1, SMTT(20) DEF Request, Idle
  <2>3. Booting \in Request
    BY <2>2 DEF Booting, Request, Init
  <2>4. QED  BY <2>1, <2>2, <2>3, SessionAssumption DEF Init, TypeOK, Request
<1>2. /\ req[BootSlot] = Booting
      /\ \A x \in Requests \ {BootSlot} : req[x] = Idle
  BY BootSlotExists DEF Init
<1>3. /\ Idle.pc = "idle" /\ Idle.path = "none" /\ Staged(Idle) /\ Aged(Idle)
      /\ Booting.pc = "refreshing" /\ Booting.path = "me" /\ Booting.sentCookie = cookie
      /\ Staged(Booting) /\ Aged(Booting)
  BY <1>1, IdleIsRequest
<1>4. \A x \in Requests : Staged(req[x]) /\ Aged(req[x])
  BY <1>2, <1>3
<1>5. Boots /\ Links
  BY <1>2, <1>3 DEF Init, Boots, Links, Good
<1>6. Owned /\ Followed /\ Hidden
  BY <1>2, <1>3 DEF Init, Owned, BootWasCookie, Followed, BootIsCookie, Hidden
<1>7. QED  BY <1>1, <1>4, <1>5, <1>6 DEF SessionInv

LEMMA SessionInvariant == Spec => []SessionInv
<1>1. Init => SessionInv
  BY InvInit
<1>2. SessionInv /\ [Next]_vars => SessionInv'
  BY InvNext
<1>3. QED  BY <1>1, <1>2, PTL DEF Spec
-------------------------------------------------------------------------------
\* Every variable of the session always has its type; no request is retried twice.
THEOREM TypeCorrect == Spec => []TypeOK
<1>1. SessionInv => TypeOK
  BY DEF SessionInv
<1>2. QED  BY SessionInvariant, <1>1, PTL

\* A tab never sends or connects with another user's token than that of the user it
\* shows, unless another tab changed the cookie or it signed in or out during a refresh.
THEOREM TokenAlwaysUsers == Spec => []TokenIsUsers
<1>1. SessionInv => TokenIsUsers
  BY DEF SessionInv, Owned, TokenIsUsers
<1>2. QED  BY SessionInvariant, <1>1, PTL

\* A tab that has loaded is always signed in as the owner of the refresh cookie, when
\* nothing is lost and tokens expire at most once.
THEOREM SessionAlwaysFollowsCookie == Spec => []SessionFollowsCookie
<1>1. SessionInv => SessionFollowsCookie
  BY DEF SessionInv, Followed, SessionFollowsCookie
<1>2. QED  BY SessionInvariant, <1>1, PTL

\* One expiry of the access tokens never makes a page's request fail.
THEOREM ExpiryAlwaysHidden == Spec => []ExpiryIsHidden
<1>1. SessionInv => ExpiryIsHidden
  <2> SUFFICES ASSUME SessionInv, age <= 1, seen = {}, NEW r \in Requests, req[r].path = "data"
               PROVE  /\ ~(req[r].pc = "answered" /\ ~req[r].ok /\ req[r].tries # 1)
                      /\ ~(req[r].pc = "refreshed" /\ req[r].got = NoToken)
    BY DEF ExpiryIsHidden
  <2>1. age \in Nat
    BY SessionAssumption DEF SessionInv, TypeOK
  <2>2. ~(req[r].pc = "answered" /\ ~req[r].ok /\ req[r].tries # 1)
    BY <2>1 DEF SessionInv, Staged, Aged
  <2>3. QED  BY <2>2 DEF SessionInv, Hidden
<1>2. QED  BY SessionInvariant, <1>1, PTL

\* A page that shows a user always has a socket, and only a token that has expired
\* keeps that socket from coming back.
THEOREM SocketAlwaysComesBack == Spec => []SocketComesBack
<1>1. SessionInv => SocketComesBack
  BY DEF SessionInv, Links, SocketComesBack
<1>2. QED  BY SessionInvariant, <1>1, PTL
=============================================================================
