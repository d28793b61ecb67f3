------------------------------ MODULE LiveFeed ------------------------------
(* One client of the activity feed: ActivityFeed.tsx between the answer of    *)
(* GET /api/activity and the pushes of broadcastActivity, or a client that    *)
(* pages back through the same route with `before`.  The rows are those of    *)
(* the feed's scope, which Access states; that the page's join is allowed and *)
(* that the rooms of its role hear of its rows is the business of Sockets.    *)
(*                                                                            *)
(* CopiesToProject, OlderOrSame, Unordered and KeptOneMore are not used here: *)
(* each varies the definition after it, the way that code could be wrong.     *)
EXTENDS Integers, FiniteSets, SequencesExt

CONSTANTS
    PageSize,   \* rows of one answer, the limit of getFeed
    MaxShown,   \* events the page keeps
    MaxRows,    \* bound: rows committed while the client runs
    MayLose     \* what may be lost, any number of times: some of Losses

\* A handler between its commit and its broadcast, the page's GET, the connection.
Losses == {"broadcast", "fetch", "connection"}

ASSUME LiveFeedAssumption ==
    /\ PageSize \in Nat \ {0} /\ MaxShown \in Nat \ {0} /\ MaxRows \in Nat
    /\ MayLose \subseteq Losses

VARIABLES
    page,       \* "project": with a projectId; "role": the feed of the user's role;
                \* "pager": no page, a client of the route
    rows,       \* the ActivityLog rows in scope, in commit order
    unsent,     \* rows whose handler has not reached broadcastActivity yet
    connected,  \* the page's socket is connected
    join,       \* its project:join: sent, handled, lost with a connection, none
    wire,       \* events emitted to the socket and not handled yet
    fetch,      \* the page's GET, and the answer once the database has read it
    shown,      \* the page's list of events, the first one on top
    losses,     \* what has been lost so far
    pager       \* the pager: the rows it got, the oldest time among them, the rows
                \* there were at its first page, whether a page repeated a row

vars == <<page, rows, unsent, connected, join, wire, fetch, shown, losses, pager>>
-------------------------------------------------------------------------------
Ids == DOMAIN rows
Pages == {"project", "role"}

\* The page is in its rooms and its first answer is on the screen.
Settled ==
    /\ fetch.pc = "done"
    /\ connected
    /\ page = "project" => join = "handled"

\* Where the page stood when a row was committed.
Stage ==
    IF fetch.pc = "asked" THEN "asked"
    ELSE IF Settled THEN "settled"
    ELSE IF ~connected /\ "connection" \in losses THEN "offline"
    ELSE "between"

\* The page is mounted on a socket that is connected or still connecting.
Init ==
    /\ page \in Pages \cup {"pager"}
    /\ rows = <<>>
    /\ unsent = {}
    /\ connected \in (IF page \in Pages THEN BOOLEAN ELSE {FALSE})
    /\ join = IF page = "project" THEN "sent" ELSE "none"
    /\ wire = <<>>
    /\ fetch = [pc |-> IF page \in Pages THEN "asked" ELSE "failed", list |-> <<>>]
    /\ shown = <<>>
    /\ losses = {}
    /\ pager = [pc |-> IF page \in Pages THEN "done" ELSE "first",
                got |-> {}, before |-> 0, first |-> {}, again |-> FALSE]
-------------------------------------------------------------------------------
\* getFeed.

OlderOrSame(before) == {i \in Ids : rows[i].at <= before}

\* where createdAt < before.
Older(before) == {i \in Ids : rows[i].at < before}

\* One answer: PageSize of the rows of S, or all, each once.
Listings(S) ==
    {L \in [1 .. IF Cardinality(S) < PageSize THEN Cardinality(S) ELSE PageSize -> S] :
        \A k, m \in DOMAIN L : k < m => L[k] # L[m]}

Unordered(S) == Listings(S)

\* orderBy createdAt desc, take PageSize.  Rows of one time come in any order, and any
\* of them may be the ones left out.
Answers(S) ==
    {L \in Listings(S) :
        /\ \A k, m \in DOMAIN L : k < m => rows[L[k]].at >= rows[L[m]].at
        /\ \A k \in DOMAIN L, i \in S \ ToSet(L) : rows[L[k]].at >= rows[i].at}
-------------------------------------------------------------------------------
\* The server.

\* updateTaskStatus commits a row.  Its time is taken when it is inserted, so times
\* follow the order of the commits only roughly.  own: the room of the user's role
\* hears of it too; only a developer on a project page sees rows of others' tasks.
\* stage is history.
Commit(at, own) ==
    /\ Len(rows) < MaxRows
    /\ IF rows = <<>> THEN at = 1 ELSE at >= Last(rows).at - 1
    /\ page = "role" => own
    /\ rows' = Append(rows, [at |-> at, own |-> own, stage |-> Stage])
    /\ unsent' = unsent \cup {Len(rows) + 1}
    /\ UNCHANGED <<page, connected, join, wire, fetch, shown, losses, pager>>

CopiesToProject(i) == IF join = "handled" THEN <<i>> ELSE <<>>

\* broadcastActivity emits to room after room; a socket in two of them hears twice.
Copies(i) ==
    (IF join = "handled" THEN <<i>> ELSE <<>>) \o (IF rows[i].own THEN <<i>> ELSE <<>>)

BroadcastRow(i) ==
    /\ i \in unsent
    /\ unsent' = unsent \ {i}
    /\ wire' = IF connected THEN wire \o Copies(i) ELSE wire
    /\ UNCHANGED <<page, rows, connected, join, fetch, shown, losses, pager>>

\* The handler fails, or the process does, between the commit and the broadcast.
BroadcastFails(i) ==
    /\ i \in unsent /\ "broadcast" \in MayLose
    /\ unsent' = unsent \ {i}
    /\ losses' = losses \cup {"broadcast"}
    /\ UNCHANGED <<page, rows, connected, join, wire, fetch, shown, pager>>

HandleJoin ==
    /\ connected /\ join = "sent"
    /\ join' = "handled"
    /\ UNCHANGED <<page, rows, unsent, connected, wire, fetch, shown, losses, pager>>

ReadFeed ==
    /\ fetch.pc = "asked"
    /\ \E L \in Answers(Ids) : fetch' = [pc |-> "answered", list |-> L]
    /\ UNCHANGED <<page, rows, unsent, connected, join, wire, shown, losses, pager>>
-------------------------------------------------------------------------------
\* The page.

\* The answer replaces whatever was pushed meanwhile.
FeedArrives ==
    /\ fetch.pc = "answered"
    /\ fetch' = [pc |-> "done", list |-> <<>>]
    /\ shown' = fetch.list
    /\ UNCHANGED <<page, rows, unsent, connected, join, wire, losses, pager>>

FeedFails ==
    /\ fetch.pc \in {"asked", "answered"} /\ "fetch" \in MayLose
    /\ fetch' = [pc |-> "failed", list |-> <<>>]
    /\ losses' = losses \cup {"fetch"}
    /\ UNCHANGED <<page, rows, unsent, connected, join, wire, shown, pager>>

KeptOneMore(events) ==
    SubSeq(events, 1, IF Len(events) <= MaxShown THEN Len(events) ELSE MaxShown + 1)

\* slice(0, MaxShown).
Kept(events) == SubSeq(events, 1, IF Len(events) < MaxShown THEN Len(events) ELSE MaxShown)

\* activity:new puts the event on top.
HandleEvent ==
    /\ wire # <<>>
    /\ shown' = Kept(<<Head(wire)>> \o shown)
    /\ wire' = Tail(wire)
    /\ UNCHANGED <<page, rows, unsent, connected, join, fetch, losses, pager>>

\* With the connection go the events under way and the rooms of the socket.
Lose ==
    /\ connected /\ "connection" \in MayLose
    /\ connected' = FALSE
    /\ wire' = <<>>
    /\ join' = IF page = "project" THEN "lost" ELSE "none"
    /\ losses' = losses \cup {"connection"}
    /\ UNCHANGED <<page, rows, unsent, fetch, shown, pager>>

\* Connecting, for the first time or again, puts the socket in its user's rooms.
\* A project:join still buffered goes out; nothing sends another one, and nothing
\* fetches the feed again.
Connect ==
    /\ page \in Pages /\ ~connected
    /\ connected' = TRUE
    /\ UNCHANGED <<page, rows, unsent, join, wire, fetch, shown, losses, pager>>
-------------------------------------------------------------------------------
\* The pager asks for the page before the oldest time it has, until one is short.
NextPage ==
    /\ pager.pc \in {"first", "more"}
    /\ \E L \in Answers(IF pager.pc = "first" THEN Ids ELSE Older(pager.before)) :
        pager' = [pc |-> IF Len(L) < PageSize THEN "done" ELSE "more",
                  got |-> pager.got \cup ToSet(L),
                  before |-> IF L = <<>> THEN pager.before ELSE rows[Last(L)].at,
                  first |-> IF pager.pc = "first" THEN Ids ELSE pager.first,
                  again |-> pager.again \/ ToSet(L) \cap pager.got # {}]
    /\ UNCHANGED <<page, rows, unsent, connected, join, wire, fetch, shown, losses>>
-------------------------------------------------------------------------------
Next ==
    \/ \E at \in 1..MaxRows, own \in BOOLEAN : Commit(at, own)
    \/ \E i \in unsent : BroadcastRow(i)
    \/ \E i \in unsent : BroadcastFails(i)
    \/ HandleJoin
    \/ ReadFeed
    \/ FeedArrives
    \/ FeedFails
    \/ HandleEvent
    \/ Lose
    \/ Connect
    \/ NextPage

Spec == Init /\ [][Next]_vars
-------------------------------------------------------------------------------
\* Properties.

\* Every variable has its type; what the page shows and what is under way are rows.
TypeOK ==
    /\ page \in Pages \cup {"pager"}
    /\ rows \in Seq([at : 1..MaxRows, own : BOOLEAN, stage : {"asked", "between", "settled", "offline"}])
    /\ unsent \subseteq Ids
    /\ connected \in BOOLEAN
    /\ join \in {"none", "sent", "handled", "lost"}
    /\ wire \in Seq(Ids)
    /\ fetch \in [pc : {"asked", "answered", "done", "failed"}, list : Seq(Ids)]
    /\ shown \in Seq(Ids) /\ Len(shown) <= IF MaxShown < PageSize THEN PageSize ELSE MaxShown
    /\ losses \subseteq MayLose
    /\ pager \in [pc : {"first", "more", "done"}, got : SUBSET Ids, before : 0..MaxRows,
                  first : SUBSET Ids, again : BOOLEAN]

\* No push of it is outstanding.
Delivered(i) == i \notin unsent /\ ~Contains(wire, i)

\* As long as nothing is lost, the page misses at most the rows committed between
\* the reading of its answer and the moment it is in its rooms with the answer on
\* the screen: every row committed later is shown once its pushes are handled, and
\* of those committed before the reading PageSize are, or all, for as long as the
\* list is not full (ActivityFeed.tsx with broadcastActivity and getFeed).
MissesOnlyBetween ==
    losses = {} /\ fetch.pc = "done" /\ Len(shown) < MaxShown =>
        LET seen == ToSet(shown)
            earlier == {i \in Ids : rows[i].stage = "asked"}
        IN  /\ \A i \in Ids : rows[i].stage = "settled" /\ Delivered(i) => i \in seen
            /\ \/ earlier \subseteq seen
               \/ Cardinality(earlier \cap seen) >= PageSize

PL == INSTANCE PushedList WITH
        rows <- [i \in Ids |-> rows[i].at],
        list <- shown,
        fetched <- fetch.pc = "done",
        due <- unsent \cup ToSet(wire)

\* Every behaviour of the page, the handlers and the connection is one of PushedList:
\* nothing gets into the list, out of it or elsewhere in it in any other way, whatever
\* is committed between the reading of the answer and its arrival.
ImplementsPushedList == PL!Spec

\* A client that pages back never gets a row twice, and when no two rows have one
\* time it ends with every row there was when it began, whatever was committed
\* meanwhile (getFeed with `before`).
PagesCover ==
    /\ ~pager.again
    /\ pager.pc = "done" /\ (\A i, k \in Ids : i # k => rows[i].at # rows[k].at) =>
        pager.first \subseteq pager.got

\* "a user reconnecting after being offline sees a durable, consistent history"
\* (activity.service.ts:4): once a page that lost its connection has it back and
\* nothing is under way, it shows the rows committed while it was offline, unless
\* PageSize others are newer.
ReconnectedSeesHistory ==
    fetch.pc = "done" /\ connected /\ unsent = {} /\ wire = <<>> =>
        \A i \in Ids : rows[i].stage = "offline" =>
            \/ Contains(shown, i)
            \/ Cardinality({k \in Ids : rows[k].at >= rows[i].at} \ {i}) >= PageSize
=============================================================================
