-------------------------- MODULE NotificationBell --------------------------
(* The bell of one page and the notifications of its user: NotificationBell.tsx*)
(* between GET /api/notifications, the pushes of emitNotificationToUser and   *)
(* the two ways to mark as read.  Notifications are listed in the order of    *)
(* their inserts; LiveFeed has the finer question of equal times.             *)
(*                                                                            *)
(* NewestOneMore, WithPushAlone, TouchesAny and TouchesOne are not used here: *)
(* each varies a definition after it, the way that code could be wrong.       *)
EXTENDS Integers, FiniteSets, SequencesExt

CONSTANTS
    PageSize,   \* notifications of one answer, the take of listNotifications
    Clicks,     \* bound: mark requests of the page under way at once
    MaxNotes,   \* bound: notifications inserted while the page is mounted
    MayLose     \* what may be lost, any number of times: some of Losses

\* A handler between its insert and its push, the page's GET, a mark request or its
\* answer, the connection.
Losses == {"push", "fetch", "mark", "connection"}

ASSUME BellAssumption == PageSize \in Nat \ {0} /\ MaxNotes \in Nat /\ MayLose \subseteq Losses

VARIABLES
    notes,      \* the user's Notification rows, in the order of their inserts
    unsent,     \* notifications whose handler has not pushed them yet
    connected,  \* the page's socket is connected, and so in its user's room
    wire,       \* notifications pushed to the socket and not handled yet
    fetch,      \* the page's GET, and the answer once the database has read it
    list,       \* what the bell lists, the first one on top
    click,      \* the mark requests of the page
    lost        \* history: something has been lost

vars == <<notes, unsent, connected, wire, fetch, list, click, lost>>
-------------------------------------------------------------------------------
Ids == DOMAIN notes

\* Where the bell stood when a notification was inserted.
Stage ==
    IF fetch.pc = "asked" THEN "asked"
    ELSE IF fetch.pc = "done" /\ connected THEN "settled"
    ELSE "between"

\* A notification that no push is outstanding of.
Delivered(i) == i \notin unsent /\ ~Contains(wire, i)

Quiet ==
    /\ fetch.pc = "done" /\ unsent = {} /\ wire = <<>>
    /\ \A c \in Clicks : click[c].pc = "idle"

NoClick == [pc |-> "idle", all |-> FALSE, id |-> 0]

Init ==
    /\ notes = <<>> /\ unsent = {}
    /\ connected \in BOOLEAN
    /\ wire = <<>>
    /\ fetch = [pc |-> "asked", list |-> <<>>]
    /\ list = <<>>
    /\ click = [c \in Clicks |-> NoClick]
    /\ lost = FALSE
-------------------------------------------------------------------------------
\* The server.

\* createNotification.  stage, late and early are history: late, a read-all had been
\* served and not answered yet; early, a read-all marked it before it was delivered.
CreateNotification ==
    /\ Len(notes) < MaxNotes
    /\ notes' = Append(notes,
         [read |-> "no", stage |-> Stage, early |-> FALSE,
          late |-> \E c \in Clicks : click[c].pc = "answered" /\ click[c].all])
    /\ unsent' = unsent \cup {Len(notes) + 1}
    /\ UNCHANGED <<connected, wire, fetch, list, click, lost>>

\* emitNotificationToUser.
EmitNotification(i) ==
    /\ i \in unsent
    /\ unsent' = unsent \ {i}
    /\ wire' = IF connected THEN Append(wire, i) ELSE wire
    /\ UNCHANGED <<notes, connected, fetch, list, click, lost>>

EmitFails(i) ==
    /\ i \in unsent /\ "push" \in MayLose
    /\ unsent' = unsent \ {i}
    /\ lost' = TRUE
    /\ UNCHANGED <<notes, connected, wire, fetch, list, click>>

NewestOneMore ==
    [k \in 1 .. (IF Len(notes) <= PageSize THEN Len(notes) ELSE PageSize + 1) |->
        LET i == Len(notes) + 1 - k IN [id |-> i, read |-> notes[i].read # "no"]]

\* orderBy createdAt desc, take PageSize.
Newest ==
    [k \in 1 .. (IF Len(notes) <= PageSize THEN Len(notes) ELSE PageSize) |->
        LET i == Len(notes) + 1 - k IN [id |-> i, read |-> notes[i].read # "no"]]

ListNotifications ==
    /\ fetch.pc = "asked"
    /\ fetch' = [pc |-> "answered", list |-> Newest]
    /\ UNCHANGED <<notes, unsent, connected, wire, list, click, lost>>

TouchesAny(mark, i) == TRUE

TouchesOne(mark, i) == mark.id = i

\* Which entries the page marks when a mark request is answered.
Touches(mark, i) == mark.all \/ mark.id = i

\* markRead and markAllRead.
MarkServed(c) ==
    /\ click[c].pc = "sent"
    /\ click' = [click EXCEPT ![c].pc = "answered"]
    /\ notes' = [i \in Ids |->
         IF notes[i].read = "no" /\ (click[c].all \/ click[c].id = i)
         THEN [notes[i] EXCEPT !.read = "here", !.early = ~Delivered(i)]
         ELSE notes[i]]
    /\ UNCHANGED <<unsent, connected, wire, fetch, list, lost>>

\* The user reads a notification in another tab, whose answer goes to that tab.
MarkedElsewhere(i) ==
    /\ notes[i].read = "no"
    /\ notes' = [notes EXCEPT ![i].read = "elsewhere"]
    /\ UNCHANGED <<unsent, connected, wire, fetch, list, click, lost>>
-------------------------------------------------------------------------------
\* The page.

\* The answer replaces whatever was pushed meanwhile.
ListArrives ==
    /\ fetch.pc = "answered"
    /\ fetch' = [pc |-> "done", list |-> <<>>]
    /\ list' = fetch.list
    /\ UNCHANGED <<notes, unsent, connected, wire, click, lost>>

FetchFails ==
    /\ fetch.pc \in {"asked", "answered"} /\ "fetch" \in MayLose
    /\ fetch' = [pc |-> "failed", list |-> <<>>]
    /\ lost' = TRUE
    /\ UNCHANGED <<notes, unsent, connected, wire, list, click>>

WithPushAlone(entry) == <<entry>>

WithPush(entry) == <<entry>> \o list

\* A notification is pushed as it was inserted, unread.
HandlePush ==
    /\ wire # <<>>
    /\ list' = WithPush([id |-> Head(wire), read |-> FALSE])
    /\ wire' = Tail(wire)
    /\ UNCHANGED <<notes, unsent, connected, fetch, click, lost>>

ClickOne(c, i) ==
    /\ click[c].pc = "idle"
    /\ \E k \in DOMAIN list : list[k].id = i
    /\ click' = [click EXCEPT ![c] = [pc |-> "sent", all |-> FALSE, id |-> i]]
    /\ UNCHANGED <<notes, unsent, connected, wire, fetch, list, lost>>

ClickAll(c) ==
    /\ click[c].pc = "idle"
    /\ click' = [click EXCEPT ![c] = [pc |-> "sent", all |-> TRUE, id |-> 0]]
    /\ UNCHANGED <<notes, unsent, connected, wire, fetch, list, lost>>

\* The page marks what it lists by then.
MarkAnswered(c) ==
    /\ click[c].pc = "answered"
    /\ list' = [k \in DOMAIN list |->
         [list[k] EXCEPT !.read = list[k].read \/ Touches(click[c], list[k].id)]]
    /\ click' = [click EXCEPT ![c] = NoClick]
    /\ UNCHANGED <<notes, unsent, connected, wire, fetch, lost>>

MarkFails(c) ==
    /\ click[c].pc \in {"sent", "answered"} /\ "mark" \in MayLose
    /\ click' = [click EXCEPT ![c] = NoClick]
    /\ lost' = TRUE
    /\ UNCHANGED <<notes, unsent, connected, wire, fetch, list>>

Lose ==
    /\ connected /\ "connection" \in MayLose
    /\ connected' = FALSE /\ wire' = <<>>
    /\ lost' = TRUE
    /\ UNCHANGED <<notes, unsent, fetch, list, click>>

Connect ==
    /\ ~connected /\ connected' = TRUE
    /\ UNCHANGED <<notes, unsent, wire, fetch, list, click, lost>>
-------------------------------------------------------------------------------
Next ==
    \/ CreateNotification
    \/ \E i \in unsent : EmitNotification(i)
    \/ \E i \in unsent : EmitFails(i)
    \/ ListNotifications
    \/ \E c \in Clicks : MarkServed(c)
    \/ \E i \in Ids : MarkedElsewhere(i)
    \/ ListArrives
    \/ FetchFails
    \/ HandlePush
    \/ \E c \in Clicks, i \in Ids : ClickOne(c, i)
    \/ \E c \in Clicks : ClickAll(c)
    \/ \E c \in Clicks : MarkAnswered(c)
    \/ \E c \in Clicks : MarkFails(c)
    \/ Lose
    \/ Connect

Spec == Init /\ [][Next]_vars
-------------------------------------------------------------------------------
\* Properties.

Entries == [id : Ids, read : BOOLEAN]

\* Every variable has its type, and an answer is no longer than PageSize.
TypeOK ==
    /\ notes \in Seq([read : {"no", "here", "elsewhere"}, early : BOOLEAN, late : BOOLEAN,
                      stage : {"asked", "between", "settled"}])
    /\ unsent \subseteq Ids
    /\ connected \in BOOLEAN
    /\ wire \in Seq(Ids)
    /\ fetch.pc \in {"asked", "answered", "done", "failed"}
    /\ fetch.list \in Seq(Entries) /\ Len(fetch.list) <= PageSize
    /\ list \in Seq(Entries)
    /\ click \in [Clicks -> [pc : {"idle", "sent", "answered"}, all : BOOLEAN, id : 0..MaxNotes]]
    /\ lost \in BOOLEAN

\* The bell shows nothing as read that the database holds unread, whatever is lost,
\* but for notifications inserted after a read-all was served and listed before its
\* answer came (markAllRead of NotificationBell.tsx marks whatever is listed).
NothingHidden ==
    \A k \in DOMAIN list : list[k].read =>
        LET note == notes[list[k].id] IN note.read # "no" \/ note.late

\* With nothing lost and nothing under way, a notification inserted once the bell
\* was up is shown as unread only if it is, or was read elsewhere, or a read-all
\* overtook its push.
ReadIsSeen ==
    ~lost /\ Quiet =>
        \A k \in DOMAIN list :
            LET note == notes[list[k].id] IN
            ~list[k].read /\ note.stage = "settled" /\ note.read = "here" => note.early

PL == INSTANCE PushedList WITH
        MaxShown <- MaxNotes + PageSize,
        rows <- [i \in Ids |-> i],
        list <- [k \in DOMAIN list |-> list[k].id],
        fetched <- fetch.pc = "done",
        due <- unsent \cup ToSet(wire)

\* Every behaviour of the bell is one of PushedList, in which the marks do not show:
\* marking changes no entry's place, and the list, never cut, is the fetched page with
\* one entry on top for each push handled since, or the pushes alone until then.
ImplementsPushedList == PL!Spec

\* With nothing lost, a notification inserted once the bell is up is listed exactly
\* once when its push is handled; of those there were before the answer was read,
\* PageSize are listed, or all.
NothingMissed ==
    ~lost /\ fetch.pc = "done" =>
        LET entries(i) == Cardinality({k \in DOMAIN list : list[k].id = i})
            earlier == {i \in Ids : notes[i].stage = "asked"}
            listed == {i \in earlier : entries(i) > 0}
        IN  /\ \A i \in Ids : notes[i].stage = "settled" /\ Delivered(i) => entries(i) = 1
            /\ listed = earlier \/ Cardinality(listed) >= PageSize
=============================================================================
