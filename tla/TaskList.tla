------------------------------ MODULE TaskList ------------------------------
(* One task list page: TaskList.tsx with its filter in the URL, its loads and  *)
(* its moves, and ProjectDetail.tsx around it, which creates tasks and gives   *)
(* the list a new key, and so a new instance of it, after each change.         *)
(* DeveloperDashboard.tsx is the same without the form.                        *)
(*                                                                             *)
(* An answer can take any time, so answers overtake each other.  A resend      *)
(* after a refreshed session is part of that time.  The filter is on the       *)
(* status, the only filtered column that changes.  The rights are those of     *)
(* Access: a list holds the tasks its user may move.                           *)
(*                                                                             *)
(* NEXT_STATUSReopening, AnyFilter, StillMounted, OnlyShown and LoadingKept   *)
(* are not used here: each varies the definition after it, the way that code   *)
(* could be wrong.                                                             *)
EXTENDS Workflow, Integers

CONSTANTS
    Tasks,      \* ids of the tasks there are or that are created
    Filters,    \* values the URL's status parameter takes
    Moves,      \* bound: moves of the page under way at once
    Posts,      \* bound: submitted forms under way at once
    Fetches,    \* bound: loads of the page under way at once
    MaxClock    \* bound: changes of the Task table

ASSUME TaskListAssumption ==
    /\ Filters \subseteq Statuses \cup {"all"}
    /\ Fetches # {} /\ MaxClock \in Nat

VARIABLES
    status,     \* the Task table: created task -> its status
    clock,      \* history: changes of the table so far
    url,        \* the filter in the URL
    loads,      \* the loads under way; each knows which others were begun before it
    list,       \* what the list shows, and when it was read
    loading,    \* the flag behind "Loading tasks..."
    moves,      \* what moveTask holds in its local variables
    posts,      \* the time at which each submitted form created its task, or 0
    own,        \* history: the latest of the page's own changes that ran to its end
    missed      \* history: a load of this instance of the list has failed, or was
                \* answered after one begun later

dbVars == <<status, clock>>
listVars == <<loads, list, loading, own, missed>>
vars == <<dbVars, url, listVars, moves, posts>>
-------------------------------------------------------------------------------
NEXT_STATUSReopening ==
    [TODO |-> {"IN_PROGRESS"},
     IN_PROGRESS |-> {"IN_REVIEW", "TODO"},
     IN_REVIEW |-> {"DONE", "IN_PROGRESS"},
     DONE |-> {"IN_REVIEW"}]

\* The buttons of a listed task, by the status it is listed with.
NEXT_STATUS ==
    [TODO |-> {"IN_PROGRESS"},
     IN_PROGRESS |-> {"IN_REVIEW", "TODO"},
     IN_REVIEW |-> {"DONE", "IN_PROGRESS"},
     DONE |-> {}]

NoList == [filter |-> "none", rows |-> [t \in {} |-> "TODO"], at |-> 0]

NoLoad == [pc |-> "none"]

UnderWay(ls) == {k \in Fetches : ls[k] # NoLoad}

\* A place for one more load; which one it takes makes no difference.
HasRoom(ls) == \E k \in Fetches : ls[k] = NoLoad
Free(ls) == CHOOSE k \in Fetches : ls[k] = NoLoad

\* load() until its fetch; before: the loads under way that were begun before
\* it; passed: one begun later has been answered; of: the move it belongs to, if any.
Begun(ls, filter, of) ==
    [ls EXCEPT ![Free(ls)] =
        [pc |-> "asked", filter |-> filter, of |-> of, before |-> UnderWay(ls),
         passed |-> FALSE, list |-> NoList]]

\* Only the loads of S are left.
Left(ls, S) ==
    [k \in Fetches |->
        IF k \in S /\ ls[k] # NoLoad THEN [ls[k] EXCEPT !.before = @ \cap S] ELSE NoLoad]

NoMove == [pc |-> "idle"]

\* The moves go on, but those of the old instance cannot set anything any more.
Disowned(ms) == [m \in Moves |-> IF ms[m] = NoMove THEN NoMove ELSE [ms[m] EXCEPT !.mine = FALSE]]

Init ==
    /\ \E S \in SUBSET Tasks : status \in [S -> Statuses]
    /\ clock = 0
    /\ url \in Filters
    /\ loads = Begun([k \in Fetches |-> NoLoad], url, {})
    /\ list = NoList
    /\ loading = TRUE
    /\ moves = [m \in Moves |-> NoMove]
    /\ posts = [q \in Posts |-> 0]
    /\ own = 0
    /\ missed = FALSE
-------------------------------------------------------------------------------
\* The server.

\* A task gets status st, now.
Write(t, st) ==
    /\ clock < MaxClock
    /\ clock' = clock + 1
    /\ status' = [x \in DOMAIN status \cup {t} |-> IF x = t THEN st ELSE status[x]]

\* Other users and other pages.
OtherMoves(t, st) ==
    /\ t \in DOMAIN status
    /\ <<status[t], st>> \in VALID_TRANSITIONS
    /\ Write(t, st)
    /\ UNCHANGED <<url, listVars, moves, posts>>

OtherCreates(t) ==
    /\ t \notin DOMAIN status
    /\ Write(t, "TODO")
    /\ UNCHANGED <<url, listVars, moves, posts>>

AnyFilter(filter) == DOMAIN status

\* The status condition of scopedWhere.
Matching(filter) == {t \in DOMAIN status : filter \in {"all", status[t]}}

\* listTasks.
ServeLoad(i) ==
    /\ loads[i].pc = "asked"
    /\ loads' = [loads EXCEPT ![i].pc = "answered",
                   ![i].list = [filter |-> loads[i].filter, at |-> clock,
                                rows |-> [t \in Matching(loads[i].filter) |-> status[t]]]]
    /\ UNCHANGED <<dbVars, url, list, loading, own, missed, moves, posts>>

\* updateTaskStatus up to its transaction.
ServeCheck(m) ==
    LET q == moves[m] IN
    /\ q.pc = "sent"
    /\ moves' = [moves EXCEPT ![m] =
                   IF <<status[q.task], q.to>> \in VALID_TRANSITIONS
                   THEN [pc |-> "checked", task |-> q.task, to |-> q.to,
                         filter |-> q.filter, mine |-> q.mine]
                   ELSE [pc |-> "refused", listed |-> q.listed, found |-> status[q.task],
                         mine |-> q.mine]]
    /\ UNCHANGED <<dbVars, url, listVars, posts>>

\* Its transaction, which writes whatever the task's status is by now.
ServeMove(m) ==
    LET q == moves[m] IN
    /\ q.pc = "checked"
    /\ Write(q.task, q.to)
    /\ moves' = [moves EXCEPT ![m] =
                   [pc |-> "moved", at |-> clock', filter |-> q.filter, mine |-> q.mine]]
    /\ UNCHANGED <<url, listVars, posts>>

-------------------------------------------------------------------------------
\* The list.

\* The effect runs again when the URL's filter has changed.
SetFilter(f) ==
    /\ f # url
    /\ HasRoom(loads)
    /\ loads' = Begun(loads, f, {})
    /\ url' = f
    /\ loading' = TRUE
    /\ UNCHANGED <<dbVars, list, own, missed, moves, posts>>

\* The answer to load i is set, whatever has been shown by then.
Show(i) ==
    /\ loads' = Left([k \in Fetches |->
                       IF k \in loads[i].before THEN [loads[k] EXCEPT !.passed = TRUE]
                       ELSE loads[k]], Fetches \ {i})
    /\ list' = loads[i].list
    /\ loading' = FALSE
    /\ missed' = (missed \/ loads[i].passed)
    /\ UNCHANGED own

LoadArrives(i) ==
    /\ loads[i].pc = "answered" /\ loads[i].of = {}
    /\ Show(i)
    /\ UNCHANGED <<dbVars, url, moves, posts>>

LoadingKept == loading

LoadingAfterFailure == FALSE

\* The load is one of the instance on the page.
Mine(load) == \A m \in load.of : moves[m].mine

\* A load is rejected: nothing is set but loading, and a move it was part of ends.
LoadFails(i) ==
    /\ loads[i] # NoLoad
    /\ loads' = Left(loads, Fetches \ {i})
    /\ loading' = IF Mine(loads[i]) THEN LoadingAfterFailure ELSE loading
    /\ missed' = (missed \/ Mine(loads[i]))
    /\ moves' = [m \in Moves |-> IF m \in loads[i].of THEN NoMove ELSE moves[m]]
    /\ UNCHANGED <<dbVars, url, list, own, posts>>

StillMounted(ls) == ls

\* React drops what an instance sets that is no longer mounted, so of its loads
\* only those that a move waits for go on.
Unmounted(ls) == Left(ls, {k \in UnderWay(ls) : ls[k].of # {}})

\* A new refreshKey: a new instance of the list, which loads what the URL says.
Remount(others, at) ==
    /\ HasRoom(Unmounted(others))
    /\ loads' = Begun(Unmounted(others), url, {})
    /\ list' = NoList
    /\ loading' = TRUE
    /\ own' = IF at > own THEN at ELSE own
    /\ missed' = FALSE
-------------------------------------------------------------------------------
\* moveTask.

\* A button of a listed task; the function that runs is the one of the last render.
ClickMove(m, t, st) ==
    /\ moves[m] = NoMove
    /\ t \in DOMAIN list.rows
    /\ st \in NEXT_STATUS[list.rows[t]]
    /\ moves' = [moves EXCEPT ![m] =
                   [pc |-> "sent", task |-> t, to |-> st, listed |-> list.rows[t],
                    filter |-> url, mine |-> TRUE]]
    /\ UNCHANGED <<dbVars, url, listVars, posts>>

\* The PATCH succeeded: the list is loaded, with the filter there was at the click.
MoveAnswered(m) ==
    /\ moves[m].pc = "moved"
    /\ HasRoom(loads)
    /\ loads' = Begun(loads, moves[m].filter, {m})
    /\ loading' = (loading \/ moves[m].mine)
    /\ moves' = [moves EXCEPT ![m].pc = "loading"]
    /\ UNCHANGED <<dbVars, url, list, own, missed, posts>>

\* It is refused, or fails before or after the commit: the rejection is not handled.
MoveRejected(m) ==
    /\ moves[m].pc \in {"sent", "checked", "moved", "refused"}
    /\ moves' = [moves EXCEPT ![m] = NoMove]
    /\ UNCHANGED <<dbVars, url, listVars, posts>>

OnlyShown(i, m) == Show(i)

\* After the load, onTaskUpdated: what the load has set is replaced at once.
Updated(i, m) == Remount(Left(loads, Fetches \ {i}), moves[m].at)

MoveEnds(i, m) ==
    /\ loads[i].pc = "answered" /\ loads[i].of = {m}
    /\ Updated(i, m)
    /\ moves' = Disowned([moves EXCEPT ![m] = NoMove])
    /\ UNCHANGED <<dbVars, url, posts>>
-------------------------------------------------------------------------------
\* The new-task form.

\* handleSubmit until the server has created the task; a refused form changes nothing
\* here.  The button is disabled meanwhile, but a form that is closed and opened again
\* can be submitted beside the first.
SubmitForm(q, t) ==
    /\ posts[q] = 0
    /\ t \notin DOMAIN status
    /\ Write(t, "TODO")
    /\ posts' = [posts EXCEPT ![q] = clock']
    /\ UNCHANGED <<url, listVars, moves>>

\* onCreated, whichever form is open by then.
FormAnswered(q) ==
    /\ posts[q] # 0
    /\ posts' = [posts EXCEPT ![q] = 0]
    /\ Remount(loads, posts[q])
    /\ moves' = Disowned(moves)
    /\ UNCHANGED <<dbVars, url>>

\* The answer is lost, or the server failed after the insert: the form shows an error
\* and the list stays as it is.
FormFails(q) ==
    /\ posts[q] # 0
    /\ posts' = [posts EXCEPT ![q] = 0]
    /\ UNCHANGED <<dbVars, url, listVars, moves>>
-------------------------------------------------------------------------------
LoadStep ==
    \E i \in Fetches :
        \/ ServeLoad(i)
        \/ LoadArrives(i)
        \/ \E m \in Moves : MoveEnds(i, m)
        \/ LoadFails(i)

Next ==
    \/ LoadStep
    \/ \E t \in Tasks, st \in Statuses : OtherMoves(t, st)
    \/ \E t \in Tasks : OtherCreates(t)
    \/ \E f \in Filters : SetFilter(f)
    \/ \E m \in Moves :
        \/ \E t \in Tasks, st \in Statuses : ClickMove(m, t, st)
        \/ ServeCheck(m) \/ ServeMove(m) \/ MoveAnswered(m) \/ MoveRejected(m)
    \/ \E q \in Posts :
        \/ \E t \in Tasks : SubmitForm(q, t)
        \/ FormAnswered(q) \/ FormFails(q)

Spec == Init /\ [][Next]_vars

\* A fetch ends with an answer or an error; nothing is assumed about which load is
\* answered first, nor about users.
FairSpec == Spec /\ WF_vars(LoadStep)
-------------------------------------------------------------------------------
\* Properties.

Lists ==
    [filter : Filters \cup {"none"}, at : 0..clock,
     rows : UNION {[S -> Statuses] : S \in SUBSET DOMAIN status}]

Loads ==
    [pc : {"asked", "answered"}, filter : Filters, of : {{}} \cup {{m} : m \in Moves},
     before : SUBSET UnderWay(loads), passed : BOOLEAN, list : Lists]

Sent ==
    [pc : {"sent"}, task : DOMAIN status, to : Statuses, listed : Statuses, filter : Filters,
     mine : BOOLEAN]
Checked == [pc : {"checked"}, task : DOMAIN status, to : Statuses, filter : Filters, mine : BOOLEAN]
Refused == [pc : {"refused"}, listed : Statuses, found : Statuses, mine : BOOLEAN]
Committed == [pc : {"moved", "loading"}, at : 0..clock, filter : Filters, mine : BOOLEAN]

\* A listed row is one the filter of the list lets through.
Fits(l) == \A t \in DOMAIN l.rows : l.filter \in {"all", l.rows[t]}

\* Every variable has its type, a move has a load under way just while it waits for one,
\* and a listed row is one the filter of its load lets through.
TypeOK ==
    /\ DOMAIN status \subseteq Tasks /\ status \in [DOMAIN status -> Statuses]
    /\ clock \in 0..MaxClock
    /\ url \in Filters
    /\ loads \in [Fetches -> {NoLoad} \cup Loads]
    /\ list \in Lists /\ Fits(list)
    /\ loading \in BOOLEAN /\ missed \in BOOLEAN
    /\ moves \in [Moves -> {NoMove} \cup Sent \cup Checked \cup Refused \cup Committed]
    /\ \A m \in Moves : moves[m].pc = "loading" <=> \E i \in UnderWay(loads) : loads[i].of = {m}
    /\ own \in 0..clock /\ posts \in [Posts -> 0..clock]

\* With no load of the list under way, none failed and none overtaken by one begun
\* later, the page shows the view its URL names, although a move loads the list with
\* the filter there was when it was clicked.
ListIsOfUrl ==
    (\A i \in UnderWay(loads) : ~Mine(loads[i])) /\ ~missed => ~loading /\ list.filter = url

\* Once a move or a creation has run to its end, no list read before it is shown
\* again, whichever of the loads under way is answered last.
OwnChangesShown == list # NoList => list.at >= own

\* The server refuses a move that a button offered only if the task has changed since
\* the list was read: the page's table of moves is the server's.
RefusalMeansStale ==
    \A m \in Moves : moves[m].pc = "refused" => moves[m].found # moves[m].listed

\* The list never stays in "Loading tasks...", however loads fail or are overtaken.
LoadingEnds == []<>~loading
=============================================================================
