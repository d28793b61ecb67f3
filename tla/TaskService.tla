----------------------------- MODULE TaskService -----------------------------
(* task.service.ts and overdueJob.ts over one PostgreSQL database.  A handler *)
(* is an async function: between two awaits nothing else of the process runs, *)
(* at every await anything may.  Each action below is one handler from one    *)
(* await that touches shared state to the next; a request that is refused     *)
(* (unknown task, no rights, illegal transition) changes nothing and is not   *)
(* an action.                                                                 *)
(*                                                                            *)
(* Immutable rows are constants: no endpoint edits a user, a project's pmId,  *)
(* or a task's project and assignee, and none deletes anything.               *)
(*                                                                            *)
(* Ten definitions are never used here: MayMoveUnassigned, WrittenFlag-       *)
(* Recomputed, WithRowIfFresh, WithRowReread, AfterBroadcastSilent,           *)
(* OverdueEver, UnflaggedOrNot, UnflaggedAndNew, AssignedOrNot and            *)
(* AssignedToDeveloper each stand before the definition they vary and say how *)
(* that code could be wrong; the properties are tested by swapping them in.   *)
EXTENDS Domain, Naturals, Sequences, FiniteSets

CONSTANTS
    Projects, PmOf,     \* projects and their pmId
    Tasks,              \* ids a created task can get
    Requests,           \* HTTP requests that can be in flight together
    Sweeps,             \* runs of the cron job that can be in flight together
    MaxLog,             \* bound: a task with this many log rows is moved no more
    MaxFaults           \* bound: database errors and process crashes

ASSUME TaskServiceAssumption ==
    /\ PmOf \in [Projects -> Users]
    /\ IsFiniteSet(Requests) /\ IsFiniteSet(Sweeps)
    /\ MaxLog \in Nat
    /\ MaxFaults \in Nat

VARIABLES
    task,       \* the Task table: created task -> its row
    log,        \* the ActivityLog table: task -> its rows, in commit order
    emitted,    \* task -> the numbers of its log rows that were broadcast, in order
    notices,    \* the Notification table: kind -> task -> how many rows; the
                \* recipient is the task's assignee, or its PM for a review
    request,    \* what each request in flight holds in its local variables
    sweep,      \* what each run of the overdue job holds
    faults      \* how many faults have happened

vars == <<task, log, emitted, notices, request, sweep, faults>>
-------------------------------------------------------------------------------
Kinds == {"TASK_ASSIGNED", "TASK_MOVED_TO_REVIEW", "TASK_OVERDUE"}

TaskRow ==
    [project : Projects, assignee : Users \cup {NoUser}, status : Statuses,
     due : {"none", "future", "past"}, isOverdue : BOOLEAN]

LogRow == [actor : Users, from : Statuses, to : Statuses]

\* No request in this slot.
Idle == [pc |-> "idle"]

\* updateTaskStatus after its access check: the task row as it was read, the
\* target, and from the commit on the number of the log row.
MoveReq ==
    [pc : {"checked", "committed", "review"}, task : Tasks, actor : Users,
     from : Statuses, isOverdue : BOOLEAN, to : Statuses, row : Nat]

\* createTask between the insert and the assignee's notification.
CreateReq == [pc : {"created"}, task : Tasks]

NoSweep == [pc |-> "idle", todo |-> {}]

Init ==
    /\ task = [t \in {} |-> NoUser]
    /\ log = [t \in Tasks |-> <<>>]
    /\ emitted = [t \in Tasks |-> <<>>]
    /\ notices = [k \in Kinds |-> [t \in Tasks |-> 0]]
    /\ request = [r \in Requests |-> Idle]
    /\ sweep = [s \in Sweeps |-> NoSweep]
    /\ faults = 0
-------------------------------------------------------------------------------
\* createTask.

\* The rights of getProjectOrThrow, the route's authorize("ADMIN", "PM") and
\* the two checks of createTask itself.
MayCreateIn(u, p) ==
    \/ RoleOf[u] = "ADMIN"
    \/ RoleOf[u] = "PM" /\ PmOf[p] = u

\* The rights are read before the insert, but neither a role nor a pmId ever
\* changes, so check and insert are one step.  Any user id is accepted as the
\* assignee, any date as the due date.
InsertTask(r, t, p, a, d) ==
    /\ request[r] = Idle
    /\ t \notin DOMAIN task
    /\ \E u \in Users : MayCreateIn(u, p)
    /\ task' = [x \in DOMAIN task \cup {t} |->
                  IF x = t
                  THEN [project |-> p, assignee |-> a, status |-> "TODO",
                        due |-> d, isOverdue |-> FALSE]
                  ELSE task[x]]
    /\ request' = [request EXCEPT ![r] =
                     IF a = NoUser THEN Idle ELSE [pc |-> "created", task |-> t]]
    /\ UNCHANGED <<log, emitted, notices, sweep, faults>>

NotifyAssigned(r) ==
    /\ request[r].pc = "created"
    /\ notices' = [notices EXCEPT !["TASK_ASSIGNED"][request[r].task] = @ + 1]
    /\ request' = [request EXCEPT ![r] = Idle]
    /\ UNCHANGED <<task, log, emitted, sweep, faults>>
-------------------------------------------------------------------------------
\* updateTaskStatus.

MayMoveUnassigned(u, row) == RoleOf[u] = "PM" => PmOf[row.project] = u

MayMove(u, row) ==
    /\ RoleOf[u] = "DEVELOPER" => row.assignee = u
    /\ RoleOf[u] = "PM" => PmOf[row.project] = u

\* findUnique, the access check and the transition check, all on the row read.
ReadTask(r, u, t, to) ==
    /\ request[r] = Idle
    /\ t \in DOMAIN task
    /\ Len(log[t]) < MaxLog
    /\ MayMove(u, task[t])
    /\ <<task[t].status, to>> \in VALID_TRANSITIONS
    /\ request' = [request EXCEPT ![r] =
                     [pc |-> "checked", task |-> t, actor |-> u,
                      from |-> task[t].status, isOverdue |-> task[t].isOverdue,
                      to |-> to, row |-> 0]]
    /\ UNCHANGED <<task, log, emitted, notices, sweep, faults>>

WrittenFlagRecomputed(q) == q.to # "DONE" /\ task[q.task].due = "past"

WrittenFlag(q) == q.to # "DONE" /\ q.isOverdue

WithRowIfFresh(rows, q) ==
    IF task[q.task].status = q.from
    THEN Append(rows, [actor |-> q.actor, from |-> q.from, to |-> q.to])
    ELSE rows

WithRowReread(rows, q) == Append(rows, [actor |-> q.actor, from |-> q.to, to |-> q.to])

WithRow(rows, q) == Append(rows, [actor |-> q.actor, from |-> q.from, to |-> q.to])

\* The transaction: update by id, whatever the row holds by now, with the
\* isOverdue that was read; and the log row.
CommitMove(r) ==
    LET q == request[r]
        rows == WithRow(log[q.task], q) IN
    /\ q.pc = "checked"
    /\ task' = [task EXCEPT ![q.task].status = q.to,
                            ![q.task].isOverdue = WrittenFlag(q)]
    /\ log' = [log EXCEPT ![q.task] = rows]
    /\ request' = [request EXCEPT ![r] =
                     [q EXCEPT !.pc = "committed", !.row = Len(rows)]]
    /\ UNCHANGED <<emitted, notices, sweep, faults>>

AfterBroadcastSilent(q) == Idle

AfterBroadcast(q) == IF q.to = "IN_REVIEW" THEN [q EXCEPT !.pc = "review"] ELSE Idle

\* The project is read again, then broadcastActivity runs.
BroadcastMove(r) ==
    LET q == request[r] IN
    /\ q.pc = "committed"
    /\ emitted' = [emitted EXCEPT ![q.task] = Append(@, q.row)]
    /\ request' = [request EXCEPT ![r] = AfterBroadcast(q)]
    /\ UNCHANGED <<task, log, notices, sweep, faults>>

NotifyReview(r) ==
    /\ request[r].pc = "review"
    /\ notices' = [notices EXCEPT !["TASK_MOVED_TO_REVIEW"][request[r].task] = @ + 1]
    /\ request' = [request EXCEPT ![r] = Idle]
    /\ UNCHANGED <<task, log, emitted, sweep, faults>>
-------------------------------------------------------------------------------
\* sweepOverdueTasks.

OverdueEver(t) == task[t].due # "none" /\ task[t].status # "DONE"

Overdue(t) == task[t].due = "past" /\ task[t].status # "DONE"

UnflaggedOrNot == {t \in DOMAIN task : Overdue(t)}

UnflaggedAndNew ==
    {t \in DOMAIN task :
        Overdue(t) /\ ~task[t].isOverdue /\ notices["TASK_OVERDUE"][t] = 0}

Unflagged == {t \in DOMAIN task : Overdue(t) /\ ~task[t].isOverdue}

\* findMany; a sweep that finds nothing returns and is a stuttering step.
SweepRead(s) ==
    /\ sweep[s] = NoSweep
    /\ Unflagged # {}
    /\ sweep' = [sweep EXCEPT ![s] = [pc |-> "found", todo |-> Unflagged]]
    /\ UNCHANGED <<task, log, emitted, notices, request, faults>>

AssignedOrNot(S) == S

AssignedToDeveloper(S) ==
    {t \in S : task[t].assignee # NoUser /\ RoleOf[task[t].assignee] = "DEVELOPER"}

Assigned(S) == {t \in S : task[t].assignee # NoUser}

\* updateMany selects by id only; the loop then skips unassigned tasks.
SweepFlag(s) ==
    /\ sweep[s].pc = "found"
    /\ task' = [t \in DOMAIN task |->
                  [task[t] EXCEPT !.isOverdue = @ \/ t \in sweep[s].todo]]
    /\ sweep' = [sweep EXCEPT ![s] =
                   IF Assigned(sweep[s].todo) = {} THEN NoSweep
                   ELSE [pc |-> "flagged", todo |-> Assigned(sweep[s].todo)]]
    /\ UNCHANGED <<log, emitted, notices, request, faults>>

\* One turn of the loop; findMany has no orderBy, so the order is any.
SweepNotify(s, t) ==
    /\ sweep[s].pc = "flagged"
    /\ t \in sweep[s].todo
    /\ notices' = [notices EXCEPT !["TASK_OVERDUE"][t] = @ + 1]
    /\ sweep' = [sweep EXCEPT ![s] =
                   IF sweep[s].todo = {t} THEN NoSweep
                   ELSE [pc |-> "flagged", todo |-> sweep[s].todo \ {t}]]
    /\ UNCHANGED <<task, log, emitted, request, faults>>
-------------------------------------------------------------------------------
\* Time and faults.

DueDatePasses(t) ==
    /\ t \in DOMAIN task
    /\ task[t].due = "future"
    /\ task' = [task EXCEPT ![t].due = "past"]
    /\ UNCHANGED <<log, emitted, notices, request, sweep, faults>>

Fault == faults < MaxFaults /\ faults' = faults + 1

\* An await rejects: asyncHandler answers with an error and the rest of the
\* handler never runs.
RequestFails(r) ==
    /\ Fault
    /\ request[r] # Idle
    /\ request' = [request EXCEPT ![r] = Idle]
    /\ UNCHANGED <<task, log, emitted, notices, sweep>>

\* The same for the job, whose caller catches and logs the error.
SweepFails(s) ==
    /\ Fault
    /\ sweep[s] # NoSweep
    /\ sweep' = [sweep EXCEPT ![s] = NoSweep]
    /\ UNCHANGED <<task, log, emitted, notices, request>>

\* The process dies and is started again: the tables stay, the handlers do not.
Crash ==
    /\ Fault
    /\ request' = [r \in Requests |-> Idle]
    /\ sweep' = [s \in Sweeps |-> NoSweep]
    /\ UNCHANGED <<task, log, emitted, notices>>
-------------------------------------------------------------------------------
RequestStep(r) ==
    \/ NotifyAssigned(r)
    \/ CommitMove(r)
    \/ BroadcastMove(r)
    \/ NotifyReview(r)

SweepStep(s) ==
    \/ SweepRead(s)
    \/ SweepFlag(s)
    \/ \E t \in Tasks : SweepNotify(s, t)

Next ==
    \/ \E r \in Requests :
        \/ \E t \in Tasks, p \in Projects, a \in Users \cup {NoUser},
              d \in {"none", "future", "past"} : InsertTask(r, t, p, a, d)
        \/ \E u \in Users, t \in Tasks, to \in Statuses : ReadTask(r, u, t, to)
        \/ RequestStep(r)
        \/ RequestFails(r)
    \/ \E s \in Sweeps : SweepStep(s) \/ SweepFails(s)
    \/ \E t \in Tasks : DueDatePasses(t)
    \/ Crash

Spec == Init /\ [][Next]_vars

\* Cron fires again and again for as long as the process runs, and the database
\* answers a run that was started.  Nothing is assumed about users and requests.
FairSpec == Spec /\ \A s \in Sweeps : WF_vars(SweepStep(s))
-------------------------------------------------------------------------------
\* Properties.

\* Every table row and every local variable has its type, and what a handler
\* holds refers to rows that exist: the foreign keys behind the code's `!`s.
TypeOK ==
    /\ DOMAIN task \subseteq Tasks
    /\ task \in [DOMAIN task -> TaskRow]
    /\ log \in [Tasks -> Seq(LogRow)]
    /\ emitted \in [Tasks -> Seq(Nat)]
    /\ notices \in [Kinds -> [Tasks -> Nat]]
    /\ request \in [Requests -> {Idle} \cup MoveReq \cup CreateReq]
    /\ sweep \in [Sweeps -> [pc : {"idle", "found", "flagged"}, todo : SUBSET Tasks]]
    /\ faults \in Nat
    /\ \A r \in Requests : request[r] # Idle => request[r].task \in DOMAIN task
    /\ \A s \in Sweeps :
        /\ sweep[s].todo \subseteq DOMAIN task
        /\ sweep[s].pc = "flagged" => \A t \in sweep[s].todo : task[t].assignee # NoUser

LastStatus(t) == IF log[t] = <<>> THEN "TODO" ELSE log[t][Len(log[t])].to

\* The task's status is the one its newest log row leads to, whichever requests
\* race and whatever fails: the two are written by one transaction.
StatusIsLastLogged ==
    \A t \in Tasks :
        IF t \in DOMAIN task THEN task[t].status = LastStatus(t) ELSE log[t] = <<>>

\* Every row of the history is a transition of the board, made by an admin, by
\* the project's own PM or by the developer the task is assigned to, although
\* the rights are checked before the row is written.
HistoryIsLegal ==
    \A t \in DOMAIN task : \A i \in DOMAIN log[t] :
        LET row == log[t][i] IN
        /\ <<row.from, row.to>> \in VALID_TRANSITIONS
        /\ \/ RoleOf[row.actor] = "ADMIN"
           \/ RoleOf[row.actor] = "PM" /\ row.actor = PmOf[task[t].project]
           \/ RoleOf[row.actor] = "DEVELOPER" /\ row.actor = task[t].assignee

\* The requests that still have to act for task t.
Waiting(t, pcs) == {r \in Requests : request[r].pc \in pcs /\ request[r].task = t}

\* A log row is broadcast at most once, and unless a handler was cut short every
\* row is broadcast or its handler is still about to.
BroadcastsAccountForRows ==
    \A t \in Tasks :
        LET pending == Cardinality(Waiting(t, {"committed"})) IN
        /\ \A i, j \in DOMAIN emitted[t] : emitted[t][i] = emitted[t][j] => i = j
        /\ \A i \in DOMAIN emitted[t] : emitted[t][i] \in DOMAIN log[t]
        /\ faults = 0 => Len(emitted[t]) + pending = Len(log[t])

\* A task's assignee gets at most one notification of the assignment and the PM at
\* most one for each move into review, and exactly one unless a handler was cut
\* short after its insert or commit (createTask and updateTaskStatus notify last).
NoticesAccountForEvents ==
    \A t \in Tasks :
        LET assigned == IF t \in DOMAIN task /\ task[t].assignee # NoUser THEN 1 ELSE 0
            reviews == Cardinality({i \in DOMAIN log[t] : log[t][i].to = "IN_REVIEW"})
            due == [TASK_ASSIGNED |-> assigned, TASK_MOVED_TO_REVIEW |-> reviews]
            pending ==
                [TASK_ASSIGNED |-> Cardinality(Waiting(t, {"created"})),
                 TASK_MOVED_TO_REVIEW |->
                    Cardinality({r \in Waiting(t, {"committed", "review"}) :
                                   request[r].to = "IN_REVIEW"})]
        IN  \A k \in DOMAIN due :
                /\ notices[k][t] + pending[k] <= due[k]
                /\ faults = 0 => notices[k][t] + pending[k] = due[k]

\* The flag is never raised, and the assignee never warned, about a task whose
\* due date has not passed, however late a stale flag or a stale list is used.
OverdueIsReal ==
    \A t \in DOMAIN task :
        \/ task[t].isOverdue
        \/ notices["TASK_OVERDUE"][t] > 0
        \/ \E s \in Sweeps : t \in sweep[s].todo
        => task[t].due = "past"

\* Unless the job was cut short, a flagged task's assignee has been told or is
\* still on the list of the sweep that flagged it, even when requests write
\* the flag back from what they read.
FlaggedIsNoticed ==
    \A t \in DOMAIN task :
        task[t].isOverdue /\ task[t].assignee # NoUser /\ faults = 0 =>
            \/ notices["TASK_OVERDUE"][t] > 0
            \/ \E s \in Sweeps : sweep[s].pc = "flagged" /\ t \in sweep[s].todo

\* A sweep repeats its warning only for a task whose flag some move has reset in
\* between, so the warnings are bounded by the sweeps and the moves.
OverdueNoticesBounded ==
    \A t \in Tasks :
        notices["TASK_OVERDUE"][t] <= Cardinality(Sweeps) * (1 + Len(log[t]))

SingleFlight == \A q, r \in Requests : q = r

\* The abstract board: with one request at a time its strict form, with more
\* than one only the weak form.
B == INSTANCE Board WITH Strict <- SingleFlight,
                         status <- [t \in DOMAIN task |-> task[t].status]

\* Every behaviour of the two handlers, the job and the faults is a behaviour of
\* the board.
ImplementsBoard == B!Spec

\* Whatever stale flags were written back, once moves, due dates and faults have
\* ended the periodic sweep leaves every overdue task flagged.
OverdueHeals ==
    <>[](\A t \in Tasks : t \in DOMAIN task /\ Overdue(t) => task[t].isOverdue)

\* The assignee of an overdue task is eventually warned, unless the task is
\* finished first or a fault cut a sweep short.
OverdueIsNoticed ==
    \A t \in Tasks :
        LET late == t \in DOMAIN task /\ Overdue(t) /\ task[t].assignee # NoUser IN
        late ~> (notices["TASK_OVERDUE"][t] > 0 \/ ~late \/ faults > 0)
-------------------------------------------------------------------------------
\* What the repository's text says and the code does not do.

\* README: the log never desyncs from the task's real history, so each row
\* starts where the one before it ended.  Two requests that read the same
\* status both pass the transition check.
LogChains ==
    \A t \in Tasks : \A i \in 1 .. Len(log[t]) - 1 :
        log[t][i + 1].from = log[t][i].to

\* README: the sweep sets isOverdue where status != DONE.  The code updates the
\* ids it found earlier, finished or not by now.
FlagsOnlyUnfinished ==
    [][\A t \in DOMAIN task :
         ~task[t].isOverdue /\ task'[t].isOverdue => task[t].status # "DONE"]_vars
=============================================================================
