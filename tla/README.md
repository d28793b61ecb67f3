# Velozity in TLA+

Velozity is an agency's project tracker: an Express backend over PostgreSQL, a
Socket.io push layer in the same process, a cron job, and a React client. This
directory holds TLA+ modules of its stateful parts, the TLC configurations that
check them on small instances, and proofs checked by TLAPS.

Paths below are relative to the repository; `task.service.ts:126` is
`backend/src/services/task.service.ts`, line 126, and so on.

## 1. The system

| component | state | operations | talks to |
|---|---|---|---|
| Task service (`task.service.ts`, `notification.service.ts`) | tables Task, ActivityLog, Notification | `createTask`, `updateTaskStatus`, `listTasks` | database; `broadcastActivity`, `emitNotificationToUser` of the real-time layer |
| Overdue job (`overdueJob.ts`) | `Task.isOverdue`, Notification | `sweepOverdueTasks`, every 5 minutes and at boot | database; real-time layer |
| Projects and rights (`project.service.ts`, `auth.ts`, parts of the other services) | table Project | `createProject`, `listProjects`, `getProjectOrThrow`; the checks of the task service, the feed and the sockets | database |
| Real-time layer (`sockets/index.ts`) | rooms of each socket, `onlineUsers`, both in memory only | connect, `project:join`, `project:leave`, disconnect, `broadcast...` | clients; database for the room check |
| Activity feed (`activity.service.ts`, `ActivityFeed.tsx`) | ActivityLog; the list on the page | `getFeed`, fetch, push, join and leave of the room | REST and socket |
| Session (`auth.service.ts`, `jwt.ts`, `client.ts`, `AuthContext.tsx`, `SocketContext.tsx`) | access token in memory, refresh cookie, user of the page, the page's socket | login, silent refresh, retry after a 401, logout | REST and socket |
| Notification bell (`notification.routes.ts`, `NotificationBell.tsx`) | Notification.isRead; the list in the bell | fetch, push, mark one, mark all | REST and socket |
| Task list (`TaskList.tsx`, `ProjectDetail.tsx`, `DeveloperDashboard.tsx`) | the list on the page, the filter in the URL, the form | load, filter, move, create | REST |
| Dashboards (`dashboard.service.ts`, dashboard pages) | none on the server; the number of users online on the admin's page | aggregate queries; live presence count | REST and socket |
| Seed and migrations (`seed.ts`, `schema.prisma`) | every table | wipe and fill, by hand, on a system that may be serving | database |
| Meta routes, validation, page shell | none | | |

What makes this system hard is that every handler is an `async` function of one
process. Between two awaits nothing else runs; at every await anything may: other
requests, the cron job, socket messages, a disconnect, a crash. The database
gives atomicity to one statement or one `$transaction`, and no handler takes a
lock, compares a version or repeats a condition in its `where` clause. So what a
handler read before an await may be stale when it uses it:

- two status updates read the same status and both pass the transition check;
- a status update writes back the `isOverdue` it read, over the job's;
- the job flags by id what it found earlier, although it may be finished by now;
- a room join checks a right, waits, and joins, while a leave or a disconnect
  is handled in between;
- after a commit the handler still has to broadcast and notify: an error or a
  crash in between loses both for good, and a retry is refused because the task
  has already moved.

The client has the same trouble with answers: no request is numbered or cancelled,
so an answer is set whenever it comes, after a later one, a push, or a change of the
page it was asked for.

What has to be true, component by component:

- *Task service*: the status is the one the log ends with; only legal moves by
  entitled users are logged; each row is broadcast once, each assignment and each
  review announced once, unless a fault cut a handler short.
- *Overdue job*: no false alarm; no flag without its notice; flags lost to stale
  writes come back.
- *Rights*: the checks spelt out at seven places agree (`getFeed` with a project has
  none), and what is pushed is what the feeds return.
- *Real-time layer*: rooms hold only entitled sockets, and follow the page unless a
  leave overtakes its join; presence is exact.
- *Feed and bell*: a page that loses nothing misses nothing, but for what happens
  between its fetch and its first push; nothing unread is shown as read; both are
  one fetched page with announced rows put on top.
- *Session*: the tab is signed in as the owner of the refresh cookie and sends that
  user's token; an expired token does not show; every request ends; the page's
  socket comes back as long as the token it was made with lives.
- *Task list*: the page shows the view its URL names, never loses its own changes,
  offers only moves the server makes, and stops loading.
- *Admin dashboard*: the number of users online is the server's.
- *Seed*: it can be repeated whatever was left, and a run that ends leaves its sample
  and nothing older.

`PROJECT.json` lists each hazard at its line with the properties that cover it. Where
the code gives way to a hazard (a notice lost to a crash, pushed rows replaced by an
answer), the property says how far that goes, and the hazard's note what is lost.

## 2. The modules

| module | models | composes |
|---|---|---|
| `Workflow` | the statuses and `VALID_TRANSITIONS` | |
| `Domain` | users and roles | `Workflow` |
| `Board` | abstract: what the task board promises, without requests or faults | `Domain` |
| `TaskService` | `createTask`, `updateTaskStatus`, `sweepOverdueTasks`, due dates, errors, crashes | `Domain`; refines `Board` |
| `Access` | `createProject`, `createTask` and every access check | `Domain` |
| `Sockets` | `sockets/index.ts` and the page's side of a room | `Access` |
| `AdminDashboard` | `AdminDashboard.tsx`: the fetched and the pushed number of users online | `Sockets` |
| `PushedList` | abstract: a list fetched once, then pushed to | |
| `LiveFeed` | `ActivityFeed.tsx`, `getFeed`, paging, lost connections | refines `PushedList` |
| `Session` | `client.ts`, `AuthContext.tsx`, `auth.service.ts`, the socket's token | |
| `NotificationBell` | `NotificationBell.tsx`, `notification.service.ts` | refines `PushedList` |
| `TaskList` | `TaskList.tsx` and `ProjectDetail.tsx` over `listTasks`, `updateTaskStatus`, `createTask` | `Workflow` |
| `Seed` | `seed.ts` over the foreign keys of the schema, beside the application's inserts | `Workflow` |
| `MCTaskService`, `MCSockets`, `MCAdminDashboard` | the instances TLC checks | |
| `TaskService_proofs` | theorems about `TaskService`: types, history, flags, refinement, and its numbers of broadcasts and notifications | `TaskService`, TLAPS |
| `Sockets_proofs` | theorems about `Sockets` and the rights of `Access` | `Sockets`, TLAPS |
| `AdminDashboard_proofs` | theorems about `AdminDashboard` | `AdminDashboard`, `Sockets_proofs` |
| `LiveFeed_proofs`, `Session_proofs`, `NotificationBell_proofs`, `TaskList_proofs` | theorems about the clients | each its module, TLAPS |
| `Seed_proofs` | theorems about `Seed`, for any number of runs and rows of the application | `Seed`, TLAPS |

### TaskService

Tables are `task` (a function on the created tasks), `log` and `notices`;
`emitted` records the calls of `broadcastActivity` as the numbers of the log rows
they were about. `request[r]` and `sweep[s]` are the local variables of a handler
in flight, with `pc` for the await it stands at.

| action | code |
|---|---|
| `InsertTask`, `NotifyAssigned` | `createTask` up to the insert; the assignee's notification |
| `ReadTask` | `updateTaskStatus` 102-122: `findUnique`, both checks |
| `CommitMove` | the `$transaction`, 126-142: update by id with the `isOverdue` that was read, and the log row |
| `BroadcastMove`, `NotifyReview` | 144-160; 162-171 |
| `SweepRead`, `SweepFlag`, `SweepNotify` | `findMany`; `updateMany`; one turn of the loop |
| `RequestFails`, `SweepFails`, `Crash` | an await rejects (`asyncHandler`, the `catch` of the schedule); the process is restarted |
| `DueDatePasses` | time |

An await with nothing shared before the next one is no step of its own. A request
that is refused changes nothing and is no action. Users, roles, `pmId` and a
task's project and assignee are constants or never written again, as no endpoint
edits or deletes anything; `Access` has the projects as state.

### Access and Sockets

`Access` writes each check down separately, the way its code does: `GetProject`
(`getProjectOrThrow`), `CanAccess` (`userCanAccessProject`), `Scoped`
(`scopedWhere`), `ListProjects`, `MayMove`, `DashboardTasks`, `DashboardProjects` and
`Feed`. `Feed(u, NoProject)` is the user's own feed, by role; `Feed(u, p)` is `getFeed`
with a `projectId`, which filters by that project and asks nothing about the user, nor
does its route. So a project's page shows the project's log to any user who is signed
in, although `GetProject` refuses the project and `CanAccess` its room. State changes by
`CreateProject` and `CreateTask`, behind their routes (`PostProject`, `PostTask`).

`Sockets` has, on the server's side, `conn` (who a socket belongs to), `rooms`,
`onlineUsers`, `shown` (the last `presence:count` emitted to a socket) and
`checks` (join handlers at their await); on the client's side `open`, `viewing`
and `inbox`, the room messages in flight, in order. `HandleJoin`, `CheckAccess`
and `FinishJoin` are the three parts of `project:join`: the message is taken, the
database answers, the handler goes on. An admin's check awaits no query, but its
continuation too runs after handlers that are already due, so it is not special.
`Disconnect` covers a close the server sees and a ping timeout; until then a lost
client (`LoseClient`) is a ghost the server still counts. `Crash` includes the
case that the check of a join rejects, which nothing catches. A reconnect of a
page that is already mounted sends no join (`Connect` with `mounting` false).
From socket.io itself (external) the model takes that `join` is a no-op on a
socket that has been cleaned up, that rooms are left before `disconnect` is
raised, and that `emit` and `join` of the in-memory adapter are synchronous.
`strayed` is history: projects whose leave was handled while their join waited, which
is the one way a socket stays in the room of a page it has left (`StraysByOvertaking`).

### AdminDashboard

One of the sockets of `Sockets` is an admin's tab, which shows the dashboard, another
page, or that of a project among `TabProjects`. `SocketStep` is any other step of
`Sockets`, with the `presence:count` it emits put on its way to the tab (`pushes`);
`Mount`, `AnswerStats`, `StatsArrive` and `StatsFail` are the page's fetch, and
`HandlePresence` its handler, which drops a count as long as there are no stats
(`WithOnline`). `crossed` is history: the answer shown was read before a push that
was handled before it.

### PushedList

The list is the newest page of the rows at one moment, fetched once, and every other
change of it is one announced row put on top, cut at a length. `LiveFeed` and
`NotificationBell` both implement it, with a push for each commit and for each
notice: a fetch that answers late still brings one page as it was at one moment.

### LiveFeed

One client of the feed, a page on a project, a page with the feed of a role, or a
program that pages back through the route; `Access` says which rows its scope has
and `Sockets` who hears of them, so here a row only carries its time, whether the
role's room hears of it besides the project's (`own`), and where the page stood
when it was committed (`stage`, history).

| action | code |
|---|---|
| `Commit`, `BroadcastRow`, `BroadcastFails` | the transaction; `broadcastActivity`; a failed await in between |
| `ReadFeed`, `FeedArrives`, `FeedFails` | the query of `getFeed`; `.then(setEvents)`; a rejected fetch |
| `HandleJoin`, `HandleEvent` | `project:join`; the handler of `activity:new` |
| `Lose`, `Connect` | a connection ends; socket.io connects, for the first time or again |
| `NextPage` | one page with `before` |

The answer of the query is any listing of the newest rows (`Answers`): rows of one time
come in any order, and at the end of the page any of them may be the ones left out. A
row committed later may have an earlier time, as times are taken before the commit.

### Session

`token`, `user` and `loading` are the tab's; `cookie` is the browser's and also
changed by other tabs. A request of `client.ts` is a record that says where it
stands: *sent*, *answered*, *refreshing*, *refreshed*, with the token and the
cookie attached when it left. `tries` is 1 for a first attempt and 2 for the retry,
and 0 for the `/me` of a starting page, which begins with the refresh. Tokens carry
the number of expiries at their signing, so they expire in the order they were
signed in. Setting the token and the user is one step (no await in between), the
effect that makes the socket (`Render`) a later one. A login with wrong credentials
is a 401 like any other and goes through refresh and retry. `link` is the socket's
connection: `Handshake` is the middleware of `io.use`, and `Reconnect` presents the
token of the socket's creation again, which is refused once it has expired.

### NotificationBell

Rows of Notification, the pushes under way, the fetch, and mark requests that are
*sent*, then *answered*; the page changes its list when the answer comes, by what it
lists by then. `MarkedElsewhere` is another tab. `early` and `late` are history:
marked by a read-all before the push was handled, inserted between a read-all and
its answer.

### TaskList

`status` is the Task table and `clock` numbers its changes, so a list can say when it
was read. `loads` has a slot for each load under way, which knows which of the others were
begun before it (`before`) and whether one begun later has been answered (`passed`);
each is *asked*, then *answered*, then set or rejected, in any order. A move is *sent*,
*checked* and *moved*, or *refused*, at the server, then *loading*; `MoveEnds` sets the
answer of its load and runs `onTaskUpdated` at once, as no await is between them.
`Remount` is the new `key`: React drops what the old instance sets, so of its loads
only those a move waits for go on (`Unmounted`), and its moves no longer own the
page (`mine`). `filter` of a move is the URL's at the click, as `load` is the one of
that render.

### Seed

A row is `<<table, name, run>>` with the rows it refers to; `Phases` is the script, as
the statements sent together: the six wipes, the users, clients and projects, the three
turns of `seedProjectTasks` (`SampleTasks`), each create awaited, and the notifications.
`Allowed`, `Gone` and `Executed` are what PostgreSQL makes of a statement under the
foreign keys. Between two statements the application
may insert a project, a task, a move with its log row, or a notification, for any
user who still exists. `meanwhile` is history.

## 3. The runs

| run | instance | question |
|---|---|---|
| `task_races` | 2 requests, 1 sweep, 1 task, PM and developer, 2 log rows, 1 fault | races: status and log agree; broadcasts, assignment and review notices are exactly once, with a fault at most once |
| `task_serial` | 1 request, 2 sweeps, 1 task, a developer, the project's PM and another, 3 log rows, 1 fault, fairness | legal moves by entitled users, no false alarm, flags are backed by notices, notices are bounded, the strict board, flags converge and assignees are told |
| `room_rights` | 2 sockets, one of them the admin's dashboard, 3 users, 1 project, 1 task, 1 join handler, 1 message, 2 pushes under way | rooms, pushes, fetches and moves follow the same rights; presence map and the number the dashboard shows are exact |
| `live_feed` | 3 rows, pages of 2, a list of 4, every kind of loss | what a page may miss; what paging covers; a pushed list |
| `session` | 2 requests, 2 users, 1 expiry, another tab, fairness | whose token, signed in or not, requests end, the socket comes back |
| `bell` | 2 notifications, answers of 1, 2 mark requests, every kind of loss | nothing hidden, nothing unread that was read, nothing missed; a pushed list |
| `task_list` | 1 task, 2 filters, 1 move, 1 form, 2 loads, 2 changes of the table, fairness | the view of the URL, own changes, refusals, loading |
| `seed` | 2 runs, 2 rows of the application, 21 statements | repeatable, whole when it ends |
| `log_chain_race` | 2 requests, no faults | violated: the log chains |
| `sweep_flags_done` | as `log_chain_race` | violated: a finished task is never flagged |
| `feed_misses` | 2 rows, pages of 1, only connections are lost | violated: a page that reconnects shows what it missed |
| `room_strays` | 1 socket, PM and developer, 1 join handler, 1 message, 2 projects, 2 tasks | violated: a socket is only in the room of the page it shows |

**Bounds.** `MaxLog` is the number of log rows after which a task is moved no
more: two are a race, and three are a move into review and out again. `MaxFaults` is
the number of errors and crashes together; each property with faults concerns one
handler cut short. Two requests are the smallest race, and every property speaks of
pairs of handlers or of one handler and the tables, of one task at a time. A stale
flag is written over a sweep's by one request, and two sweeps overlap. That larger
instances add nothing is not left to these arguments where a property is proved:
section 4 covers every safety property of the passing runs, for every size of every
set and bound.
An admin may do what the project's PM may, so `task_serial` has none.
A room concerns one socket, one project and, for a developer, one task at a time, so
one of each besides the admin's tab is what `room_rights` has; its second socket is
any user's, the admin's second tab included, and presence concerns two sockets of one
user or of two. A join handler that waits only ever adds its own room, so two of them
do not affect each other, and a leave overtaking a join needs one handler and one
message. The tab itself goes to no project's page there (`TabProjects`). Two pushes
are one before and one after an answer. The real sizes of a page (20 or 50 rows) only matter for being
exceeded, which 2 and 4 (or 1) show; three rows are one before the fetch, one during
it and one after, or two of one time at the end of a page. A loss may happen any
number of times; `MayLose` says which kinds do. Two requests of a tab are one whose
refresh is late and the logout or login it crosses; one expiry is what refresh and
retry are for, and the properties that need it say so. Two loads are the smallest
number that can answer out of order, and a move's own load is one of them; one task
in one of two views has every change a list can show, and two changes of the table
are the page's own and another user's. Two runs of the seed are a half-finished one
and its repetition; one application row opens each gap between two statements, and
two are a row with another hanging on it.

**Deadlock** is not checked where counters are bounded: with all bounds used up
and nothing in flight nothing is left to do, and the real server may be idle too.

**Fairness** is assumed of the job only (`FairSpec`): node-cron starts a run every
five minutes as long as the process lives, and a query that was sent is answered
or rejected. Users owe the system nothing, so there is no fairness for requests;
`OverdueHeals` says "once moves have ended" because `MaxLog` ends them, and
`OverdueIsNoticed` excuses a fault, because after it the persisted flag hides the
task from every later run (this is a real gap of the code, and why
`FlaggedIsNoticed` has the same premise). `Session` assumes that a fetch settles and
that the code waiting for it runs (`Fairness`), and `RequestEnds` that the user
stops reloading the page, which begins the first request again. `TaskList` assumes
that some load under way goes on (`WF` of `LoadStep`), not which one, nor anything
of users or moves.

**Conditions in the client properties.** What a page may miss is part of the
statement. `MissesOnlyBetween` allows the rows committed between the reading of the
answer and the moment the page shows it and is in its rooms: the answer replaces
what was pushed, and the join may come after the read. `NothingHidden` and
`ReadIsSeen` allow the notifications a read-all overtook; `TokenIsUsers` allows
another tab, and a refresh that a login or logout crossed. `ListIsOfUrl` allows a load
overtaken by the answer to a later one, and `DashboardShowsOnline` stats overtaken by
a push, as neither page orders its answers; `SeedIsRepeatable` allows a project created
while the script runs, which keeps its client from being deleted. Each allowance is needed: without it TLC
shows the order of steps. They are the known weak spots of this
client, and the properties say there are no others.

**Disagreements with the text.** Each of the four violated properties quotes a
sentence of the README or a comment; `findings` in `PROJECT.json` has them. In
short: the log and the status never disagree, but the log need not chain, because
the transition is checked on a copy read earlier; the job may flag a task that
was finished between its two statements, and the flag then stays, as DONE is
final; a page that reconnects neither fetches what it missed nor joins its
project's room again, although `getFeed` is meant for that; and a leave handled
while the join before it waits leaves the socket in the room of a page that is no
longer viewed.

A fifth disagreement has no run, as one query shows it and no order of steps matters:
the README (lines 71-72) says that rights are enforced on every read and write, but
`getFeed` with a `projectId` (`activity.service.ts:13-14`) and its route
(`activity.routes.ts:20-27`) only ask for a signed-in user. `Feed` is modelled that way,
so `ChecksAgree` covers the own feed only, and `LiveMatchesFeed` says what a project's
feed returns, not who may ask for it.

**Mutants.** Every property of a passing run is tested by a variant of one mapped
definition, written before it and named in the module's header. TLC finds each
property violated under the run's own configuration when the variant is put in.

## 4. The proofs

Every safety property of a passing run, and each refinement, is proved, for all values
of the constants that satisfy the modules' assumptions:

- `DomainAssumption`: each user has one of the three roles, and "no user" is none;
- `TaskServiceAssumption`: each project has a PM; finitely many requests and sweeps are
  in flight, as in any process, without which handlers could not be counted;
- `SocketsAssumption`, `DashboardAssumption`: "no project" is none; the admin's tab is
  one of the sockets;
- `SessionAssumption`, `TaskListAssumption`: a page can have a request, a load, under
  way; filters are statuses or "all";
- `BellAssumption`, `LiveFeedAssumption`: pages and lists are not of length 0;
- `SeedAssumption`: the application writes finitely many rows, with names that are not
  those of the sample, as every row of the database has a new id.

The bounds (`MaxLog`, `MaxRows` and so on) are any natural numbers, and no number of
users, projects, tasks, sockets, loads, moves or marks is fixed. Before it was proved
each inductive invariant was checked by TLC on the instance of its run.

**`TaskService_proofs`**

| theorem | property | argument |
|---|---|---|
| `TypeCorrect` | `TypeOK` | inductive by itself: the references from handlers to rows are part of it |
| `StatusMatchesLog`, `HistoryStaysLegal` | `StatusIsLastLogged`, `HistoryIsLegal` | `HistoryInv` adds `CheckedIsLegal`: what a handler holds at its await is still a legal transition by an entitled user. It does not say that `from` is still the task's status, which is false under races |
| `OverdueStaysReal`, `FlaggedStaysNoticed` | `OverdueIsReal`, `FlaggedIsNoticed` | `FlagInv` adds `FlagReadIsBacked`: a flag a request has read and may write back is itself backed by a notice or by a sweep on its way. Without it a stale write could set a flag nobody accounts for |
| `TaskServiceImplementsBoard` | `ImplementsBoard` | `BoardInv` adds `RowsAreOwned` (the row a handler will broadcast exists, was not broadcast and belongs to no other handler) and `AloneIsFresh` (with one request slot, what was read is still so); each step is then a step of the board or a stutter |

The numbers, in the second part of the module, need the cardinalities of sets of
handlers, which one step changes in one member (`CountOfOne`).

| theorem | property | argument |
|---|---|---|
| `BroadcastsAlwaysAccount` | `BroadcastsAccountForRows` | `BroadcastInv` with `BoardInv`: rows and broadcasts can only be counted against each other because no two handlers own one row |
| `NoticesAlwaysAccount` | `NoticesAccountForEvents` | `NoticeInv`: sent and still owed together are at most what is due, and exactly that without a fault; `ReviewsAreReviews`: a handler at its review notice is one that moved a task into review |
| `OverdueNoticesAlwaysBounded` | `OverdueNoticesBounded` | `WarnInv` bounds the warnings sent and those that may still come (`ToCome`): while the flag is up only sweeps that have the task on their list can warn; a move may put it down, and gives every sweep one more |

**`Sockets_proofs`**

| theorem | property | argument |
|---|---|---|
| `TypeCorrect` | `TypeOK` | with `PresenceFinite`: only finitely many users are ever present, so their number is one |
| `ChecksAlwaysAgree` | `ChecksAgree` | from the definitions of `Access` and the types, case by case over the roles; the own feed is among the checks, the feed of a project has none |
| `RoomsAlwaysEntitled` | `RoomsAreEntitled` | `RoomInv`: besides the rooms themselves, a "yes" that a join handler still holds is still right. No step takes a right away (`Grows`, `RightsGrow`), which is what makes the await harmless: code that reassigned or deleted would have to check again |
| `LiveAlwaysMatchesFeed` | `LiveMatchesFeed` | from `RoomInv`, which also says that the two rooms of its user are joined: a socket hears a broadcast in the room of its role or of the task's project only (`HeardRooms`) |
| `PresenceAlwaysExact` | `PresenceIsExact` | inductive with the types |
| `OnlyOvertakingStrays` | (`StraysByOvertaking`) | that what `room_strays` finds has no other cause. `PageInv`: the messages under way are a join and a leave in turn, the last about the page shown (`PageMessages`), and a room of another page, joined or asked for, has its leave among them (`PageOK`), unless it was handled before the join went on |

**`AdminDashboard_proofs`**

| theorem | property | argument |
|---|---|---|
| `DashboardAlwaysShowsOnline` | `DashboardShowsOnline` | `DashboardInv`: the last count emitted to the tab is the number online now, and so is the last one still on its way (`LastPush`); answer and page agree with it once none is, unless one crossed the answer (`PageOfLast`) |
| `PresenceExactBesideDashboard` | `PresenceIsExact` | from `PresenceAlwaysExact`, as every step of the dashboard is a step of `Sockets` or a stutter |

**`Session_proofs`** (`SessionInv`)

| theorem | property | argument |
|---|---|---|
| `TypeCorrect` | `TypeOK` | part of `SessionInv` |
| `TokenAlwaysUsers` | `TokenIsUsers` | `Owned` says of each refresh under way whose token it can bring (`RefreshesAreUsers`), and of a starting page whose session its `/me` will show (`BootWasCookie`) |
| `SessionAlwaysFollowsCookie` | `SessionFollowsCookie` | `Followed`, with the same for a starting page that loses nothing (`BootIsCookie`) |
| `ExpiryAlwaysHidden` | `ExpiryIsHidden` | `Aged`: a token refused at the first try is one expiry, at the second two; `Hidden`: a page's request has the cookie to refresh with |
| `SocketAlwaysComesBack` | `SocketComesBack` | `Links`, and `Boots`: who is shown has a token |

**`NotificationBell_proofs`** (`BellInv`)

| theorem | property | argument |
|---|---|---|
| `TypeCorrect` | `TypeOK` | part of `BellInv` |
| `NothingEverHidden` | `NothingHidden` | `ReadIsRead`: the same of an answer on its way and of the marks that were served |
| `ReadAlwaysSeen` | `ReadIsSeen` | `Seen`: what was marked but is not yet listed so has an answer on its way that will mark it |
| `NothingEverMissed` | `NothingMissed` | `Settled`: a notification is in one place, and once, of handler, wire and list; `Fetched`: the answer is the newest page and stays listed |
| `PushedListImplemented` | `ImplementsPushedList` | `Fits`: what can still be pushed fits on the list, by counting, so it is never cut |

**`TaskList_proofs`** (`ListInv`)

| theorem | property | argument |
|---|---|---|
| `TypeCorrect` | `TypeOK` | `LoadsInv` and `WaitsInv`: each move that waits has one load |
| `ListAlwaysOfUrl` | `ListIsOfUrl` | `UrlInv`: the view of the URL is shown, or a load is on its way that will show it (`OnItsWay`): no later one has been answered, and every other load of the list was begun before it |
| `OwnChangesAlwaysShown` | `OwnChangesShown` | part of `LoadsInv`: an answer that will still be set was read at or after the page's last own change, because the new instance drops the loads of the old one but those moves wait for, and those end in another new instance |
| `RefusalAlwaysMeansStale` | `RefusalMeansStale` | `MovesInv`: a move under way was offered by `NEXT_STATUS` for the status listed, and the two tables agree |

**`LiveFeed_proofs`** (`LiveInv`)

| theorem | property | argument |
|---|---|---|
| `TypeCorrect` | `TypeOK` | part of `LiveInv` |
| `MissesAlwaysOnlyBetween` | `MissesOnlyBetween` | `Reached`: a row of a settled page is in its handler, on the wire or on the list; `Fetched`: the answer is one to the rows there were when it was read, and stays listed while there is room |
| `PagesAlwaysCover` | `PagesCover` | `Paged`: the pager has nothing older than its boundary and, without equal times, everything from there on |
| `PushedListImplemented` | `ImplementsPushedList` | an answer stays the newest page of the first rows whatever is committed until it arrives |

**`Seed_proofs`** (`IInv`)

| theorem | property | argument |
|---|---|---|
| `SeedAlwaysRepeatable` | `SeedIsRepeatable` | `WipesAllowed` and `CreatesAllowed`: in any state of the invariant the database allows every statement the script has sent, unless a project was created meanwhile |
| `DoneAlwaysSample` | `DoneIsSample` | `Fresh` for the age of the rows; `MovedReaches` and `UnmovedReaches` for the trails |

`SeedIsRepeatable` speaks of a refusal that has happened, and says nothing of why none
will. `IInv` adds what the database is like while a run is under way:

- `Sound`: an id is of one row, each reference has its row, and a row has the references
  its table needs (`Whole`): a task its project, a log row its task, project and user.
  The schema's keys keep it (`WipeSound`, `AddSound`), and nullable keys are not needed;
- `Control`: the statements waiting are of the phase the script is in;
- `Swept`: the wipe of the projects leaves none, if the application creates none, and then
  no log row either, as it would need one; so nothing keeps a client or a user back. With
  the clients gone no project is left whoever created it, so the wipe of the users leaves
  the database empty (`UserWipeEmpties`), or is refused;
- `Fresh`, from then on: every row is of this run, and is an answered row of the sample or
  one of the application's, which creates no user; and no answered row of the sample is
  missing, so that every reference the next one makes has its row;
- `Trailed`, from then on: a log row is the sample's, back-dated, or a later move's; a task
  was moved, and the last row of its trail leads to its status, or is as it was written;
- `Bounded`: log rows are not later than some number, so that a row written now can be
  later than all of them.

The script is a sequence put together from pieces, so the module begins by unfolding it
into its 19 phases (`PhasesAre`), with each row's place (`SampleRows`) and the facts about
names and references that are read off from there (`SampleNames`, `EarlierRefs`).

Only model-checked:

- `OverdueHeals`, `OverdueIsNoticed`, `RequestEnds`, `LoadingEnds`: liveness, which
  needs fairness and ENABLED.

No module has a RECURSIVE definition.

## 5. Not modelled, and the plan

- *A seeded database under `TaskService`*: its initial state is the migrated, empty
  one. `seed.ts` writes rows that are not products of moves (TODO to IN_REVIEW at
  once, a DONE task whose two rows do not chain), so properties of the history hold
  for the rows the application adds; that the newest row leads to the status holds
  for the seeded ones too (`DoneIsSample`). `isOverdue` of the sample, and two seed
  scripts at once, are left out of `Seed`.
- *Priorities, titles, filters other than the status, aggregate queries, request
  validation, error bodies, routing*: no state, or data no property depends on. The
  PM's dashboard and the names on a project's page are fetched once and shown.
- *Password hashing, JWT signing, TLS, CORS*: out of scope of a state model.
- *Deletion*: no code of the application deletes; the seed script does, in `Seed`.
- *A page whose project changes without a remount*: no link leads from one project
  to another.

The plan is carried out: every component with state of its own has its module, its run
and, for its safety properties, its proofs. What would come next, in this order:

1. `TaskService` started from the state a seeding leaves (`DoneIsSample`) instead of the
   empty tables, with `StatusIsLastLogged` from there on.
2. The PM's dashboard, should it ever follow its project's events as the admin's does.
