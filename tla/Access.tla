-------------------------------- MODULE Access --------------------------------
(* Who may see and move what.  The rights are not stored: every service asks  *)
(* the database again with a condition of its own, so the same rule is spelt  *)
(* out in getProjectOrThrow, userCanAccessProject, scopedWhere, listProjects, *)
(* updateTaskStatus, getFeed and the dashboards.  Each is a definition here,  *)
(* over the projects and tasks created so far.  getFeed has the rule for the  *)
(* user's own feed only: a project's feed is given to whoever asks.           *)
(*                                                                            *)
(* CanAccessAnyOwn and FeedOfEither are not used here: each varies the        *)
(* definition after it, the way that code could be wrong.                     *)
EXTENDS Domain

CONSTANTS
    Projects,   \* ids a created project can get
    Tasks,      \* ids a created task can get
    NoProject   \* no project is named: a request without a projectId, or a page
                \* that is not a project's

VARIABLES
    pmId,       \* Project.pmId, by created project
    task        \* the Task table: created task -> its project and assignee

accessVars == <<pmId, task>>
-------------------------------------------------------------------------------
TaskRef == [project : Projects, assignee : Users \cup {NoUser}]

Created == DOMAIN pmId

AccessInit ==
    /\ pmId = [p \in {} |-> NoUser]
    /\ task = [t \in {} |-> NoUser]

\* authorize: the roles a route lets in.
Authorized(u, roles) == RoleOf[u] \in roles

\* listProjects, behind its route.
ListProjects(u) ==
    {p \in Created : /\ Authorized(u, {"ADMIN", "PM"})
                     /\ RoleOf[u] = "PM" => pmId[p] = u}

HasTask(u, p) ==
    \E t \in DOMAIN task : task[t].project = p /\ task[t].assignee = u

\* getProjectOrThrow returns the project.
GetProject(u, p) ==
    /\ p \in Created
    /\ \/ RoleOf[u] = "ADMIN"
       \/ RoleOf[u] = "PM" /\ pmId[p] = u
       \/ RoleOf[u] = "DEVELOPER" /\ HasTask(u, p)

CanAccessAnyOwn(u, p) ==
    \/ RoleOf[u] = "ADMIN"
    \/ p \in Created /\ pmId[p] = u
    \/ HasTask(u, p)

\* userCanAccessProject: an admin is not even asked for an existing project.
CanAccess(u, p) ==
    \/ RoleOf[u] = "ADMIN"
    \/ RoleOf[u] = "PM" /\ p \in Created /\ pmId[p] = u
    \/ RoleOf[u] = "DEVELOPER" /\ HasTask(u, p)

\* scopedWhere without query filters: the tasks the database returns to u.
Scoped(u) ==
    {t \in DOMAIN task :
        /\ RoleOf[u] = "DEVELOPER" => task[t].assignee = u
        /\ RoleOf[u] = "PM" => pmId[task[t].project] = u}

\* listTasks within one project; nothing is returned without the project.
ListTasks(u, p) == {t \in Scoped(u) : GetProject(u, p) /\ task[t].project = p}

\* The access check of updateTaskStatus.
MayMove(u, t) ==
    /\ RoleOf[u] = "DEVELOPER" => task[t].assignee = u
    /\ RoleOf[u] = "PM" => pmId[task[t].project] = u

FeedOfEither(u, p) ==
    {t \in DOMAIN task :
        IF p # NoProject THEN task[t].project = p
        ELSE \/ RoleOf[u] = "ADMIN"
             \/ pmId[task[t].project] = u
             \/ task[t].assignee = u}

\* getFeed, behind a route that only authenticates: the tasks whose log rows u is
\* given.  With a projectId they are all of that project's and u is not looked at;
\* without one they are those of u's own feed.
Feed(u, p) ==
    {t \in DOMAIN task :
        IF p # NoProject THEN task[t].project = p
        ELSE /\ RoleOf[u] = "PM" => pmId[task[t].project] = u
             /\ RoleOf[u] = "DEVELOPER" => task[t].assignee = u}

\* The tasks that count in u's dashboard, of which PM and developer dashboards also
\* list some or all.
DashboardTasks(u) ==
    {t \in DOMAIN task :
        \/ RoleOf[u] = "ADMIN"
        \/ RoleOf[u] = "PM" /\ pmId[task[t].project] = u
        \/ RoleOf[u] = "DEVELOPER" /\ task[t].assignee = u}

\* The projects that count in it, or are listed with their numbers of tasks.
DashboardProjects(u) ==
    {p \in Created : \/ RoleOf[u] = "ADMIN"
                     \/ RoleOf[u] = "PM" /\ pmId[p] = u}
-------------------------------------------------------------------------------
\* createProject: whom the project will belong to.
OwnerFor(u, want) == IF RoleOf[u] = "ADMIN" /\ want # NoUser THEN want ELSE u

\* want is the optional pmId of the request body; any user id is accepted.
CreateProject(u, p, want) ==
    /\ RoleOf[u] = "PM" => want \in {NoUser, u}
    /\ p \notin Created
    /\ pmId' = [x \in Created \cup {p} |-> IF x = p THEN OwnerFor(u, want) ELSE pmId[x]]
    /\ UNCHANGED task

\* createTask; the notification of the assignee is in TaskService.
CreateTask(u, t, p, a) ==
    /\ GetProject(u, p)
    /\ RoleOf[u] # "DEVELOPER"
    /\ RoleOf[u] = "PM" => pmId[p] = u
    /\ t \notin DOMAIN task
    /\ task' = [x \in DOMAIN task \cup {t} |->
                  IF x = t THEN [project |-> p, assignee |-> a] ELSE task[x]]
    /\ UNCHANGED pmId

\* The routes to both are open to admins and PMs.
PostProject(u, p, want) ==
    Authorized(u, {"ADMIN", "PM"}) /\ CreateProject(u, p, want)

PostTask(u, t, p, a) ==
    Authorized(u, {"ADMIN", "PM"}) /\ CreateTask(u, t, p, a)

AccessNext ==
    \E u \in Users, p \in Projects, a \in Users \cup {NoUser} :
        \/ PostProject(u, p, a)
        \/ \E t \in Tasks : PostTask(u, t, p, a)
-------------------------------------------------------------------------------
\* The rules that are spelt out more than once agree: the room check lets a user
\* into exactly the existing projects the page's own fetch returns ("re-run the
\* same access check"), the move check "mirrors scopedWhere", whoever may move a task
\* can open its project and finds the task listed there, the user's own feed is about
\* the tasks the user may list, and a dashboard counts what the lists of projects and
\* tasks show.  The feed of a project is not among them: no rule is spelt out there.
ChecksAgree ==
    \A u \in Users :
        /\ \A p \in Created : GetProject(u, p) <=> CanAccess(u, p)
        /\ \A t \in DOMAIN task :
            /\ MayMove(u, t) <=> t \in Scoped(u)
            /\ MayMove(u, t) <=> t \in ListTasks(u, task[t].project)
        /\ \A p \in ListProjects(u) : GetProject(u, p)
        /\ Feed(u, NoProject) = Scoped(u)
        /\ DashboardTasks(u) = Scoped(u)
        /\ DashboardProjects(u) = ListProjects(u)
=============================================================================
