-------------------------------- MODULE Seed --------------------------------
(* prisma/seed.ts, which empties the tables and writes the sample data, run    *)
(* again and again while the backend serves requests: every statement commits  *)
(* alone, the database applies the foreign keys of the schema, and a statement *)
(* it refuses or a kill ends the script where it is.  A row is known by its    *)
(* table, its name and the run of the script whose users it hangs on, as its   *)
(* id is a new one in every run.  Races of two moves and the rights of the     *)
(* callers are TaskService's and Access's.                                     *)
(* RestrictedToo and TrailOfToday are used by no action: what the schema and   *)
(* the script would be with a plausible mistake.                               *)
EXTENDS Workflow, Integers, FiniteSets, FiniteSetsExt, Sequences

CONSTANTS
    Written,    \* bound: the names of the rows the application writes
    MaxRuns     \* bound: runs of the script

\* The names of the rows of the sample, which stand for new ids in every run.
Names ==
    { "admin", "pm1", "pm2", "dev1", "dev2", "c1", "c2", "p1", "p2",
      "t1", "t2", "t3", "l1", "l2", "l3", "n1", "n2" }

ASSUME SeedAssumption == MaxRuns \in Nat /\ IsFiniteSet(Written) /\ Written \cap Names = {}

VARIABLES
    db,         \* the rows
    script,     \* "none", "running", "done", "refused" or "killed"
    run,        \* the number of the last run
    phase,      \* the phase of the script it is in
    waiting,    \* the statements of that phase that have not been answered
    meanwhile   \* history: the tables the application inserted into since the run began

vars == <<db, script, run, phase, waiting, meanwhile>>
-------------------------------------------------------------------------------
\* The foreign keys by what the delete of the row referred to does; a task's assignee and
\* a notification's task are set to null.
RestrictedToo ==
    { <<"project", "client">>, <<"project", "user">>, <<"activityLog", "user">>,
      <<"activityLog", "task">> }
Restricted == { <<"project", "client">>, <<"project", "user">>, <<"activityLog", "user">> }
Cascaded ==
    { <<"task", "project">>, <<"activityLog", "task">>, <<"activityLog", "project">>,
      <<"notification", "user">> }

Table(id) == id[1]
Rows(table) == {r \in db : Table(r.id) = table}
Ids(table) == {r.id : r \in Rows(table)}

\* id refers to parent, with a key of one of these rules.
Refers(r, p, rules) == p.id \in r.of /\ <<Table(r.id), Table(p.id)>> \in rules

\* The rows that go with the rows of a table; the longest chain is project, task, log.
Orphans(G) == G \cup {r \in db : \E p \in G : Refers(r, p, Cascaded)}
Gone(table) == Orphans(Orphans(Rows(table)))

\* One statement: deleteMany() on a table, or the insert of some rows.
Wipe(table) == [op |-> "wipe", table |-> table, rows |-> {}]
Create(rows) == [op |-> "create", table |-> "", rows |-> rows]

\* The email of a user is unique, the same in every run; every reference has its row.
Allowed(st) ==
    IF st.op = "wipe"
    THEN ~\E r \in db, p \in Gone(st.table) : Refers(r, p, Restricted)
    ELSE \A r \in st.rows :
           /\ \A id \in r.of : \E p \in db : p.id = id
           /\ Table(r.id) = "user" => \A u \in Rows("user") : u.id[2] # r.id[2]

Executed(st) ==
    IF st.op = "create" THEN db \cup st.rows
    ELSE LET gone == {p.id : p \in Gone(st.table)}
         IN {[r EXCEPT !.of = @ \ gone] : r \in {x \in db : x.id \notin gone}}
-------------------------------------------------------------------------------
\* A row of the sample; status is a task's or the one a log row leads to, at a log row's
\* createdAt: days from now, or its place among today's rows.
Row(table, name, of, status, at) ==
    [id |-> <<table, name, run>>, of |-> of, status |-> status, at |-> at]

Ref(table, name) == <<table, name, run>>
User(name) == Create({Row("user", name, {}, "", 0)})
Client(name) == Create({Row("client", name, {}, "", 0)})
Project(name, client, pm) ==
    Create({Row("project", name, {Ref("client", client), Ref("user", pm)}, "", 0)})
Notification(name, user) == Row("notification", name, {Ref("user", user)}, "", 0)

TrailRow(name, t, project, status, at) ==
    Row("activityLog", name,
        {Ref("task", t.name), Ref("project", project), Ref("user", t.dev)}, status, at)

\* Rows written later have later times, and all of today later than the back-dated ones.
Now == 1 + Max({0} \cup {r.at : r \in db})

TrailOfToday(project, t) ==
    IF t.status = "TODO" THEN <<>>
    ELSE << TrailRow(t.logs[1], t, project, t.status, Now + Cardinality(Written)) >>

\* The activity trail written for a task, each row by a statement of its own and back-dated.
Trail(project, t) ==
    (IF t.status = "TODO" THEN <<>>
     ELSE << TrailRow(t.logs[1], t, project,
                      IF t.status = "DONE" THEN "IN_PROGRESS" ELSE t.status, -3) >>)
    \o (IF t.status = "DONE" THEN << TrailRow(t.logs[2], t, project, "DONE", -1) >> ELSE <<>>)

\* One turn of seedProjectTasks: the task, then its trail.
seedTask(project, t) ==
    << Row("task", t.name, {Ref("project", project), Ref("user", t.dev)}, t.status, 0) >>
    \o Trail(project, t)

SampleTasks ==
    seedTask("p1", [name |-> "t1", dev |-> "dev1", status |-> "DONE", logs |-> <<"l1", "l2">>])
    \o seedTask("p1", [name |-> "t2", dev |-> "dev2", status |-> "IN_PROGRESS", logs |-> <<"l3">>])
    \o seedTask("p2", [name |-> "t3", dev |-> "dev2", status |-> "TODO", logs |-> <<>>])

Inserts(rows) == [k \in DOMAIN rows |-> {Create({rows[k]})}]

\* The script as its phases: the statements of a phase are sent together.
Phases ==
    << {Wipe("notification")}, {Wipe("activityLog")}, {Wipe("task")}, {Wipe("project")},
       {Wipe("client")}, {Wipe("user")},
       {User("admin")}, {User("pm1"), User("pm2")}, {User("dev1"), User("dev2")},
       {Client("c1"), Client("c2")}, {Project("p1", "c1", "pm1")}, {Project("p2", "c2", "pm2")} >>
    \o Inserts(SampleTasks)
    \o << {Create({Notification("n1", "dev1"), Notification("n2", "pm1")})} >>
-------------------------------------------------------------------------------
\* The migrated database, which nobody can sign in to before the first run.
Init ==
    /\ db = {}
    /\ script = "none"
    /\ run = 0
    /\ phase = 0
    /\ waiting = {}
    /\ meanwhile = {}

Start ==
    /\ script # "running" /\ run < MaxRuns
    /\ script' = "running"
    /\ run' = run + 1
    /\ phase' = 1
    /\ waiting' = Phases[1]
    /\ meanwhile' = {}
    /\ UNCHANGED db

\* The next phase begins when every statement of this one has been answered.
Answer(st) ==
    /\ db' = Executed(st)
    /\ IF waiting # {st} THEN waiting' = waiting \ {st} /\ UNCHANGED <<script, phase>>
       ELSE IF phase < Len(Phases)
       THEN phase' = phase + 1 /\ waiting' = Phases[phase + 1] /\ UNCHANGED script
       ELSE script' = "done" /\ waiting' = {} /\ UNCHANGED phase

Statement ==
    /\ script = "running"
    /\ \E st \in waiting : Allowed(st) /\ Answer(st)
    /\ UNCHANGED <<run, meanwhile>>

\* main() is rejected and the process exits with 1.
Refused ==
    /\ script = "running"
    /\ \E st \in waiting : ~Allowed(st)
    /\ script' = "refused"
    /\ waiting' = {}
    /\ UNCHANGED <<db, run, phase, meanwhile>>

\* The process is stopped, or the connection to the database is lost.
Killed ==
    /\ script = "running"
    /\ script' = "killed"
    /\ waiting' = {}
    /\ UNCHANGED <<db, run, phase, meanwhile>>
-------------------------------------------------------------------------------
\* The application inserts a row that hangs on the sample of parent.  Whoever calls may
\* be gone already, as the access token alone is checked; the row is then refused.
Inserted(table, name, of, parent, status, at) ==
    {[id |-> <<table, name, parent[3]>>, of |-> of, status |-> status, at |-> at]}

Unused == {name \in Written : \A r \in db : r.id[2] # name}

AppWrites(table, D) ==
    /\ db' = D
    /\ meanwhile' = meanwhile \cup {table}
    /\ UNCHANGED <<script, run, phase, waiting>>

CreateProject ==
    \E w \in Unused, u \in Ids("user"), c \in Ids("client") :
        AppWrites("project", db \cup Inserted("project", w, {u, c}, u, "", 0))

CreateTask ==
    \E w \in Unused, p \in Ids("project"), assigned \in {{}} \cup {{u} : u \in Ids("user")} :
        AppWrites("task", db \cup Inserted("task", w, {p} \cup assigned, p, "TODO", 0))

\* The task's update and its log row are one transaction.
UpdateTaskStatus ==
    \E w \in Unused, t \in Rows("task"), u \in Ids("user"), to \in Statuses :
        /\ <<t.status, to>> \in VALID_TRANSITIONS
        /\ \E p \in t.of \cap Ids("project") :
             AppWrites("activityLog",
                       (db \ {t}) \cup {[t EXCEPT !.status = to]}
                       \cup Inserted("activityLog", w, {t.id, p, u}, p, to, Now))

\* A notice to the assignee or the manager, after the statement it tells of.
CreateNotification ==
    \E w \in Unused, u \in Ids("user"), t \in Ids("task") :
        AppWrites("notification", db \cup Inserted("notification", w, {u, t}, u, "", 0))

Next ==
    \/ Start
    \/ Statement
    \/ Refused
    \/ Killed
    \/ CreateProject
    \/ CreateTask
    \/ UpdateTaskStatus
    \/ CreateNotification

Spec == Init /\ [][Next]_vars
-------------------------------------------------------------------------------
\* The comment of seed.ts over the wipes: the seeding is repeatable.  Whatever earlier
\* runs and the application have left, half a sample included, no statement of a run is
\* refused unless a project was created while it ran; tasks, moves and notices written
\* between the wipes do not stop it.
SeedIsRepeatable == script = "refused" => "project" \in meanwhile

\* Nothing of an earlier sample, nor what was written for its users, survives a run that
\* ends, though each table is wiped once and written behind the script's back.
NothingOlder == \A r \in db : r.id[3] = run

\* The newest log row of a task, of the sample's back-dated ones and of those of moves
\* made while the sample was still being written, leads to the status the task has.
NewestOf(L) == CHOOSE r \in L : \A x \in L : x.at <= r.at
TrailsReachStatus ==
    \A t \in Rows("task") :
        LET trail == {r \in Rows("activityLog") : t.id \in r.of}
        IN t.status = IF trail = {} THEN "TODO" ELSE NewestOf(trail).status

\* A run that ends leaves a sample that is whole in both these ways.
DoneIsSample == script = "done" => NothingOlder /\ TrailsReachStatus
=============================================================================
