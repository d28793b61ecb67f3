------------------------------ MODULE Seed_proofs ------------------------------
(* What TLAPS proves of Seed for every set of names of the application's rows    *)
(* and every number of runs.  First the script is unfolded into its statements  *)
(* and the facts about them that the proof needs; then come the wipes, the      *)
(* inserts of the sample and those of the application, each as a step that      *)
(* keeps the inductive invariant IInv.                                          *)
EXTENDS Seed, SequenceTheorems, WellFoundedInduction, TLAPS

\* The tasks and the log rows of the sample.
Task(name, project, dev, status) ==
    Row("task", name, {Ref("project", project), Ref("user", dev)}, status, 0)
Log(name, task, project, dev, status, at) ==
    Row("activityLog", name,
        {Ref("task", task), Ref("project", project), Ref("user", dev)}, status, at)

\* Two sequences joined are the one that has the entries of both; then the joins Phases makes.
LEMMA Joined ==
    ASSUME NEW S, NEW s \in Seq(S), NEW t \in Seq(S), NEW u \in Seq(S),
           Len(u) = Len(s) + Len(t),
           \A k \in 1..Len(s) : u[k] = s[k],
           \A k \in 1..Len(t) : u[Len(s) + k] = t[k]
    PROVE  s \o t = u
<1>1. s \o t \in Seq(S) /\ Len(s \o t) = Len(s) + Len(t)
  BY ConcatProperties
<1>2. \A k \in 1..Len(s) + Len(t) : (s \o t)[k] = IF k <= Len(s) THEN s[k] ELSE t[k - Len(s)]
  BY ConcatProperties
<1>3. ASSUME NEW k \in 1..Len(s) + Len(t) PROVE (s \o t)[k] = u[k]
  <2>0. Len(s) \in Nat /\ Len(t) \in Nat
    OBVIOUS
  <2>1. CASE k <= Len(s)
    BY <1>2, <2>0, <2>1
  <2>2. CASE k > Len(s)
    <3>1. k - Len(s) \in 1..Len(t) /\ k = Len(s) + (k - Len(s))
      BY <2>0, <2>2
    <3>2. u[k] = t[k - Len(s)]
      BY <3>1
    <3>3. QED  BY <1>2, <2>0, <2>2, <3>2
  <2>3. QED  BY <2>0, <2>1, <2>2
<1>4. QED  BY <1>1, <1>3, SeqEqual

LEMMA Join1and1 ==
    ASSUME NEW a, NEW b
    PROVE  <<a>> \o <<b>>
             = <<a, b>>
<1> DEFINE S == {a, b}
           s == <<a>>
           t == <<b>>
           u == <<a, b>>
<1>1. s \in Seq(S) /\ t \in Seq(S) /\ u \in Seq(S)
  OBVIOUS
<1>2. Len(u) = Len(s) + Len(t)
  OBVIOUS
<1>3. \A k \in 1..Len(s) : u[k] = s[k]
  OBVIOUS
<1>4. \A k \in 1..Len(t) : u[Len(s) + k] = t[k]
  OBVIOUS
<1>5. s \o t = u
  <2> HIDE DEF S, s, t, u
  <2>1. QED  BY ONLY <1>1, <1>2, <1>3, <1>4, Joined
<1>6. QED  BY ONLY <1>5

LEMMA Join1and2 ==
    ASSUME NEW a, NEW b, NEW c
    PROVE  <<a>> \o <<b, c>>
             = <<a, b, c>>
<1> DEFINE S == {a, b, c}
           s == <<a>>
           t == <<b, c>>
           u == <<a, b, c>>
<1>1. s \in Seq(S) /\ t \in Seq(S) /\ u \in Seq(S)
  OBVIOUS
<1>2. Len(u) = Len(s) + Len(t)
  OBVIOUS
<1>3. \A k \in 1..Len(s) : u[k] = s[k]
  OBVIOUS
<1>4. \A k \in 1..Len(t) : u[Len(s) + k] = t[k]
  OBVIOUS
<1>5. s \o t = u
  <2> HIDE DEF S, s, t, u
  <2>1. QED  BY ONLY <1>1, <1>2, <1>3, <1>4, Joined
<1>6. QED  BY ONLY <1>5

LEMMA Join3and2 ==
    ASSUME NEW a, NEW b, NEW c, NEW d, NEW e
    PROVE  <<a, b, c>> \o <<d, e>>
             = <<a, b, c, d, e>>
<1> DEFINE S == {a, b, c, d, e}
           s == <<a, b, c>>
           t == <<d, e>>
           u == <<a, b, c, d, e>>
<1>1. s \in Seq(S) /\ t \in Seq(S) /\ u \in Seq(S)
  OBVIOUS
<1>2. Len(u) = Len(s) + Len(t)
  OBVIOUS
<1>3. \A k \in 1..Len(s) : u[k] = s[k]
  OBVIOUS
<1>4. \A k \in 1..Len(t) : u[Len(s) + k] = t[k]
  OBVIOUS
<1>5. s \o t = u
  <2> HIDE DEF S, s, t, u
  <2>1. QED  BY ONLY <1>1, <1>2, <1>3, <1>4, Joined
<1>6. QED  BY ONLY <1>5

LEMMA Join5and1 ==
    ASSUME NEW a, NEW b, NEW c, NEW d, NEW e, NEW f
    PROVE  <<a, b, c, d, e>> \o <<f>>
             = <<a, b, c, d, e, f>>
<1> DEFINE S == {a, b, c, d, e, f}
           s == <<a, b, c, d, e>>
           t == <<f>>
           u == <<a, b, c, d, e, f>>
<1>1. s \in Seq(S) /\ t \in Seq(S) /\ u \in Seq(S)
  OBVIOUS
<1>2. Len(u) = Len(s) + Len(t)
  OBVIOUS
<1>3. \A k \in 1..Len(s) : u[k] = s[k]
  OBVIOUS
<1>4. \A k \in 1..Len(t) : u[Len(s) + k] = t[k]
  OBVIOUS
<1>5. s \o t = u
  <2> HIDE DEF S, s, t, u
  <2>1. QED  BY ONLY <1>1, <1>2, <1>3, <1>4, Joined
<1>6. QED  BY ONLY <1>5

LEMMA Join12and6 ==
    ASSUME NEW a1, NEW a2, NEW a3, NEW a4, NEW a5, NEW a6, NEW a7, NEW a8, NEW a9, NEW a10,
           NEW a11, NEW a12, NEW b1, NEW b2, NEW b3, NEW b4, NEW b5, NEW b6
    PROVE  <<a1, a2, a3, a4, a5, a6, a7, a8, a9, a10, a11, a12>> \o <<b1, b2, b3, b4, b5, b6>>
             = <<a1, a2, a3, a4, a5, a6, a7, a8, a9, a10, a11, a12, b1, b2, b3, b4, b5, b6>>
<1> DEFINE S == {a1, a2, a3, a4, a5, a6, a7, a8, a9, a10, a11, a12, b1, b2, b3, b4, b5, b6}
           s == <<a1, a2, a3, a4, a5, a6, a7, a8, a9, a10, a11, a12>>
           t == <<b1, b2, b3, b4, b5, b6>>
           u == <<a1, a2, a3, a4, a5, a6, a7, a8, a9, a10, a11, a12, b1, b2, b3, b4, b5, b6>>
<1>1. s \in Seq(S) /\ t \in Seq(S) /\ u \in Seq(S)
  OBVIOUS
<1>2. Len(u) = Len(s) + Len(t)
  OBVIOUS
<1>3. \A k \in 1..Len(s) : u[k] = s[k]
  OBVIOUS
<1>4. \A k \in 1..Len(t) : u[Len(s) + k] = t[k]
  OBVIOUS
<1>5. s \o t = u
  <2> HIDE DEF S, s, t, u
  <2>1. QED  BY ONLY <1>1, <1>2, <1>3, <1>4, Joined
<1>6. QED  BY ONLY <1>5

LEMMA Join18and1 ==
    ASSUME NEW a1, NEW a2, NEW a3, NEW a4, NEW a5, NEW a6, NEW a7, NEW a8, NEW a9, NEW a10,
           NEW a11, NEW a12, NEW b1, NEW b2, NEW b3, NEW b4, NEW b5, NEW b6, NEW c
    PROVE  <<a1, a2, a3, a4, a5, a6, a7, a8, a9, a10, a11, a12, b1, b2, b3, b4, b5, b6>> \o <<c>>
             = <<a1, a2, a3, a4, a5, a6, a7, a8, a9, a10, a11, a12, b1, b2, b3, b4, b5, b6, c>>
<1> DEFINE S == {a1, a2, a3, a4, a5, a6, a7, a8, a9, a10, a11, a12, b1, b2, b3, b4, b5, b6, c}
           s == <<a1, a2, a3, a4, a5, a6, a7, a8, a9, a10, a11, a12, b1, b2, b3, b4, b5, b6>>
           t == <<c>>
           u == <<a1, a2, a3, a4, a5, a6, a7, a8, a9, a10, a11, a12, b1, b2, b3, b4, b5, b6, c>>
<1>1. s \in Seq(S) /\ t \in Seq(S) /\ u \in Seq(S)
  OBVIOUS
<1>2. Len(u) = Len(s) + Len(t)
  OBVIOUS
<1>3. \A k \in 1..Len(s) : u[k] = s[k]
  OBVIOUS
<1>4. \A k \in 1..Len(t) : u[Len(s) + k] = t[k]
  OBVIOUS
<1>5. s \o t = u
  <2> HIDE DEF S, s, t, u
  <2>1. QED  BY ONLY <1>1, <1>2, <1>3, <1>4, Joined
<1>6. QED  BY ONLY <1>5

\* The script, statement by statement.
LEMMA SampleTasksAre ==
    SampleTasks = << Task("t1", "p1", "dev1", "DONE"),
                     Log("l1", "t1", "p1", "dev1", "IN_PROGRESS", -3),
                     Log("l2", "t1", "p1", "dev1", "DONE", -1),
                     Task("t2", "p1", "dev2", "IN_PROGRESS"),
                     Log("l3", "t2", "p1", "dev2", "IN_PROGRESS", -3),
                     Task("t3", "p2", "dev2", "TODO") >>
<1> DEFINE T1 == [name |-> "t1", dev |-> "dev1", status |-> "DONE", logs |-> <<"l1", "l2">>]
           T2 == [name |-> "t2", dev |-> "dev2", status |-> "IN_PROGRESS", logs |-> <<"l3">>]
           T3 == [name |-> "t3", dev |-> "dev2", status |-> "TODO", logs |-> <<>>]
           a == Task("t1", "p1", "dev1", "DONE")
           b == Log("l1", "t1", "p1", "dev1", "IN_PROGRESS", -3)
           c == Log("l2", "t1", "p1", "dev1", "DONE", -1)
           d == Task("t2", "p1", "dev2", "IN_PROGRESS")
           e == Log("l3", "t2", "p1", "dev2", "IN_PROGRESS", -3)
           f == Task("t3", "p2", "dev2", "TODO")
<1>1. Trail("p1", T1) = <<b>> \o <<c>>
  BY DEF Trail, Log, TrailRow
<1>2. Trail("p1", T2) = <<e>> \o <<>>
  BY DEF Trail, Log, TrailRow
<1>3. Trail("p2", T3) = <<>>
  BY DEF Trail
<1>4. /\ seedTask("p1", T1) = <<a>> \o Trail("p1", T1)
      /\ seedTask("p1", T2) = <<d>> \o Trail("p1", T2)
      /\ seedTask("p2", T3) = <<f>> \o Trail("p2", T3)
  BY DEF seedTask, Task
<1>5. SampleTasks = seedTask("p1", T1) \o seedTask("p1", T2) \o seedTask("p2", T3)
  BY DEF SampleTasks
<1> HIDE DEF T1, T2, T3, a, b, c, d, e, f
<1>6. <<e>> \o <<>> = <<e>> /\ <<f>> \o <<>> = <<f>>
  <2>1. <<e>> \in Seq({e}) /\ <<f>> \in Seq({f})
    OBVIOUS
  <2>2. QED  BY <2>1, ConcatEmptySeq
<1>7. /\ <<b>> \o <<c>> = <<b, c>>
      /\ <<a>> \o <<b, c>> = <<a, b, c>>
      /\ <<d>> \o <<e>> = <<d, e>>
      /\ <<a, b, c>> \o <<d, e>> = <<a, b, c, d, e>>
      /\ <<a, b, c, d, e>> \o <<f>> = <<a, b, c, d, e, f>>
  <2>1. <<b>> \o <<c>> = <<b, c>> /\ <<d>> \o <<e>> = <<d, e>>
    BY Join1and1, Zenon
  <2>2. <<a>> \o <<b, c>> = <<a, b, c>>
    BY Join1and2, Zenon
  <2>3. <<a, b, c>> \o <<d, e>> = <<a, b, c, d, e>>
    BY Join3and2, Zenon
  <2>4. <<a, b, c, d, e>> \o <<f>> = <<a, b, c, d, e, f>>
    BY Join5and1, Zenon
  <2>5. QED  BY <2>1, <2>2, <2>3, <2>4
<1>8. /\ seedTask("p1", T1) = <<a, b, c>>
      /\ seedTask("p1", T2) = <<d, e>>
      /\ seedTask("p2", T3) = <<f>>
  BY ONLY <1>1, <1>2, <1>3, <1>4, <1>6, <1>7, Zenon
<1>9. SampleTasks = <<a, b, c, d, e, f>>
  BY ONLY <1>5, <1>7, <1>8, Zenon
<1>10. QED  BY ONLY <1>9 DEF a, b, c, d, e, f

LEMMA PhasesAre ==
    /\ Len(Phases) = 19
    /\ Phases[1] = {Wipe("notification")}
    /\ Phases[2] = {Wipe("activityLog")}
    /\ Phases[3] = {Wipe("task")}
    /\ Phases[4] = {Wipe("project")}
    /\ Phases[5] = {Wipe("client")}
    /\ Phases[6] = {Wipe("user")}
    /\ Phases[7] = {User("admin")}
    /\ Phases[8] = {User("pm1"), User("pm2")}
    /\ Phases[9] = {User("dev1"), User("dev2")}
    /\ Phases[10] = {Client("c1"), Client("c2")}
    /\ Phases[11] = {Project("p1", "c1", "pm1")}
    /\ Phases[12] = {Project("p2", "c2", "pm2")}
    /\ Phases[13] = {Create({Task("t1", "p1", "dev1", "DONE")})}
    /\ Phases[14] = {Create({Log("l1", "t1", "p1", "dev1", "IN_PROGRESS", -3)})}
    /\ Phases[15] = {Create({Log("l2", "t1", "p1", "dev1", "DONE", -1)})}
    /\ Phases[16] = {Create({Task("t2", "p1", "dev2", "IN_PROGRESS")})}
    /\ Phases[17] = {Create({Log("l3", "t2", "p1", "dev2", "IN_PROGRESS", -3)})}
    /\ Phases[18] = {Create({Task("t3", "p2", "dev2", "TODO")})}
    /\ Phases[19] = {Create({Notification("n1", "dev1"), Notification("n2", "pm1")})}
<1> DEFINE a1 == {Wipe("notification")}
           a2 == {Wipe("activityLog")}
           a3 == {Wipe("task")}
           a4 == {Wipe("project")}
           a5 == {Wipe("client")}
           a6 == {Wipe("user")}
           a7 == {User("admin")}
           a8 == {User("pm1"), User("pm2")}
           a9 == {User("dev1"), User("dev2")}
           a10 == {Client("c1"), Client("c2")}
           a11 == {Project("p1", "c1", "pm1")}
           a12 == {Project("p2", "c2", "pm2")}
           b1 == {Create({Task("t1", "p1", "dev1", "DONE")})}
           b2 == {Create({Log("l1", "t1", "p1", "dev1", "IN_PROGRESS", -3)})}
           b3 == {Create({Log("l2", "t1", "p1", "dev1", "DONE", -1)})}
           b4 == {Create({Task("t2", "p1", "dev2", "IN_PROGRESS")})}
           b5 == {Create({Log("l3", "t2", "p1", "dev2", "IN_PROGRESS", -3)})}
           b6 == {Create({Task("t3", "p2", "dev2", "TODO")})}
           c == {Create({Notification("n1", "dev1"), Notification("n2", "pm1")})}
<1>1. Inserts(SampleTasks) = <<b1, b2, b3, b4, b5, b6>>
  <2> DEFINE d1 == Task("t1", "p1", "dev1", "DONE")
             d2 == Log("l1", "t1", "p1", "dev1", "IN_PROGRESS", -3)
             d3 == Log("l2", "t1", "p1", "dev1", "DONE", -1)
             d4 == Task("t2", "p1", "dev2", "IN_PROGRESS")
             d5 == Log("l3", "t2", "p1", "dev2", "IN_PROGRESS", -3)
             d6 == Task("t3", "p2", "dev2", "TODO")
  <2>1. SampleTasks = <<d1, d2, d3, d4, d5, d6>>
    BY SampleTasksAre
  <2>2. /\ b1 = {Create({d1})} /\ b2 = {Create({d2})} /\ b3 = {Create({d3})}
        /\ b4 = {Create({d4})} /\ b5 = {Create({d5})} /\ b6 = {Create({d6})}
    OBVIOUS
  <2> HIDE DEF d1, d2, d3, d4, d5, d6, b1, b2, b3, b4, b5, b6
  <2> DEFINE u == << {Create({d1})}, {Create({d2})}, {Create({d3})},
                     {Create({d4})}, {Create({d5})}, {Create({d6})} >>
  <2>3. DOMAIN SampleTasks = 1..6
    BY <2>1
  <2>4. u = [k \in 1..6 |-> u[k]]
    OBVIOUS
  <2>5. ASSUME NEW k \in 1..6 PROVE u[k] = {Create({SampleTasks[k]})}
    <3>1. k = 1 \/ k = 2 \/ k = 3 \/ k = 4 \/ k = 5 \/ k = 6
      OBVIOUS
    <3>2. CASE k = 1
      BY <2>1, <3>2
    <3>3. CASE k = 2
      BY <2>1, <3>3
    <3>4. CASE k = 3
      BY <2>1, <3>4
    <3>5. CASE k = 4
      BY <2>1, <3>5
    <3>6. CASE k = 5
      BY <2>1, <3>6
    <3>7. CASE k = 6
      BY <2>1, <3>7
    <3>8. QED  BY <3>1, <3>2, <3>3, <3>4, <3>5, <3>6, <3>7
  <2>6. Inserts(SampleTasks) = [k \in 1..6 |-> {Create({SampleTasks[k]})}]
    BY <2>3 DEF Inserts
  <2>7. Inserts(SampleTasks) = u
    <3> HIDE DEF u
    <3>1. QED  BY ONLY <2>4, <2>5, <2>6
  <2>8. QED  BY ONLY <2>2, <2>7
<1>2. Phases = << a1, a2, a3, a4, a5, a6, a7, a8, a9, a10, a11, a12 >>
               \o Inserts(SampleTasks) \o <<c>>
  BY DEF Phases
<1> HIDE DEF a1, a2, a3, a4, a5, a6, a7, a8, a9, a10, a11, a12, b1, b2, b3, b4, b5, b6, c
<1>3. << a1, a2, a3, a4, a5, a6, a7, a8, a9, a10, a11, a12 >> \o <<b1, b2, b3, b4, b5, b6>>
        = << a1, a2, a3, a4, a5, a6, a7, a8, a9, a10, a11, a12, b1, b2, b3, b4, b5, b6 >>
  BY Join12and6
<1>4. << a1, a2, a3, a4, a5, a6, a7, a8, a9, a10, a11, a12, b1, b2, b3, b4, b5, b6 >> \o <<c>>
        = << a1, a2, a3, a4, a5, a6, a7, a8, a9, a10, a11, a12, b1, b2, b3, b4, b5, b6, c >>
  BY Join18and1
<1>5. Phases = << a1, a2, a3, a4, a5, a6, a7, a8, a9, a10, a11, a12, b1, b2, b3, b4, b5, b6, c >>
  BY ONLY <1>1, <1>2, <1>3, <1>4, Zenon
<1>6. /\ Len(Phases) = 19
      /\ Phases[1] = a1
      /\ Phases[2] = a2
      /\ Phases[3] = a3
      /\ Phases[4] = a4
      /\ Phases[5] = a5
      /\ Phases[6] = a6
      /\ Phases[7] = a7
      /\ Phases[8] = a8
      /\ Phases[9] = a9
      /\ Phases[10] = a10
      /\ Phases[11] = a11
      /\ Phases[12] = a12
      /\ Phases[13] = b1
      /\ Phases[14] = b2
      /\ Phases[15] = b3
      /\ Phases[16] = b4
      /\ Phases[17] = b5
      /\ Phases[18] = b6
      /\ Phases[19] = c
  BY ONLY <1>5
<1>7. QED  BY ONLY <1>6 DEF a1, a2, a3, a4, a5, a6, a7, a8, a9, a10, a11, a12, b1, b2, b3, b4,
              b5, b6, c
-------------------------------------------------------------------------------
\* The rows a statement of the script writes.
LEMMA StatementRows ==
    /\ \A name : /\ User(name).rows = {Row("user", name, {}, "", 0)}
                   /\ Client(name).rows = {Row("client", name, {}, "", 0)}
    /\ \A name, client, pm :
         Project(name, client, pm).rows
           = {Row("project", name, {Ref("client", client), Ref("user", pm)}, "", 0)}
    /\ \A rows : Create(rows).rows = rows
  BY DEF User, Client, Project, Create

\* The rows of the sample, each with the phase and the statement that write it.
Place(k, st, r) ==
    \/ /\ k = 7 /\ st = User("admin")
       /\ r = Row("user", "admin", {}, "", 0) /\ r.id = Ref("user", "admin")
       /\ r.id[2] = "admin"
    \/ /\ k = 8 /\ st = User("pm1")
       /\ r = Row("user", "pm1", {}, "", 0) /\ r.id = Ref("user", "pm1")
       /\ r.id[2] = "pm1"
    \/ /\ k = 8 /\ st = User("pm2")
       /\ r = Row("user", "pm2", {}, "", 0) /\ r.id = Ref("user", "pm2")
       /\ r.id[2] = "pm2"
    \/ /\ k = 9 /\ st = User("dev1")
       /\ r = Row("user", "dev1", {}, "", 0) /\ r.id = Ref("user", "dev1")
       /\ r.id[2] = "dev1"
    \/ /\ k = 9 /\ st = User("dev2")
       /\ r = Row("user", "dev2", {}, "", 0) /\ r.id = Ref("user", "dev2")
       /\ r.id[2] = "dev2"
    \/ /\ k = 10 /\ st = Client("c1")
       /\ r = Row("client", "c1", {}, "", 0) /\ r.id = Ref("client", "c1")
       /\ r.id[2] = "c1"
    \/ /\ k = 10 /\ st = Client("c2")
       /\ r = Row("client", "c2", {}, "", 0) /\ r.id = Ref("client", "c2")
       /\ r.id[2] = "c2"
    \/ /\ k = 11 /\ st = Project("p1", "c1", "pm1")
       /\ r = Row("project", "p1", {Ref("client", "c1"), Ref("user", "pm1")}, "", 0)
       /\ r.id = Ref("project", "p1")
       /\ r.id[2] = "p1"
    \/ /\ k = 12 /\ st = Project("p2", "c2", "pm2")
       /\ r = Row("project", "p2", {Ref("client", "c2"), Ref("user", "pm2")}, "", 0)
       /\ r.id = Ref("project", "p2")
       /\ r.id[2] = "p2"
    \/ /\ k = 13 /\ st = Create({Task("t1", "p1", "dev1", "DONE")})
       /\ r = Task("t1", "p1", "dev1", "DONE") /\ r.id = Ref("task", "t1")
       /\ r.id[2] = "t1"
    \/ /\ k = 14 /\ st = Create({Log("l1", "t1", "p1", "dev1", "IN_PROGRESS", -3)})
       /\ r = Log("l1", "t1", "p1", "dev1", "IN_PROGRESS", -3) /\ r.id = Ref("activityLog", "l1")
       /\ r.id[2] = "l1"
    \/ /\ k = 15 /\ st = Create({Log("l2", "t1", "p1", "dev1", "DONE", -1)})
       /\ r = Log("l2", "t1", "p1", "dev1", "DONE", -1) /\ r.id = Ref("activityLog", "l2")
       /\ r.id[2] = "l2"
    \/ /\ k = 16 /\ st = Create({Task("t2", "p1", "dev2", "IN_PROGRESS")})
       /\ r = Task("t2", "p1", "dev2", "IN_PROGRESS") /\ r.id = Ref("task", "t2")
       /\ r.id[2] = "t2"
    \/ /\ k = 17 /\ st = Create({Log("l3", "t2", "p1", "dev2", "IN_PROGRESS", -3)})
       /\ r = Log("l3", "t2", "p1", "dev2", "IN_PROGRESS", -3) /\ r.id = Ref("activityLog", "l3")
       /\ r.id[2] = "l3"
    \/ /\ k = 18 /\ st = Create({Task("t3", "p2", "dev2", "TODO")})
       /\ r = Task("t3", "p2", "dev2", "TODO") /\ r.id = Ref("task", "t3")
       /\ r.id[2] = "t3"
    \/ /\ k = 19 /\ st = Create({Notification("n1", "dev1"), Notification("n2", "pm1")})
       /\ r = Notification("n1", "dev1") /\ r.id = Ref("notification", "n1")
       /\ r.id[2] = "n1"
    \/ /\ k = 19 /\ st = Create({Notification("n1", "dev1"), Notification("n2", "pm1")})
       /\ r = Notification("n2", "pm1") /\ r.id = Ref("notification", "n2")
       /\ r.id[2] = "n2"

\* Every row a statement writes has its place there.
LEMMA SampleRows ==
    ASSUME NEW k \in 7..19, NEW st \in Phases[k], NEW r \in st.rows
    PROVE  Place(k, st, r)
<1>1. k = 7 \/ k = 8 \/ k = 9 \/ k = 10 \/ k = 11 \/ k = 12 \/ k = 13
      \/ k = 14 \/ k = 15 \/ k = 16 \/ k = 17 \/ k = 18 \/ k = 19
  OBVIOUS
<1>2. CASE k = 7
  <2>1. st = User("admin")
    BY <1>2, PhasesAre
  <2>2. st.rows = {Row("user", "admin", {}, "", 0)}
    BY <2>1, StatementRows
  <2>3. /\ Row("user", "admin", {}, "", 0).id = Ref("user", "admin")
        /\ Row("user", "admin", {}, "", 0).id[2] = "admin"
    BY DEF Row, Ref, Task, Log, Notification
  <2>4. QED  BY <1>2, <2>1, <2>2, <2>3 DEF Place
<1>3. CASE k = 8
  <2>1. CASE st = User("pm1")
    <3>1. r = Row("user", "pm1", {}, "", 0)
      BY <2>1, StatementRows
    <3>2. /\ Row("user", "pm1", {}, "", 0).id = Ref("user", "pm1")
          /\ Row("user", "pm1", {}, "", 0).id[2] = "pm1"
      BY DEF Row, Ref, Task, Log, Notification
    <3>3. QED  BY <1>3, <2>1, <3>1, <3>2 DEF Place
  <2>2. CASE st = User("pm2")
    <3>1. r = Row("user", "pm2", {}, "", 0)
      BY <2>2, StatementRows
    <3>2. /\ Row("user", "pm2", {}, "", 0).id = Ref("user", "pm2")
          /\ Row("user", "pm2", {}, "", 0).id[2] = "pm2"
      BY DEF Row, Ref, Task, Log, Notification
    <3>3. QED  BY <1>3, <2>2, <3>1, <3>2 DEF Place
  <2>3. QED  BY <1>3, <2>1, <2>2, PhasesAre
<1>4. CASE k = 9
  <2>1. CASE st = User("dev1")
    <3>1. r = Row("user", "dev1", {}, "", 0)
      BY <2>1, StatementRows
    <3>2. /\ Row("user", "dev1", {}, "", 0).id = Ref("user", "dev1")
          /\ Row("user", "dev1", {}, "", 0).id[2] = "dev1"
      BY DEF Row, Ref, Task, Log, Notification
    <3>3. QED  BY <1>4, <2>1, <3>1, <3>2 DEF Place
  <2>2. CASE st = User("dev2")
    <3>1. r = Row("user", "dev2", {}, "", 0)
      BY <2>2, StatementRows
    <3>2. /\ Row("user", "dev2", {}, "", 0).id = Ref("user", "dev2")
          /\ Row("user", "dev2", {}, "", 0).id[2] = "dev2"
      BY DEF Row, Ref, Task, Log, Notification
    <3>3. QED  BY <1>4, <2>2, <3>1, <3>2 DEF Place
  <2>3. QED  BY <1>4, <2>1, <2>2, PhasesAre
<1>5. CASE k = 10
  <2>1. CASE st = Client("c1")
    <3>1. r = Row("client", "c1", {}, "", 0)
      BY <2>1, StatementRows
    <3>2. /\ Row("client", "c1", {}, "", 0).id = Ref("client", "c1")
          /\ Row("client", "c1", {}, "", 0).id[2] = "c1"
      BY DEF Row, Ref, Task, Log, Notification
    <3>3. QED  BY <1>5, <2>1, <3>1, <3>2 DEF Place
  <2>2. CASE st = Client("c2")
    <3>1. r = Row("client", "c2", {}, "", 0)
      BY <2>2, StatementRows
    <3>2. /\ Row("client", "c2", {}, "", 0).id = Ref("client", "c2")
          /\ Row("client", "c2", {}, "", 0).id[2] = "c2"
      BY DEF Row, Ref, Task, Log, Notification
    <3>3. QED  BY <1>5, <2>2, <3>1, <3>2 DEF Place
  <2>3. QED  BY <1>5, <2>1, <2>2, PhasesAre
<1>6. CASE k = 11
  <2>1. st = Project("p1", "c1", "pm1")
    BY <1>6, PhasesAre
  <2>2. st.rows = {Row("project", "p1", {Ref("client", "c1"), Ref("user", "pm1")}, "", 0)}
    BY <2>1 DEF Project, Create
  <2>3. /\ Row("project", "p1", {Ref("client", "c1"), Ref("user", "pm1")}, "", 0).id = Ref("project", "p1")
        /\ Row("project", "p1", {Ref("client", "c1"), Ref("user", "pm1")}, "", 0).id[2] = "p1"
    BY DEF Row, Ref, Task, Log, Notification
  <2>4. QED  BY <1>6, <2>1, <2>2, <2>3 DEF Place
<1>7. CASE k = 12
  <2>1. st = Project("p2", "c2", "pm2")
    BY <1>7, PhasesAre
  <2>2. st.rows = {Row("project", "p2", {Ref("client", "c2"), Ref("user", "pm2")}, "", 0)}
    BY <2>1 DEF Project, Create
  <2>3. /\ Row("project", "p2", {Ref("client", "c2"), Ref("user", "pm2")}, "", 0).id = Ref("project", "p2")
        /\ Row("project", "p2", {Ref("client", "c2"), Ref("user", "pm2")}, "", 0).id[2] = "p2"
    BY DEF Row, Ref, Task, Log, Notification
  <2>4. QED  BY <1>7, <2>1, <2>2, <2>3 DEF Place
<1>8. CASE k = 13
  <2>1. st = Create({Task("t1", "p1", "dev1", "DONE")})
    BY <1>8, PhasesAre
  <2>2. st.rows = {Task("t1", "p1", "dev1", "DONE")}
    BY <2>1, StatementRows
  <2>3. /\ Task("t1", "p1", "dev1", "DONE").id = Ref("task", "t1")
        /\ Task("t1", "p1", "dev1", "DONE").id[2] = "t1"
    BY DEF Row, Ref, Task, Log, Notification
  <2>4. QED  BY <1>8, <2>1, <2>2, <2>3 DEF Place
<1>9. CASE k = 14
  <2>1. st = Create({Log("l1", "t1", "p1", "dev1", "IN_PROGRESS", -3)})
    BY <1>9, PhasesAre
  <2>2. st.rows = {Log("l1", "t1", "p1", "dev1", "IN_PROGRESS", -3)}
    BY <2>1, StatementRows
  <2>3. /\ Log("l1", "t1", "p1", "dev1", "IN_PROGRESS", -3).id = Ref("activityLog", "l1")
        /\ Log("l1", "t1", "p1", "dev1", "IN_PROGRESS", -3).id[2] = "l1"
    BY DEF Row, Ref, Task, Log, Notification
  <2>4. QED  BY <1>9, <2>1, <2>2, <2>3 DEF Place
<1>10. CASE k = 15
  <2>1. st = Create({Log("l2", "t1", "p1", "dev1", "DONE", -1)})
    BY <1>10, PhasesAre
  <2>2. st.rows = {Log("l2", "t1", "p1", "dev1", "DONE", -1)}
    BY <2>1, StatementRows
  <2>3. /\ Log("l2", "t1", "p1", "dev1", "DONE", -1).id = Ref("activityLog", "l2")
        /\ Log("l2", "t1", "p1", "dev1", "DONE", -1).id[2] = "l2"
    BY DEF Row, Ref, Task, Log, Notification
  <2>4. QED  BY <1>10, <2>1, <2>2, <2>3 DEF Place
<1>11. CASE k = 16
  <2>1. st = Create({Task("t2", "p1", "dev2", "IN_PROGRESS")})
    BY <1>11, PhasesAre
  <2>2. st.rows = {Task("t2", "p1", "dev2", "IN_PROGRESS")}
    BY <2>1, StatementRows
  <2>3. /\ Task("t2", "p1", "dev2", "IN_PROGRESS").id = Ref("task", "t2")
        /\ Task("t2", "p1", "dev2", "IN_PROGRESS").id[2] = "t2"
    BY DEF Row, Ref, Task, Log, Notification
  <2>4. QED  BY <1>11, <2>1, <2>2, <2>3 DEF Place
<1>12. CASE k = 17
  <2>1. st = Create({Log("l3", "t2", "p1", "dev2", "IN_PROGRESS", -3)})
    BY <1>12, PhasesAre
  <2>2. st.rows = {Log("l3", "t2", "p1", "dev2", "IN_PROGRESS", -3)}
    BY <2>1, StatementRows
  <2>3. /\ Log("l3", "t2", "p1", "dev2", "IN_PROGRESS", -3).id = Ref("activityLog", "l3")
        /\ Log("l3", "t2", "p1", "dev2", "IN_PROGRESS", -3).id[2] = "l3"
    BY DEF Row, Ref, Task, Log, Notification
  <2>4. QED  BY <1>12, <2>1, <2>2, <2>3 DEF Place
<1>13. CASE k = 18
  <2>1. st = Create({Task("t3", "p2", "dev2", "TODO")})
    BY <1>13, PhasesAre
  <2>2. st.rows = {Task("t3", "p2", "dev2", "TODO")}
    BY <2>1, StatementRows
  <2>3. /\ Task("t3", "p2", "dev2", "TODO").id = Ref("task", "t3")
        /\ Task("t3", "p2", "dev2", "TODO").id[2] = "t3"
    BY DEF Row, Ref, Task, Log, Notification
  <2>4. QED  BY <1>13, <2>1, <2>2, <2>3 DEF Place
<1>14. CASE k = 19
  <2>1. st = Create({Notification("n1", "dev1"), Notification("n2", "pm1")})
    BY <1>14, PhasesAre
  <2>2. st.rows = {Notification("n1", "dev1"), Notification("n2", "pm1")}
    BY <2>1, StatementRows
  <2>3. /\ Notification("n1", "dev1").id = Ref("notification", "n1")
        /\ Notification("n1", "dev1").id[2] = "n1"
    BY DEF Row, Ref, Task, Log, Notification
  <2>4. /\ Notification("n2", "pm1").id = Ref("notification", "n2")
        /\ Notification("n2", "pm1").id[2] = "n2"
    BY DEF Row, Ref, Task, Log, Notification
  <2>5. QED  BY <1>14, <2>1, <2>2, <2>3, <2>4 DEF Place
<1>15. QED  BY <1>1, <1>2, <1>3, <1>4, <1>5, <1>6, <1>7, <1>8, <1>9, <1>10, <1>11, <1>12, <1>13,
               <1>14

\* No phase is empty, and those after the wipes insert.
LEMMA PhaseKinds ==
    /\ \A k \in 1..19 : Phases[k] # {}
    /\ \A k \in 7..19 : \A st \in Phases[k] : st.op = "create" /\ st = Create(st.rows)
<1>1. ASSUME NEW k \in 1..19 PROVE Phases[k] # {}
  <2>1. k = 1 \/ k = 2 \/ k = 3 \/ k = 4 \/ k = 5 \/ k = 6 \/ k = 7
        \/ k = 8 \/ k = 9 \/ k = 10 \/ k = 11 \/ k = 12 \/ k = 13 \/ k = 14
        \/ k = 15 \/ k = 16 \/ k = 17 \/ k = 18 \/ k = 19
    OBVIOUS
  <2>2. QED  BY <2>1, PhasesAre
<1>2. ASSUME NEW k \in 7..19, NEW st \in Phases[k] PROVE st.op = "create" /\ st = Create(st.rows)
  <2>1. k = 7 \/ k = 8 \/ k = 9 \/ k = 10 \/ k = 11 \/ k = 12 \/ k = 13
        \/ k = 14 \/ k = 15 \/ k = 16 \/ k = 17 \/ k = 18 \/ k = 19
    OBVIOUS
  <2>2. PICK rows : st = Create(rows)
    <3>1. \/ \E name : st = User(name) \/ st = Client(name)
          \/ \E name, client, pm : st = Project(name, client, pm)
          \/ \E rows : st = Create(rows)
      BY <2>1, PhasesAre
    <3>2. QED  BY <3>1 DEF User, Client, Project
  <2>3. QED  BY <2>2, StatementRows DEF Create
<1>3. QED  BY <1>1, <1>2

\* A phase writes a row with this id.
InSample(k, id) == \E st \in Phases[k] : \E p \in st.rows : p.id = id

\* The rows that others refer to, with the phase that writes them.
LEMMA SampleIds ==
    /\ InSample(8, Ref("user", "pm1"))
    /\ InSample(8, Ref("user", "pm2"))
    /\ InSample(9, Ref("user", "dev1"))
    /\ InSample(9, Ref("user", "dev2"))
    /\ InSample(10, Ref("client", "c1"))
    /\ InSample(10, Ref("client", "c2"))
    /\ InSample(11, Ref("project", "p1"))
    /\ InSample(12, Ref("project", "p2"))
    /\ InSample(13, Ref("task", "t1"))
    /\ InSample(16, Ref("task", "t2"))
<1>1. InSample(8, Ref("user", "pm1"))
  <2>1. User("pm1") \in Phases[8]
    BY PhasesAre
  <2>2. Row("user", "pm1", {}, "", 0) \in User("pm1").rows
    BY StatementRows
  <2>3. Row("user", "pm1", {}, "", 0).id = Ref("user", "pm1")
    BY DEF Row, Ref, Task
  <2>4. QED  BY <2>1, <2>2, <2>3 DEF InSample
<1>2. InSample(8, Ref("user", "pm2"))
  <2>1. User("pm2") \in Phases[8]
    BY PhasesAre
  <2>2. Row("user", "pm2", {}, "", 0) \in User("pm2").rows
    BY StatementRows
  <2>3. Row("user", "pm2", {}, "", 0).id = Ref("user", "pm2")
    BY DEF Row, Ref, Task
  <2>4. QED  BY <2>1, <2>2, <2>3 DEF InSample
<1>3. InSample(9, Ref("user", "dev1"))
  <2>1. User("dev1") \in Phases[9]
    BY PhasesAre
  <2>2. Row("user", "dev1", {}, "", 0) \in User("dev1").rows
    BY StatementRows
  <2>3. Row("user", "dev1", {}, "", 0).id = Ref("user", "dev1")
    BY DEF Row, Ref, Task
  <2>4. QED  BY <2>1, <2>2, <2>3 DEF InSample
<1>4. InSample(9, Ref("user", "dev2"))
  <2>1. User("dev2") \in Phases[9]
    BY PhasesAre
  <2>2. Row("user", "dev2", {}, "", 0) \in User("dev2").rows
    BY StatementRows
  <2>3. Row("user", "dev2", {}, "", 0).id = Ref("user", "dev2")
    BY DEF Row, Ref, Task
  <2>4. QED  BY <2>1, <2>2, <2>3 DEF InSample
<1>5. InSample(10, Ref("client", "c1"))
  <2>1. Client("c1") \in Phases[10]
    BY PhasesAre
  <2>2. Row("client", "c1", {}, "", 0) \in Client("c1").rows
    BY StatementRows
  <2>3. Row("client", "c1", {}, "", 0).id = Ref("client", "c1")
    BY DEF Row, Ref, Task
  <2>4. QED  BY <2>1, <2>2, <2>3 DEF InSample
<1>6. InSample(10, Ref("client", "c2"))
  <2>1. Client("c2") \in Phases[10]
    BY PhasesAre
  <2>2. Row("client", "c2", {}, "", 0) \in Client("c2").rows
    BY StatementRows
  <2>3. Row("client", "c2", {}, "", 0).id = Ref("client", "c2")
    BY DEF Row, Ref, Task
  <2>4. QED  BY <2>1, <2>2, <2>3 DEF InSample
<1>7. InSample(11, Ref("project", "p1"))
  <2>1. Project("p1", "c1", "pm1") \in Phases[11]
    BY PhasesAre
  <2>2. Row("project", "p1", {Ref("client", "c1"), Ref("user", "pm1")}, "", 0)
          \in Project("p1", "c1", "pm1").rows
    BY DEF Project, Create
  <2>3. Row("project", "p1", {Ref("client", "c1"), Ref("user", "pm1")}, "", 0).id
          = Ref("project", "p1")
    BY DEF Row, Ref, Task
  <2>4. QED  BY <2>1, <2>2, <2>3 DEF InSample
<1>8. InSample(12, Ref("project", "p2"))
  <2>1. Project("p2", "c2", "pm2") \in Phases[12]
    BY PhasesAre
  <2>2. Row("project", "p2", {Ref("client", "c2"), Ref("user", "pm2")}, "", 0)
          \in Project("p2", "c2", "pm2").rows
    BY DEF Project, Create
  <2>3. Row("project", "p2", {Ref("client", "c2"), Ref("user", "pm2")}, "", 0).id
          = Ref("project", "p2")
    BY DEF Row, Ref, Task
  <2>4. QED  BY <2>1, <2>2, <2>3 DEF InSample
<1>9. InSample(13, Ref("task", "t1"))
  <2>1. Create({Task("t1", "p1", "dev1", "DONE")}) \in Phases[13]
    BY PhasesAre
  <2>2. Task("t1", "p1", "dev1", "DONE") \in Create({Task("t1", "p1", "dev1", "DONE")}).rows
    BY StatementRows
  <2>3. Task("t1", "p1", "dev1", "DONE").id = Ref("task", "t1")
    BY DEF Row, Ref, Task
  <2>4. QED  BY <2>1, <2>2, <2>3 DEF InSample
<1>10. InSample(16, Ref("task", "t2"))
  <2>1. Create({Task("t2", "p1", "dev2", "IN_PROGRESS")}) \in Phases[16]
    BY PhasesAre
  <2>2. Task("t2", "p1", "dev2", "IN_PROGRESS")
          \in Create({Task("t2", "p1", "dev2", "IN_PROGRESS")}).rows
    BY StatementRows
  <2>3. Task("t2", "p1", "dev2", "IN_PROGRESS").id = Ref("task", "t2")
    BY DEF Row, Ref, Task
  <2>4. QED  BY <2>1, <2>2, <2>3 DEF InSample
<1>11. QED  BY <1>1, <1>2, <1>3, <1>4, <1>5, <1>6, <1>7, <1>8, <1>9, <1>10

\* A reference of a row is to a row of an earlier phase.
LEMMA EarlierRefs ==
    ASSUME NEW k \in 7..19, NEW st \in Phases[k], NEW r \in st.rows, NEW id \in r.of
    PROVE  \E j \in 7..(k - 1) : InSample(j, id)
<1>1. CASE k = 7 /\ r = Row("user", "admin", {}, "", 0)
  <2>1. r.of = {}
    BY <1>1 DEF Row, Task, Log, Notification
  <2>2. QED  BY <1>1, <2>1, SampleIds
<1>2. CASE k = 8 /\ r = Row("user", "pm1", {}, "", 0)
  <2>1. r.of = {}
    BY <1>2 DEF Row, Task, Log, Notification
  <2>2. QED  BY <1>2, <2>1, SampleIds
<1>3. CASE k = 8 /\ r = Row("user", "pm2", {}, "", 0)
  <2>1. r.of = {}
    BY <1>3 DEF Row, Task, Log, Notification
  <2>2. QED  BY <1>3, <2>1, SampleIds
<1>4. CASE k = 9 /\ r = Row("user", "dev1", {}, "", 0)
  <2>1. r.of = {}
    BY <1>4 DEF Row, Task, Log, Notification
  <2>2. QED  BY <1>4, <2>1, SampleIds
<1>5. CASE k = 9 /\ r = Row("user", "dev2", {}, "", 0)
  <2>1. r.of = {}
    BY <1>5 DEF Row, Task, Log, Notification
  <2>2. QED  BY <1>5, <2>1, SampleIds
<1>6. CASE k = 10 /\ r = Row("client", "c1", {}, "", 0)
  <2>1. r.of = {}
    BY <1>6 DEF Row, Task, Log, Notification
  <2>2. QED  BY <1>6, <2>1, SampleIds
<1>7. CASE k = 10 /\ r = Row("client", "c2", {}, "", 0)
  <2>1. r.of = {}
    BY <1>7 DEF Row, Task, Log, Notification
  <2>2. QED  BY <1>7, <2>1, SampleIds
<1>8. CASE k = 11 /\ r = Row("project", "p1", {Ref("client", "c1"), Ref("user", "pm1")}, "", 0)
  <2>1. r.of = {Ref("client", "c1"), Ref("user", "pm1")}
    BY <1>8 DEF Row, Task, Log, Notification
  <2>2. CASE id = Ref("client", "c1")
    <3>1. 10 \in 7..(k - 1)
      <4>1. k = 11
        BY <1>8, Zenon
      <4>2. QED  BY ONLY <4>1
    <3>2. InSample(10, id)
      BY ONLY <2>2, SampleIds
    <3>3. QED  BY <3>1, <3>2
  <2>3. CASE id = Ref("user", "pm1")
    <3>1. 8 \in 7..(k - 1)
      <4>1. k = 11
        BY <1>8, Zenon
      <4>2. QED  BY ONLY <4>1
    <3>2. InSample(8, id)
      BY ONLY <2>3, SampleIds
    <3>3. QED  BY <3>1, <3>2
  <2>4. QED  BY <2>1, <2>2, <2>3
<1>9. CASE k = 12 /\ r = Row("project", "p2", {Ref("client", "c2"), Ref("user", "pm2")}, "", 0)
  <2>1. r.of = {Ref("client", "c2"), Ref("user", "pm2")}
    BY <1>9 DEF Row, Task, Log, Notification
  <2>2. CASE id = Ref("client", "c2")
    <3>1. 10 \in 7..(k - 1)
      <4>1. k = 12
        BY <1>9, Zenon
      <4>2. QED  BY ONLY <4>1
    <3>2. InSample(10, id)
      BY ONLY <2>2, SampleIds
    <3>3. QED  BY <3>1, <3>2
  <2>3. CASE id = Ref("user", "pm2")
    <3>1. 8 \in 7..(k - 1)
      <4>1. k = 12
        BY <1>9, Zenon
      <4>2. QED  BY ONLY <4>1
    <3>2. InSample(8, id)
      BY ONLY <2>3, SampleIds
    <3>3. QED  BY <3>1, <3>2
  <2>4. QED  BY <2>1, <2>2, <2>3
<1>10. CASE k = 13 /\ r = Task("t1", "p1", "dev1", "DONE")
  <2>1. r.of = {Ref("project", "p1"), Ref("user", "dev1")}
    BY <1>10 DEF Row, Task, Log, Notification
  <2>2. QED  BY <1>10, <2>1, SampleIds
<1>11. CASE k = 14 /\ r = Log("l1", "t1", "p1", "dev1", "IN_PROGRESS", -3)
  <2>1. r.of = {Ref("task", "t1"), Ref("project", "p1"), Ref("user", "dev1")}
    BY <1>11 DEF Row, Task, Log, Notification
  <2>2. QED  BY <1>11, <2>1, SampleIds
<1>12. CASE k = 15 /\ r = Log("l2", "t1", "p1", "dev1", "DONE", -1)
  <2>1. r.of = {Ref("task", "t1"), Ref("project", "p1"), Ref("user", "dev1")}
    BY <1>12 DEF Row, Task, Log, Notification
  <2>2. QED  BY <1>12, <2>1, SampleIds
<1>13. CASE k = 16 /\ r = Task("t2", "p1", "dev2", "IN_PROGRESS")
  <2>1. r.of = {Ref("project", "p1"), Ref("user", "dev2")}
    BY <1>13 DEF Row, Task, Log, Notification
  <2>2. QED  BY <1>13, <2>1, SampleIds
<1>14. CASE k = 17 /\ r = Log("l3", "t2", "p1", "dev2", "IN_PROGRESS", -3)
  <2>1. r.of = {Ref("task", "t2"), Ref("project", "p1"), Ref("user", "dev2")}
    BY <1>14 DEF Row, Task, Log, Notification
  <2>2. QED  BY <1>14, <2>1, SampleIds
<1>15. CASE k = 18 /\ r = Task("t3", "p2", "dev2", "TODO")
  <2>1. r.of = {Ref("project", "p2"), Ref("user", "dev2")}
    BY <1>15 DEF Row, Task, Log, Notification
  <2>2. QED  BY <1>15, <2>1, SampleIds
<1>16. CASE k = 19 /\ r = Notification("n1", "dev1")
  <2>1. r.of = {Ref("user", "dev1")}
    BY <1>16 DEF Row, Task, Log, Notification
  <2>2. QED  BY <1>16, <2>1, SampleIds
<1>17. CASE k = 19 /\ r = Notification("n2", "pm1")
  <2>1. r.of = {Ref("user", "pm1")}
    BY <1>17 DEF Row, Task, Log, Notification
  <2>2. QED  BY <1>17, <2>1, SampleIds
<1>18. Place(k, st, r)
  BY SampleRows
<1>19. QED  BY <1>18, <1>1, <1>2, <1>3, <1>4, <1>5, <1>6, <1>7, <1>8, <1>9, <1>10, <1>11, <1>12,
               <1>13, <1>14, <1>15, <1>16, <1>17 DEF Place

\* A name is of one row of the sample.
LEMMA SampleNames ==
    ASSUME NEW k \in 7..19, NEW st \in Phases[k], NEW r \in st.rows,
           NEW j \in 7..19, NEW other \in Phases[j], NEW p \in other.rows,
           r.id[2] = p.id[2]
    PROVE  k = j /\ st = other /\ r = p
<1>1. Place(k, st, r) /\ Place(j, other, p)
  BY SampleRows
<1>2. QED  BY ONLY <1>1, r.id[2] = p.id[2] DEF Place
-------------------------------------------------------------------------------
\* The references a row must have to a row of each of these tables, and may have.
Needs ==
    [user |-> {}, client |-> {}, project |-> {"client", "user"}, task |-> {"project"},
     activityLog |-> {"task", "project", "user"}, notification |-> {"user"}]
May ==
    [user |-> {}, client |-> {}, project |-> {"client", "user"}, task |-> {"project", "user"},
     activityLog |-> {"task", "project", "user"}, notification |-> {"user", "task"}]

Tables == {"user", "client", "project", "task", "activityLog", "notification"}
RowIds == Tables \X (Names \cup Written) \X Nat
RowType == [id : RowIds, of : SUBSET RowIds, status : Statuses \cup {""}, at : Int]

Whole(r) ==
    /\ \A table \in Needs[Table(r.id)] : \E id \in r.of : Table(id) = table
    /\ \A id \in r.of : Table(id) \in May[Table(r.id)]

\* A database that obeys its keys: an id is of one row, and every reference has its row.
Sound(D) ==
    /\ D \subseteq RowType
    /\ \A r, p \in D : r.id = p.id => r = p
    /\ \A r \in D : Whole(r)
    /\ \A r \in D : \A id \in r.of : \E p \in D : p.id = id

TypeOK ==
    /\ script \in {"none", "running", "done", "refused", "killed"}
    /\ run \in Nat
    /\ phase \in 0..19

Control ==
    /\ script = "running" => phase \in 1..19 /\ waiting \subseteq Phases[phase] /\ waiting # {}
    /\ script = "done" => phase = 19 /\ waiting = {}

\* The wipes of projects and clients leave none behind.
Swept ==
    /\ script = "running" /\ phase \in 5..6 /\ "project" \notin meanwhile => Rows("project") = {}
    /\ script = "running" /\ phase = 6 => Rows("client") = {}

\* Every table has been wiped, and the sample is being written or is complete.
Writing == (script = "running" /\ phase >= 7) \/ script = "done"

Answered(k, st) == k = phase => st \notin waiting

\* A row of a statement of the script that has been answered.
Sampled(a) == \E k \in 7..phase : \E st \in Phases[k] : Answered(k, st) /\ a \in st.rows

\* The rows are the answered ones of this run's sample and the application's, which writes no
\* users, and no answered row is missing.
Fresh ==
    /\ \A r \in db : r.id[3] = run
    /\ \A r \in db : \/ r.id[2] \in Written /\ Table(r.id) # "user"
                     \/ \E k \in 7..phase : \E st \in Phases[k] :
                          Answered(k, st) /\ \E a \in st.rows : a.id = r.id
    /\ \A k \in 7..phase : \A st \in Phases[k] :
         Answered(k, st) => \A a \in st.rows : \E r \in db : r.id = a.id

TrailOf(t) == {r \in Rows("activityLog") : t.id \in r.of}

\* The log rows are the sample's, as they were written, and the moves'.
Logged ==
    /\ \A r \in Rows("activityLog") : \/ r.id[2] \in Written /\ r.at > 0
                                      \/ Sampled(r)
    /\ \A k \in 7..phase : \A st \in Phases[k] :
         Answered(k, st) => \A a \in st.rows : Table(a.id) = "activityLog" => a \in db

\* A task has been moved, and its last move leads to its status, or is as it was written.
Moved(t) ==
    \E n \in TrailOf(t) : /\ n.at > 0 /\ n.status = t.status
                          /\ \A x \in TrailOf(t) : x # n => x.at < n.at
Unmoved(t) ==
    /\ \A x \in TrailOf(t) : x.at <= 0
    /\ \/ t.id[2] \in Written /\ t.status = "TODO"
       \/ Sampled(t)

Trailed == Logged /\ \A t \in Rows("task") : Moved(t) \/ Unmoved(t)
-------------------------------------------------------------------------------
\* What a row made of well-typed parts is.
LEMMA MadeRow ==
    ASSUME NEW id \in RowIds, NEW of \in SUBSET RowIds, NEW status \in Statuses \cup {""},
           NEW at \in Int, NEW r, r = [id |-> id, of |-> of, status |-> status, at |-> at]
    PROVE  r \in RowType /\ r.id = id /\ r.of = of /\ r.status = status /\ r.at = at
  BY DEF RowType

LEMMA MadeId ==
    ASSUME NEW table \in Tables, NEW name \in Names \cup Written, NEW n \in Nat,
           NEW id, id = <<table, name, n>>
    PROVE  id \in RowIds /\ id[1] = table /\ id[2] = name /\ id[3] = n
  BY DEF RowIds

\* The references that make a row of each table whole.
LEMMA WholeRows ==
    ASSUME NEW r
    PROVE  /\ r.id[1] \in {"user", "client"} /\ r.of = {} => Whole(r)
           /\ \A c, u : r.id[1] = "project" /\ r.of = {c, u} /\ c[1] = "client" /\ u[1] = "user"
                        => Whole(r)
           /\ \A p, u : r.id[1] = "task" /\ r.of = {p, u} /\ p[1] = "project" /\ u[1] = "user"
                        => Whole(r)
           /\ \A p : r.id[1] = "task" /\ r.of = {p} /\ p[1] = "project" => Whole(r)
           /\ \A x, p, u : /\ r.id[1] = "activityLog" /\ r.of = {x, p, u}
                          /\ x[1] = "task" /\ p[1] = "project" /\ u[1] = "user"
                          => Whole(r)
           /\ \A u : r.id[1] = "notification" /\ r.of = {u} /\ u[1] = "user" => Whole(r)
           /\ \A u, x : r.id[1] = "notification" /\ r.of = {u, x} /\ u[1] = "user" /\ x[1] = "task"
                        => Whole(r)
  BY DEF Whole, Needs, May, Table

\* A row of the sample is whole, of this run, and not later than now.
SampleRow(r) ==
    /\ r \in RowType /\ Whole(r)
    /\ r.id[2] \in Names /\ r.id[3] = run /\ r.at <= 0

LEMMA SampleRef ==
    ASSUME run \in Nat, NEW table \in Tables, NEW name \in Names
    PROVE  /\ Ref(table, name) \in RowIds /\ Ref(table, name)[1] = table
           /\ Ref(table, name)[2] = name /\ Ref(table, name)[3] = run
  BY MadeId DEF Ref

LEMMA SamplePlain ==
    ASSUME run \in Nat, NEW table \in {"user", "client"}, NEW name \in Names,
           NEW r, r = Row(table, name, {}, "", 0)
    PROVE  SampleRow(r)
<1>1. r = [id |-> Ref(table, name), of |-> {}, status |-> "", at |-> 0]
  BY DEF Row, Ref
<1>2. Ref(table, name) \in RowIds /\ Ref(table, name)[1] = table
      /\ Ref(table, name)[2] = name /\ Ref(table, name)[3] = run
  BY ONLY run \in Nat, table \in {"user", "client"}, name \in Names, SampleRef DEF Tables
<1>3. r \in RowType /\ r.id = Ref(table, name) /\ r.of = {} /\ r.at = 0
  <2>1. {} \in SUBSET RowIds /\ "" \in Statuses \cup {""} /\ 0 \in Int
    BY ONLY TRUE
  <2>2. QED  BY ONLY <1>1, <1>2, <2>1 DEF RowType
<1>4. Whole(r)
  BY ONLY <1>2, <1>3, table \in {"user", "client"}, WholeRows
<1>5. QED  BY ONLY <1>2, <1>3, <1>4, name \in Names DEF SampleRow

LEMMA SampleProject ==
    ASSUME run \in Nat, NEW name \in Names, NEW client \in Names, NEW pm \in Names,
           NEW r, r = Row("project", name, {Ref("client", client), Ref("user", pm)}, "", 0)
    PROVE  SampleRow(r)
<1> DEFINE i0 == Ref("project", name)
           i1 == Ref("client", client)
           i2 == Ref("user", pm)
<1>1. r = [id |-> i0, of |-> {i1, i2}, status |-> "", at |-> 0]
  BY DEF Row, Ref, Task, Log, Notification
<1>2. /\ i0 \in RowIds /\ i0[1] = "project" /\ i0[2] = name /\ i0[3] = run
      /\ i1 \in RowIds /\ i1[1] = "client" /\ i1[2] = client /\ i1[3] = run
      /\ i2 \in RowIds /\ i2[1] = "user" /\ i2[2] = pm /\ i2[3] = run
  BY ONLY run \in Nat, name \in Names, client \in Names, pm \in Names, SampleRef DEF Tables
<1> HIDE DEF i0, i1, i2
<1>3. r \in RowType /\ r.id = i0 /\ r.of = {i1, i2} /\ r.at = 0
  <2>1. {i1, i2} \in SUBSET RowIds /\ "" \in Statuses \cup {""} /\ 0 \in Int
    <3>1. {i1, i2} \in SUBSET RowIds
      BY ONLY <1>2
    <3>2. "" \in Statuses \cup {""}
      BY ONLY TRUE
    <3>3. 0 \in Int
      BY ONLY TRUE
    <3>4. QED  BY ONLY <3>1, <3>2, <3>3
  <2> DEFINE of == {i1, i2}
  <2> HIDE DEF of
  <2>2. of \in SUBSET RowIds /\ r = [id |-> i0, of |-> of, status |-> "", at |-> 0]
    BY ONLY <1>1, <2>1 DEF of
  <2>3. r \in RowType /\ r.id = i0 /\ r.of = of /\ r.at = 0
    BY ONLY <1>2, <2>1, <2>2 DEF RowType
  <2>4. QED  BY ONLY <2>3 DEF of
<1>4. Whole(r)
  BY ONLY <1>2, <1>3, WholeRows
<1>5. QED  BY ONLY <1>2, <1>3, <1>4, name \in Names DEF SampleRow

LEMMA SampleTask ==
    ASSUME run \in Nat, NEW name \in Names, NEW project \in Names, NEW dev \in Names,
           NEW status \in Statuses, NEW r, r = Task(name, project, dev, status)
    PROVE  SampleRow(r)
<1> DEFINE i0 == Ref("task", name)
           i1 == Ref("project", project)
           i2 == Ref("user", dev)
<1>1. r = [id |-> i0, of |-> {i1, i2}, status |-> status, at |-> 0]
  BY DEF Row, Ref, Task, Log, Notification
<1>2. /\ i0 \in RowIds /\ i0[1] = "task" /\ i0[2] = name /\ i0[3] = run
      /\ i1 \in RowIds /\ i1[1] = "project" /\ i1[2] = project /\ i1[3] = run
      /\ i2 \in RowIds /\ i2[1] = "user" /\ i2[2] = dev /\ i2[3] = run
  BY ONLY run \in Nat, name \in Names, project \in Names, dev \in Names, SampleRef DEF Tables
<1> HIDE DEF i0, i1, i2
<1>3. r \in RowType /\ r.id = i0 /\ r.of = {i1, i2} /\ r.at = 0
  <2>1. {i1, i2} \in SUBSET RowIds /\ status \in Statuses \cup {""} /\ 0 \in Int
    <3>1. {i1, i2} \in SUBSET RowIds
      BY ONLY <1>2
    <3>2. status \in Statuses \cup {""}
      BY ONLY TRUE, status \in Statuses
    <3>3. 0 \in Int
      BY ONLY TRUE
    <3>4. QED  BY ONLY <3>1, <3>2, <3>3
  <2> DEFINE of == {i1, i2}
  <2> HIDE DEF of
  <2>2. of \in SUBSET RowIds /\ r = [id |-> i0, of |-> of, status |-> status, at |-> 0]
    BY ONLY <1>1, <2>1 DEF of
  <2>3. r \in RowType /\ r.id = i0 /\ r.of = of /\ r.at = 0
    BY ONLY <1>2, <2>1, <2>2 DEF RowType
  <2>4. QED  BY ONLY <2>3 DEF of
<1>4. Whole(r)
  BY ONLY <1>2, <1>3, WholeRows
<1>5. QED  BY ONLY <1>2, <1>3, <1>4, name \in Names DEF SampleRow

LEMMA SampleLog ==
    ASSUME run \in Nat, NEW name \in Names, NEW task \in Names, NEW project \in Names,
           NEW dev \in Names,
           NEW status \in Statuses, NEW at \in Int, at <= 0,
           NEW r, r = Log(name, task, project, dev, status, at)
    PROVE  SampleRow(r)
<1> DEFINE i0 == Ref("activityLog", name)
           i1 == Ref("task", task)
           i2 == Ref("project", project)
           i3 == Ref("user", dev)
<1>1. r = [id |-> i0, of |-> {i1, i2, i3}, status |-> status, at |-> at]
  BY DEF Row, Ref, Task, Log, Notification
<1>2. /\ i0 \in RowIds /\ i0[1] = "activityLog" /\ i0[2] = name /\ i0[3] = run
      /\ i1 \in RowIds /\ i1[1] = "task" /\ i1[2] = task /\ i1[3] = run
      /\ i2 \in RowIds /\ i2[1] = "project" /\ i2[2] = project /\ i2[3] = run
      /\ i3 \in RowIds /\ i3[1] = "user" /\ i3[2] = dev /\ i3[3] = run
  BY ONLY run \in Nat, name \in Names, task \in Names, project \in Names, dev \in Names,
     SampleRef DEF Tables
<1> HIDE DEF i0, i1, i2, i3
<1>3. r \in RowType /\ r.id = i0 /\ r.of = {i1, i2, i3} /\ r.at = at
  <2>1. {i1, i2, i3} \in SUBSET RowIds /\ status \in Statuses \cup {""} /\ at \in Int
    <3>1. {i1, i2, i3} \in SUBSET RowIds
      BY ONLY <1>2
    <3>2. status \in Statuses \cup {""}
      BY ONLY TRUE, status \in Statuses
    <3>3. at \in Int
      BY ONLY TRUE, at \in Int
    <3>4. QED  BY ONLY <3>1, <3>2, <3>3
  <2> DEFINE of == {i1, i2, i3}
  <2> HIDE DEF of
  <2>2. of \in SUBSET RowIds /\ r = [id |-> i0, of |-> of, status |-> status, at |-> at]
    BY ONLY <1>1, <2>1 DEF of
  <2>3. r \in RowType /\ r.id = i0 /\ r.of = of /\ r.at = at
    BY ONLY <1>2, <2>1, <2>2 DEF RowType
  <2>4. QED  BY ONLY <2>3 DEF of
<1>4. Whole(r)
  BY ONLY <1>2, <1>3, WholeRows
<1>5. QED  BY ONLY <1>2, <1>3, <1>4, name \in Names, at <= 0 DEF SampleRow

LEMMA SampleNotification ==
    ASSUME run \in Nat, NEW name \in Names, NEW user \in Names,
           NEW r, r = Notification(name, user)
    PROVE  SampleRow(r)
<1> DEFINE i0 == Ref("notification", name)
           i1 == Ref("user", user)
<1>1. r = [id |-> i0, of |-> {i1}, status |-> "", at |-> 0]
  BY DEF Row, Ref, Task, Log, Notification
<1>2. /\ i0 \in RowIds /\ i0[1] = "notification" /\ i0[2] = name /\ i0[3] = run
      /\ i1 \in RowIds /\ i1[1] = "user" /\ i1[2] = user /\ i1[3] = run
  BY ONLY run \in Nat, name \in Names, user \in Names, SampleRef DEF Tables
<1> HIDE DEF i0, i1
<1>3. r \in RowType /\ r.id = i0 /\ r.of = {i1} /\ r.at = 0
  <2>1. {i1} \in SUBSET RowIds /\ "" \in Statuses \cup {""} /\ 0 \in Int
    <3>1. {i1} \in SUBSET RowIds
      BY ONLY <1>2
    <3>2. "" \in Statuses \cup {""}
      BY ONLY TRUE
    <3>3. 0 \in Int
      BY ONLY TRUE
    <3>4. QED  BY ONLY <3>1, <3>2, <3>3
  <2> DEFINE of == {i1}
  <2> HIDE DEF of
  <2>2. of \in SUBSET RowIds /\ r = [id |-> i0, of |-> of, status |-> "", at |-> 0]
    BY ONLY <1>1, <2>1 DEF of
  <2>3. r \in RowType /\ r.id = i0 /\ r.of = of /\ r.at = 0
    BY ONLY <1>2, <2>1, <2>2 DEF RowType
  <2>4. QED  BY ONLY <2>3 DEF of
<1>4. Whole(r)
  BY ONLY <1>2, <1>3, WholeRows
<1>5. QED  BY ONLY <1>2, <1>3, <1>4, name \in Names DEF SampleRow

LEMMA SampleShape ==
    ASSUME run \in Nat, NEW k \in 7..19, NEW st \in Phases[k], NEW r \in st.rows
    PROVE  SampleRow(r)
<1>1. Place(k, st, r)
  BY SampleRows
<1>2. CASE r = Row("user", "admin", {}, "", 0)
  <2>1. "admin" \in Names
    BY ONLY TRUE DEF Names, Statuses
  <2>2. QED  BY ONLY run \in Nat, <1>2, <2>1, SamplePlain
<1>3. CASE r = Row("user", "pm1", {}, "", 0)
  <2>1. "pm1" \in Names
    BY ONLY TRUE DEF Names, Statuses
  <2>2. QED  BY ONLY run \in Nat, <1>3, <2>1, SamplePlain
<1>4. CASE r = Row("user", "pm2", {}, "", 0)
  <2>1. "pm2" \in Names
    BY ONLY TRUE DEF Names, Statuses
  <2>2. QED  BY ONLY run \in Nat, <1>4, <2>1, SamplePlain
<1>5. CASE r = Row("user", "dev1", {}, "", 0)
  <2>1. "dev1" \in Names
    BY ONLY TRUE DEF Names, Statuses
  <2>2. QED  BY ONLY run \in Nat, <1>5, <2>1, SamplePlain
<1>6. CASE r = Row("user", "dev2", {}, "", 0)
  <2>1. "dev2" \in Names
    BY ONLY TRUE DEF Names, Statuses
  <2>2. QED  BY ONLY run \in Nat, <1>6, <2>1, SamplePlain
<1>7. CASE r = Row("client", "c1", {}, "", 0)
  <2>1. "c1" \in Names
    BY ONLY TRUE DEF Names, Statuses
  <2>2. QED  BY ONLY run \in Nat, <1>7, <2>1, SamplePlain
<1>8. CASE r = Row("client", "c2", {}, "", 0)
  <2>1. "c2" \in Names
    BY ONLY TRUE DEF Names, Statuses
  <2>2. QED  BY ONLY run \in Nat, <1>8, <2>1, SamplePlain
<1>9. CASE r = Row("project", "p1", {Ref("client", "c1"), Ref("user", "pm1")}, "", 0)
  <2>1. "c1" \in Names /\ "p1" \in Names /\ "pm1" \in Names
    BY ONLY TRUE DEF Names, Statuses
  <2>2. QED  BY ONLY run \in Nat, <1>9, <2>1, SampleProject
<1>10. CASE r = Row("project", "p2", {Ref("client", "c2"), Ref("user", "pm2")}, "", 0)
  <2>1. "c2" \in Names /\ "p2" \in Names /\ "pm2" \in Names
    BY ONLY TRUE DEF Names, Statuses
  <2>2. QED  BY ONLY run \in Nat, <1>10, <2>1, SampleProject
<1>11. CASE r = Task("t1", "p1", "dev1", "DONE")
  <2>1. "dev1" \in Names /\ "p1" \in Names /\ "t1" \in Names /\ "DONE" \in Statuses
    BY ONLY TRUE DEF Names, Statuses
  <2>2. QED  BY ONLY run \in Nat, <1>11, <2>1, SampleTask
<1>12. CASE r = Log("l1", "t1", "p1", "dev1", "IN_PROGRESS", -3)
  <2>1. /\ "dev1" \in Names /\ "l1" \in Names /\ "p1" \in Names /\ "t1" \in Names
        /\ "IN_PROGRESS" \in Statuses
    BY ONLY TRUE DEF Names, Statuses
  <2>2. QED  BY ONLY run \in Nat, <1>12, <2>1, SampleLog
<1>13. CASE r = Log("l2", "t1", "p1", "dev1", "DONE", -1)
  <2>1. /\ "dev1" \in Names /\ "l2" \in Names /\ "p1" \in Names /\ "t1" \in Names
        /\ "DONE" \in Statuses
    BY ONLY TRUE DEF Names, Statuses
  <2>2. QED  BY ONLY run \in Nat, <1>13, <2>1, SampleLog
<1>14. CASE r = Task("t2", "p1", "dev2", "IN_PROGRESS")
  <2>1. "dev2" \in Names /\ "p1" \in Names /\ "t2" \in Names /\ "IN_PROGRESS" \in Statuses
    BY ONLY TRUE DEF Names, Statuses
  <2>2. QED  BY ONLY run \in Nat, <1>14, <2>1, SampleTask
<1>15. CASE r = Log("l3", "t2", "p1", "dev2", "IN_PROGRESS", -3)
  <2>1. /\ "dev2" \in Names /\ "l3" \in Names /\ "p1" \in Names /\ "t2" \in Names
        /\ "IN_PROGRESS" \in Statuses
    BY ONLY TRUE DEF Names, Statuses
  <2>2. QED  BY ONLY run \in Nat, <1>15, <2>1, SampleLog
<1>16. CASE r = Task("t3", "p2", "dev2", "TODO")
  <2>1. "dev2" \in Names /\ "p2" \in Names /\ "t3" \in Names /\ "TODO" \in Statuses
    BY ONLY TRUE DEF Names, Statuses
  <2>2. QED  BY ONLY run \in Nat, <1>16, <2>1, SampleTask
<1>17. CASE r = Notification("n1", "dev1")
  <2>1. "dev1" \in Names /\ "n1" \in Names
    BY ONLY TRUE DEF Names, Statuses
  <2>2. QED  BY ONLY run \in Nat, <1>17, <2>1, SampleNotification
<1>18. CASE r = Notification("n2", "pm1")
  <2>1. "n2" \in Names /\ "pm1" \in Names
    BY ONLY TRUE DEF Names, Statuses
  <2>2. QED  BY ONLY run \in Nat, <1>18, <2>1, SampleNotification
<1>19. QED  BY <1>1, <1>2, <1>3, <1>4, <1>5, <1>6, <1>7, <1>8, <1>9, <1>10, <1>11, <1>12, <1>13,
               <1>14, <1>15, <1>16, <1>17, <1>18 DEF Place
-------------------------------------------------------------------------------
\* What hangs on a row that goes with a table goes too: the chains are no longer than two.
LEMMA GoneClosed ==
    ASSUME NEW table, NEW p \in Gone(table), NEW r \in db, Refers(r, p, Cascaded)
    PROVE  r \in Gone(table)
<1> DEFINE G == Rows(table)
           O == Orphans(G)
<1>1. Gone(table) = Orphans(O)
  BY DEF Gone
<1>2. CASE p \in O
  BY <1>1, <1>2 DEF Orphans
<1>3. CASE p \notin O
  <2>1. PICK q \in O : Refers(p, q, Cascaded)
    BY <1>1, <1>3 DEF Orphans
  <2>2. p \in db
    BY <1>1, <1>3 DEF Orphans
  <2>3. q \notin G
    BY <1>3, <2>1, <2>2 DEF Orphans
  <2>4. PICK s \in G : Refers(q, s, Cascaded)
    BY <2>3 DEF Orphans
  <2>5. /\ <<Table(r.id), Table(p.id)>> \in Cascaded
        /\ <<Table(p.id), Table(q.id)>> \in Cascaded
        /\ <<Table(q.id), Table(s.id)>> \in Cascaded
    BY <2>1, <2>4 DEF Refers
  <2>6. FALSE
    BY ONLY <2>5 DEF Cascaded
  <2>7. QED  BY <2>6
<1>4. QED  BY <1>2, <1>3

\* A reference a row needs is by a key that restricts or cascades.
LEMMA NeedsLinked ==
    ASSUME NEW table \in Tables, NEW need \in Needs[table]
    PROVE  <<table, need>> \in Restricted \/ <<table, need>> \in Cascaded
  BY DEF Tables, Needs, Restricted, Cascaded

LEMMA RowParts ==
    ASSUME NEW r \in RowType
    PROVE  /\ r.id \in RowIds /\ r.of \in SUBSET RowIds
           /\ r.status \in Statuses \cup {""} /\ r.at \in Int /\ Table(r.id) \in Tables
           /\ r.id[1] \in Tables /\ r.id[2] \in Names \cup Written /\ r.id[3] \in Nat
  BY DEF RowType, RowIds, Table

\* The ids of the rows that go with a table.
GoneIds(table) == {p.id : p \in Gone(table)}

\* What a wipe leaves of a row that stays.
LEMMA WipeLeaves ==
    ASSUME Sound(db), NEW table, NEW x \in Executed(Wipe(table))
    PROVE  \E r \in db : /\ r.id \notin GoneIds(table) /\ x \in RowType
                         /\ x.id = r.id /\ x.of = r.of \ GoneIds(table)
                         /\ x.status = r.status /\ x.at = r.at
<1>1. PICK r \in db : r.id \notin GoneIds(table) /\ x = [r EXCEPT !.of = @ \ GoneIds(table)]
  BY DEF Executed, Wipe, GoneIds
<1>2. r \in RowType
  BY DEF Sound
<1>3. /\ x \in RowType /\ x.id = r.id /\ x.of = r.of \ GoneIds(table)
      /\ x.status = r.status /\ x.at = r.at
  BY <1>1, <1>2 DEF RowType
<1>4. QED  BY <1>1, <1>3

\* Every row that does not go stays.
LEMMA WipeKeeps ==
    ASSUME Sound(db), NEW table, NEW r \in db, r.id \notin GoneIds(table)
    PROVE  \E x \in Executed(Wipe(table)) : x.id = r.id
<1> DEFINE x == [r EXCEPT !.of = @ \ GoneIds(table)]
<1>1. x \in Executed(Wipe(table))
  BY DEF Executed, Wipe, GoneIds
<1>2. r \in RowType
  BY DEF Sound
<1>3. x.id = r.id
  BY <1>2 DEF RowType
<1>4. QED  BY <1>1, <1>3

\* A wipe the database allows leaves a sound database.
LEMMA WipeSound ==
    ASSUME Sound(db), NEW table, Allowed(Wipe(table))
    PROVE  Sound(Executed(Wipe(table)))
<1> DEFINE D == Executed(Wipe(table))
<1>1. D \subseteq RowType
  BY WipeLeaves
<1>2. ASSUME NEW x \in D, NEW y \in D, x.id = y.id PROVE x = y
  <2>1. PICK r \in db : /\ r.id \notin GoneIds(table) /\ x = [r EXCEPT !.of = @ \ GoneIds(table)]
    BY DEF Executed, Wipe, GoneIds
  <2>2. PICK p \in db : /\ p.id \notin GoneIds(table) /\ y = [p EXCEPT !.of = @ \ GoneIds(table)]
    BY DEF Executed, Wipe, GoneIds
  <2>3. r \in RowType /\ p \in RowType
    BY DEF Sound
  <2>4. x.id = r.id /\ y.id = p.id
    BY <2>1, <2>2, <2>3 DEF RowType
  <2>5. r = p
    BY <1>2, <2>4 DEF Sound
  <2>6. QED  BY <2>1, <2>2, <2>5
<1>3. ASSUME NEW x \in D PROVE Whole(x)
  <2>1. PICK r \in db : /\ r.id \notin GoneIds(table)
                        /\ x.id = r.id /\ x.of = r.of \ GoneIds(table)
    BY WipeLeaves
  <2>2. Whole(r) /\ Table(r.id) \in Tables
    BY RowParts DEF Sound
  <2>3. ASSUME NEW need \in Needs[Table(r.id)] PROVE \E id \in x.of : Table(id) = need
    <3>1. PICK id \in r.of : Table(id) = need
      BY <2>2 DEF Whole
    <3>2. ASSUME NEW p \in Gone(table), p.id = id PROVE FALSE
      <4>1. CASE <<Table(r.id), need>> \in Restricted
        BY <3>1, <3>2, <4>1 DEF Allowed, Wipe, Refers
      <4>2. CASE <<Table(r.id), need>> \in Cascaded
        <5>1. Refers(r, p, Cascaded)
          BY <3>1, <3>2, <4>2 DEF Refers
        <5>2. r \in Gone(table)
          BY <5>1, GoneClosed
        <5>3. QED  BY <2>1, <5>2 DEF GoneIds
      <4>3. QED  BY <2>2, <2>3, <4>1, <4>2, NeedsLinked
    <3>3. id \notin GoneIds(table)
      BY <3>2 DEF GoneIds
    <3>4. QED  BY <2>1, <3>1, <3>3
  <2>4. \A id \in x.of : Table(id) \in May[Table(x.id)]
    BY <2>1, <2>2 DEF Whole
  <2>5. QED  BY <2>1, <2>3, <2>4 DEF Whole
<1>4. ASSUME NEW x \in D, NEW id \in x.of PROVE \E y \in D : y.id = id
  <2>1. PICK r \in db : x.of = r.of \ GoneIds(table)
    BY WipeLeaves
  <2>2. PICK p \in db : p.id = id
    BY <1>4, <2>1 DEF Sound
  <2>3. QED  BY <1>4, <2>1, <2>2, WipeKeeps
<1>5. QED  BY ONLY <1>1, <1>2, <1>3, <1>4 DEF Sound

\* A wipe leaves no row of its table, and no id that was not there.
LEMMA WipeEmpties ==
    ASSUME Sound(db), NEW table, NEW x \in Executed(Wipe(table))
    PROVE  Table(x.id) # table /\ \E r \in db : r.id = x.id
<1>1. PICK r \in db : r.id \notin GoneIds(table) /\ x.id = r.id
  BY WipeLeaves
<1>2. Rows(table) \subseteq Gone(table)
  BY DEF Gone, Orphans
<1>3. QED  BY <1>1, <1>2 DEF GoneIds, Rows

\* The wipe of the users, after that of the clients, leaves nothing: every other row needs one
\* of the rows that are gone.
LEMMA UserWipeEmpties ==
    ASSUME Sound(db), Rows("client") = {}, Allowed(Wipe("user"))
    PROVE  Executed(Wipe("user")) = {}
<1> DEFINE D == Executed(Wipe("user"))
<1>1. Sound(D)
  BY WipeSound
<1>2. \A x \in D : Table(x.id) # "user" /\ Table(x.id) # "client"
  BY WipeEmpties DEF Rows
<1> HIDE DEF D
<1>3. ASSUME NEW x \in D, NEW need \in Needs[Table(x.id)] PROVE \E y \in D : Table(y.id) = need
  <2>1. PICK id \in x.of : Table(id) = need
    BY <1>1, <1>3 DEF Sound, Whole
  <2>2. PICK y \in D : y.id = id
    BY <1>1, <2>1 DEF Sound
  <2>3. QED  BY <2>1, <2>2
<1>4. \A x \in D : Table(x.id) # "project"
  <2>1. "user" \in Needs["project"]
    BY DEF Needs
  <2>2. QED  BY <1>2, <1>3, <2>1
<1>5. \A x \in D : Table(x.id) # "task"
  <2>1. "project" \in Needs["task"]
    BY DEF Needs
  <2>2. QED  BY <1>3, <1>4, <2>1
<1>6. \A x \in D : Table(x.id) # "activityLog" /\ Table(x.id) # "notification"
  <2>1. "user" \in Needs["activityLog"] /\ "user" \in Needs["notification"]
    BY DEF Needs
  <2>2. QED  BY <1>2, <1>3, <2>1
<1>7. \A x \in D : Table(x.id) \in Tables
  BY <1>1, RowParts DEF Sound
<1>8. D = {}
  BY <1>2, <1>4, <1>5, <1>6, <1>7 DEF Tables
<1>9. QED  BY <1>8 DEF D

\* Whole rows with new ids that hang on rows that are there leave a sound database.
LEMMA AddSound ==
    ASSUME NEW D, Sound(D), NEW N \in SUBSET RowType,
           \A r \in N : Whole(r) /\ \A id \in r.of : \E p \in D : p.id = id,
           \A r \in N : \A p \in D : r.id # p.id,
           \A r, p \in N : r.id = p.id => r = p
    PROVE  Sound(D \cup N)
<1>1. D \cup N \subseteq RowType
  BY DEF Sound
<1>2. \A r, p \in D \cup N : r.id = p.id => r = p
  BY DEF Sound
<1>3. \A r \in D \cup N : Whole(r)
  BY DEF Sound
<1>4. \A r \in D \cup N : \A id \in r.of : \E p \in D \cup N : p.id = id
  BY DEF Sound
<1>5. QED  BY ONLY <1>1, <1>2, <1>3, <1>4 DEF Sound
-------------------------------------------------------------------------------
\* The wipes in their order.
WipeOrder == <<"notification", "activityLog", "task", "project", "client", "user">>

LEMMA WipePhases ==
    ASSUME NEW k \in 1..6
    PROVE  Phases[k] = {Wipe(WipeOrder[k])}
<1>1. k = 1 \/ k = 2 \/ k = 3 \/ k = 4 \/ k = 5 \/ k = 6
  OBVIOUS
<1>2. QED  BY <1>1, PhasesAre DEF WipeOrder

\* Rows of clients and users go with the wipe of their own table alone.
LEMMA GoneTables ==
    ASSUME NEW table, NEW p \in Gone(table), Table(p.id) \in {"client", "user"}
    PROVE  Table(p.id) = table
<1>1. ASSUME NEW q, <<Table(p.id), Table(q.id)>> \in Cascaded PROVE FALSE
  BY <1>1 DEF Cascaded
<1>2. \A q : ~Refers(p, q, Cascaded)
  BY <1>1 DEF Refers
<1>3. QED  BY <1>2 DEF Gone, Orphans, Rows

\* The database allows every wipe, that of clients and users once there is no project.
LEMMA WipesAllowed ==
    ASSUME Sound(db), NEW table, table \in {"client", "user"} => Rows("project") = {}
    PROVE  Allowed(Wipe(table))
<1>1. ASSUME NEW r \in db, NEW p \in Gone(table), Refers(r, p, Restricted) PROVE FALSE
  <2>1. <<Table(r.id), Table(p.id)>> \in Restricted
    BY <1>1 DEF Refers
  <2>2. /\ Table(p.id) \in {"client", "user"}
        /\ Table(r.id) = "project" \/ Table(r.id) = "activityLog"
    BY ONLY <2>1 DEF Restricted
  <2>3. Rows("project") = {}
    BY <2>2, GoneTables
  <2>4. Table(r.id) # "project"
    BY <2>3 DEF Rows
  <2>5. "project" \in Needs["activityLog"]
    BY DEF Needs
  <2>6. PICK id \in r.of : Table(id) = "project"
    BY <2>2, <2>4, <2>5 DEF Sound, Whole
  <2>7. PICK q \in db : q.id = id
    BY <2>6 DEF Sound
  <2>8. QED  BY <2>3, <2>6, <2>7 DEF Rows
<1>2. QED  BY <1>1 DEF Allowed, Wipe

\* The database allows every statement that writes the sample: the rows its rows refer to
\* were written by an earlier phase, and its users are new.
LEMMA CreatesAllowed ==
    ASSUME TypeOK, Control, Fresh, script = "running", phase \in 7..19, NEW st \in waiting
    PROVE  Allowed(st)
<1>1. st \in Phases[phase]
  BY DEF Control
<1>2. st.op = "create"
  BY <1>1, PhaseKinds
<1>3. ASSUME NEW r \in st.rows, NEW id \in r.of PROVE \E p \in db : p.id = id
  <2>1. PICK j \in 7..(phase - 1) : InSample(j, id)
    BY <1>1, EarlierRefs
  <2>2. PICK other \in Phases[j] : \E p \in other.rows : p.id = id
    BY <2>1 DEF InSample
  <2>3. j \in 7..phase /\ Answered(j, other)
    BY <2>1 DEF Answered
  <2>4. QED  BY <2>2, <2>3 DEF Fresh
<1>4. ASSUME NEW r \in st.rows, Table(r.id) = "user", NEW u \in Rows("user"), u.id[2] = r.id[2]
      PROVE  FALSE
  <2>1. SampleRow(r)
    BY <1>1, SampleShape DEF TypeOK
  <2>2. u \in db /\ Table(u.id) = "user"
    BY DEF Rows
  <2>3. PICK k \in 7..phase : \E other \in Phases[k] :
          Answered(k, other) /\ \E a \in other.rows : a.id = u.id
    BY <2>2 DEF Fresh
  <2>4. PICK other \in Phases[k] : Answered(k, other) /\ \E a \in other.rows : a.id = u.id
    BY <2>3
  <2>5. PICK a \in other.rows : a.id = u.id
    BY <2>4
  <2>6. k \in 7..19
    OBVIOUS
  <2>7. k = phase /\ other = st
    BY <1>1, <1>4, <2>5, <2>6, SampleNames
  <2>8. QED  BY <2>4, <2>7 DEF Answered
<1>5. QED  BY <1>2, <1>3, <1>4 DEF Allowed

\* No log row is later than some number, so that Now is later than all of them.
Bounded == \E n \in Nat : \A r \in db : r.at <= n

\* The inductive invariant.
IInv ==
    /\ TypeOK
    /\ Sound(db)
    /\ Control
    /\ Swept
    /\ Writing => Fresh /\ Trailed
    /\ SeedIsRepeatable
    /\ Bounded

\* Every statement a run has sent is allowed, unless a project was created while it ran.
LEMMA StatementsAllowed ==
    ASSUME IInv, script = "running", "project" \notin meanwhile, NEW st \in waiting
    PROVE  Allowed(st)
<1>1. st \in Phases[phase] /\ phase \in 1..19
  BY DEF IInv, Control
<1>2. CASE phase \in 1..6
  <2>1. st = Wipe(WipeOrder[phase])
    BY <1>1, <1>2, WipePhases
  <2>2. WipeOrder[phase] \in {"client", "user"} => phase \in 5..6
    <3>1. phase = 1 \/ phase = 2 \/ phase = 3 \/ phase = 4 \/ phase \in 5..6
      BY <1>2
    <3>2. QED  BY <3>1 DEF WipeOrder
  <2>3. phase \in 5..6 => Rows("project") = {}
    BY DEF IInv, Swept
  <2>4. QED  BY <2>1, <2>2, <2>3, WipesAllowed DEF IInv
<1>3. CASE phase \in 7..19
  BY <1>3, CreatesAllowed DEF IInv, Writing
<1>4. QED  BY <1>1, <1>2, <1>3

\* The statements depend on the number of the run alone.
LEMMA PhasesStable == run' = run => Phases' = Phases
<1>1. SUFFICES ASSUME run' = run PROVE Phases' = Phases
  OBVIOUS
<1>2. SampleTasks' = SampleTasks
  BY <1>1 DEF SampleTasks, seedTask, Trail, TrailRow, Row, Ref
<1>3. QED
  BY <1>1, <1>2 DEF Phases, Inserts, User, Client, Project, Notification, Row, Ref
-------------------------------------------------------------------------------
\* A set of naturals that is not empty has a least member.
LEMMA LeastNat ==
    ASSUME NEW T \in SUBSET Nat, T # {}
    PROVE  \E m \in T : \A k \in T : m <= k
<1> DEFINE R == OpToRel(<, Nat)
<1>1. IsWellFoundedOn(R, Nat)
  BY NatLessThanWellFounded
<1>2. PICK m \in T : \A k \in T : <<k, m>> \notin R
  <2> HIDE DEF R
  <2>1. QED  BY <1>1, WFMin
<1>3. \A k \in T : ~(k < m)
  BY <1>2 DEF OpToRel
<1>4. QED  BY <1>3

\* A set of integers with a bound has a greatest member.
LEMMA MaxOf ==
    ASSUME NEW S \in SUBSET Int, S # {}, NEW n \in Nat, \A x \in S : x <= n
    PROVE  Max(S) \in S /\ \A x \in S : x <= Max(S)
<1> DEFINE T == {k \in Nat : n - k \in S}
<1>1. T # {}
  <2>1. PICK x \in S : TRUE
    OBVIOUS
  <2>2. n - x \in Nat /\ n - (n - x) = x
    OBVIOUS
  <2>3. QED  BY <2>1, <2>2
<1>2. PICK m \in T : \A k \in T : m <= k
  BY <1>1, LeastNat
<1>3. n - m \in S /\ \A x \in S : n - m >= x
  <2>1. ASSUME NEW x \in S PROVE n - m >= x
    <3>1. n - x \in Nat /\ n - (n - x) = x
      OBVIOUS
    <3>2. n - x \in T
      BY <3>1
    <3>3. m <= n - x
      BY <1>2, <3>2
    <3>4. QED  BY <3>1, <3>3
  <2>2. QED  BY <2>1
<1>4. \E x \in S : \A y \in S : x >= y
  BY <1>3
<1>5. Max(S) \in S /\ \A y \in S : Max(S) >= y
  BY <1>4 DEF Max
<1>6. QED  BY <1>5

\* A log row written now is later than every row there is.
LEMMA NowIsLast ==
    ASSUME Sound(db), Bounded
    PROVE  Now \in Int /\ Now > 0 /\ \A r \in db : r.at < Now
<1> DEFINE S == {0} \cup {r.at : r \in db}
<1>0. \A r \in db : r.at \in Int
  BY RowParts DEF Sound
<1>1. S \in SUBSET Int
  BY <1>0
<1>2. PICK n \in Nat : \A r \in db : r.at <= n
  BY DEF Bounded
<1>3. \A x \in S : x <= n
  BY <1>2
<1>4. 0 \in S /\ \A r \in db : r.at \in S
  OBVIOUS
<1>5. Now = 1 + Max(S)
  BY DEF Now
<1> HIDE DEF S
<1>6. Max(S) \in S /\ \A x \in S : x <= Max(S)
  BY <1>1, <1>3, <1>4, MaxOf
<1>7. Max(S) \in Int /\ Max(S) >= 0 /\ \A r \in db : r.at <= Max(S)
  BY <1>1, <1>4, <1>6
<1>8. QED  BY <1>0, <1>5, <1>7
-------------------------------------------------------------------------------
\* The answer to a wipe: the run stands before its next phase, with one table less.
LEMMA WipeStep ==
    ASSUME IInv, script = "running", phase \in 1..6, NEW st \in waiting, Allowed(st), Answer(st),
           UNCHANGED <<run, meanwhile>>
    PROVE  IInv'
<1> DEFINE table == WipeOrder[phase]
<1>1. waiting = {st} /\ st = Wipe(table)
  BY WipePhases DEF IInv, Control
<1>2. db' = Executed(Wipe(table)) /\ Allowed(Wipe(table))
  BY <1>1 DEF Answer
<1> HIDE DEF table
<1>3. Len(Phases) = 19
  BY PhasesAre
<1>4. phase' = phase + 1 /\ waiting' = Phases[phase + 1] /\ script' = "running"
  BY <1>1, <1>3 DEF Answer
<1>5. TypeOK'
  BY <1>4 DEF IInv, TypeOK
<1>6. Sound(db')
  BY <1>2, WipeSound DEF IInv
<1>7. Control'
  <2>1. Phases' = Phases
    BY PhasesStable
  <2>2. phase' \in 1..19 /\ waiting' # {}
    BY <1>4, PhaseKinds
  <2>3. QED  BY <1>4, <2>1, <2>2 DEF Control
<1>8. \A x \in db' : Table(x.id) # table /\ \E r \in db : r.id = x.id
  BY <1>2, WipeEmpties DEF IInv
<1>9. Swept'
  <2>1. ASSUME phase' \in 5..6, "project" \notin meanwhile' PROVE Rows("project")' = {}
    <3>1. CASE phase = 4
      <4>1. table = "project"
        BY <3>1 DEF table, WipeOrder
      <4>2. QED  BY <1>8, <4>1 DEF Rows
    <3>2. CASE phase = 5
      <4>1. Rows("project") = {}
        BY <2>1, <3>2 DEF IInv, Swept
      <4>2. QED  BY <1>8, <4>1 DEF Rows
    <3>3. QED  BY <1>4, <2>1, <3>1, <3>2
  <2>2. ASSUME phase' = 6 PROVE Rows("client")' = {}
    <3>1. phase = 5
      BY <1>4, <2>2
    <3>2. table = "client"
      BY <3>1 DEF table, WipeOrder
    <3>3. QED  BY <1>8, <3>2 DEF Rows
  <2>3. QED  BY <2>1, <2>2 DEF Swept
<1>10. Writing' => Fresh' /\ Trailed'
  <2>1. SUFFICES ASSUME Writing' PROVE Fresh' /\ Trailed'
    OBVIOUS
  <2>2. phase = 6 /\ phase' = 7
    BY <1>4, <2>1 DEF Writing
  <2>3. table = "user" /\ Rows("client") = {}
    BY <2>2 DEF table, WipeOrder, IInv, Swept
  <2>4. db' = {}
    BY <1>2, <2>3, UserWipeEmpties DEF IInv
  <2>5. Phases' = Phases
    BY PhasesStable
  <2>6. \A k \in 7..phase' : \A s \in Phases'[k] : ~Answered(k, s)'
    BY <1>4, <2>2, <2>5 DEF Answered
  <2>7. QED  BY <2>4, <2>6 DEF Fresh, Trailed, Logged, Rows
<1>11. SeedIsRepeatable'
  BY <1>4 DEF SeedIsRepeatable
<1>12. Bounded'
  <2>1. PICK n \in Nat : \A r \in db : r.at <= n
    BY DEF IInv, Bounded
  <2>2. \A x \in db' : x.at <= n
    BY <1>2, <2>1, WipeLeaves DEF IInv
  <2>3. QED  BY <2>2 DEF Bounded
<1>13. QED  BY <1>5, <1>6, <1>7, <1>9, <1>10, <1>11, <1>12 DEF IInv

\* What has been answered after the answer to st.
LEMMA AnsweredNext ==
    ASSUME IInv, script = "running", phase \in 7..19, NEW st \in waiting, Answer(st),
           UNCHANGED <<run, meanwhile>>
    PROVE  /\ phase' \in phase..19 /\ Phases' = Phases /\ TypeOK' /\ Control'
           /\ script' \in {"running", "done"}
           /\ \A k \in 7..19 : k = phase => Answered(k, st)'
           /\ \A k \in 7..phase : \A s \in Phases[k] : Answered(k, s) => Answered(k, s)'
           /\ \A k \in 7..phase' : \A s \in Phases[k] :
                Answered(k, s)' => k \in 7..phase /\ (Answered(k, s) \/ s = st)
<1>0. Phases' = Phases /\ Len(Phases) = 19
  BY PhasesStable, PhasesAre
<1>1. waiting \subseteq Phases[phase]
  BY DEF IInv, Control
<1>2. CASE waiting # {st}
  <2>1. waiting' = waiting \ {st} /\ script' = script /\ phase' = phase
    BY <1>2 DEF Answer
  <2>2. waiting' # {} /\ waiting' \subseteq Phases'[phase']
    BY <1>0, <1>1, <1>2, <2>1
  <2>3. TypeOK' /\ Control'
    BY <2>1, <2>2 DEF IInv, TypeOK, Control
  <2>4. QED  BY <1>0, <2>1, <2>3 DEF Answered
<1>3. CASE waiting = {st} /\ phase < 19
  <2>1. waiting' = Phases[phase + 1] /\ script' = script /\ phase' = phase + 1
    BY <1>0, <1>3 DEF Answer
  <2>2. waiting' # {}
    BY <1>3, <2>1, PhaseKinds
  <2>3. TypeOK' /\ Control'
    BY <1>0, <1>3, <2>1, <2>2 DEF IInv, TypeOK, Control
  <2>4. ASSUME NEW k \in 7..phase', NEW s \in Phases[k], Answered(k, s)'
        PROVE  k \in 7..phase /\ (Answered(k, s) \/ s = st)
    <3>1. k # phase'
      BY <2>1, <2>4 DEF Answered
    <3>2. k \in 7..phase
      BY <1>3, <2>1, <3>1
    <3>3. QED  BY <1>3, <3>2 DEF Answered
  <2>5. /\ \A k \in 7..19 : k = phase => Answered(k, st)'
        /\ \A k \in 7..phase : \A s \in Phases[k] : Answered(k, s) => Answered(k, s)'
    BY <1>3, <2>1 DEF Answered
  <2>6. phase' \in phase..19 /\ script' \in {"running", "done"}
    BY <1>3, <2>1
  <2>7. QED  BY ONLY <1>0, <2>3, <2>4, <2>5, <2>6
<1>4. CASE waiting = {st} /\ phase = 19
  <2>1. waiting' = {} /\ script' = "done" /\ phase' = phase
    BY <1>0, <1>4 DEF Answer
  <2>2. TypeOK' /\ Control'
    BY <1>4, <2>1 DEF IInv, TypeOK, Control
  <2>3. QED  BY <1>0, <1>4, <2>1, <2>2 DEF Answered
<1>5. QED  BY <1>2, <1>3, <1>4

\* The answer to a statement that writes rows of the sample.
LEMMA CreateStep ==
    ASSUME IInv, script = "running", phase \in 7..19, NEW st \in waiting, Allowed(st), Answer(st),
           UNCHANGED <<run, meanwhile>>
    PROVE  IInv'
<1>1. st \in Phases[phase] /\ run \in Nat /\ Sound(db) /\ Fresh /\ Trailed
  BY DEF IInv, TypeOK, Control, Writing
<1>2. st.op = "create" /\ db' = db \cup st.rows
  BY <1>1, PhaseKinds DEF Answer, Executed
<1>3. \A r \in st.rows : SampleRow(r)
  BY <1>1, SampleShape
<1>4. ASSUME NEW r \in st.rows, NEW p \in db PROVE r.id # p.id
  <2>1. SUFFICES ASSUME r.id = p.id PROVE FALSE
    OBVIOUS
  <2>2. r.id[2] \notin Written
    BY <1>3, SeedAssumption DEF SampleRow
  <2>3. PICK k \in 7..phase : \E other \in Phases[k] :
          Answered(k, other) /\ \E a \in other.rows : a.id = p.id
    BY <1>1, <2>1, <2>2 DEF Fresh
  <2>4. PICK other \in Phases[k] : Answered(k, other) /\ \E a \in other.rows : a.id = p.id
    BY <2>3
  <2>5. PICK a \in other.rows : a.id = p.id
    BY <2>4
  <2>6. k \in 7..19
    OBVIOUS
  <2>7. k = phase /\ other = st
    BY <1>1, <2>1, <2>5, <2>6, SampleNames
  <2>8. QED  BY <2>4, <2>7 DEF Answered
<1>5. Sound(db')
  <2>1. \A r, p \in st.rows : r.id = p.id => r = p
    BY <1>1, SampleNames
  <2>2. st.rows \in SUBSET RowType /\ \A r \in st.rows : Whole(r)
    BY <1>3 DEF SampleRow
  <2>3. \A r \in st.rows : \A id \in r.of : \E p \in db : p.id = id
    BY <1>2 DEF Allowed
  <2>4. QED  BY <1>1, <1>2, <1>4, <2>1, <2>2, <2>3, AddSound
<1>6. /\ phase' \in phase..19 /\ Phases' = Phases /\ TypeOK' /\ Control'
      /\ script' \in {"running", "done"}
      /\ \A k \in 7..19 : k = phase => Answered(k, st)'
      /\ \A k \in 7..phase : \A s \in Phases[k] : Answered(k, s) => Answered(k, s)'
      /\ \A k \in 7..phase' : \A s \in Phases[k] :
           Answered(k, s)' => k \in 7..phase /\ (Answered(k, s) \/ s = st)
  BY AnsweredNext
<1>7. /\ \A r : Sampled(r) => Sampled(r)'
      /\ \A r \in st.rows : Sampled(r)'
  <2>1. 7..phase \subseteq 7..phase' /\ phase \in 7..phase'
    BY <1>6
  <2>2. \A r : Sampled(r) => Sampled(r)'
    BY <1>6, <2>1 DEF Sampled
  <2>3. \A r \in st.rows : Sampled(r)'
    BY <1>1, <1>6, <2>1 DEF Sampled
  <2>4. QED  BY <2>2, <2>3
<1>8. Swept' /\ SeedIsRepeatable'
  BY <1>6 DEF Swept, SeedIsRepeatable
<1>9. Fresh'
  <2>1. \A r \in db' : r.id[3] = run'
    BY <1>1, <1>2, <1>3 DEF Fresh, SampleRow
  <2>2. ASSUME NEW r \in db'
        PROVE  \/ r.id[2] \in Written /\ Table(r.id) # "user"
               \/ \E k \in 7..phase' : \E s \in Phases[k] :
                    Answered(k, s)' /\ \E a \in s.rows : a.id = r.id
    <3>1. CASE r \in db
      <4>1. CASE r.id[2] \in Written /\ Table(r.id) # "user"
        BY <4>1
      <4>2. CASE \E k \in 7..phase : \E s \in Phases[k] :
                   Answered(k, s) /\ \E a \in s.rows : a.id = r.id
        BY <1>6, <4>2
      <4>3. QED  BY <1>1, <3>1, <4>1, <4>2 DEF Fresh
    <3>2. CASE r \in st.rows
      <4>1. phase \in 7..phase' /\ phase \in 7..19
        BY <1>6
      <4>2. QED  BY <1>1, <1>6, <3>2, <4>1
    <3>3. QED  BY <1>2, <3>1, <3>2
  <2>3. ASSUME NEW k \in 7..phase', NEW s \in Phases[k], Answered(k, s)', NEW a \in s.rows
        PROVE  \E r \in db' : r.id = a.id
    <3>1. k \in 7..phase /\ (Answered(k, s) \/ s = st)
      BY <1>6, <2>3
    <3>2. QED  BY <1>1, <1>2, <2>3, <3>1 DEF Fresh
  <2>4. QED  BY ONLY <1>6, <2>1, <2>2, <2>3 DEF Fresh
<1>10. Logged'
  <2>1. \A r \in Rows("activityLog")' : (r.id[2] \in Written /\ r.at > 0) \/ Sampled(r)'
    BY <1>1, <1>2, <1>7 DEF Trailed, Logged, Rows
  <2>2. ASSUME NEW k \in 7..phase', NEW s \in Phases[k], Answered(k, s)', NEW a \in s.rows,
               Table(a.id) = "activityLog"
        PROVE  a \in db'
    <3>1. k \in 7..phase /\ (Answered(k, s) \/ s = st)
      BY <1>6, <2>2
    <3>2. QED  BY <1>1, <1>2, <2>2, <3>1 DEF Trailed, Logged
  <2>3. QED  BY ONLY <1>6, <2>1, <2>2 DEF Logged
<1>11. ASSUME NEW t \in Rows("task")' PROVE Moved(t)' \/ Unmoved(t)'
  <2>1. TrailOf(t)' \subseteq TrailOf(t) \cup st.rows /\ TrailOf(t) \subseteq TrailOf(t)'
    BY <1>2 DEF TrailOf, Rows
  <2>2. \A x \in st.rows : x.at <= 0
    BY <1>3 DEF SampleRow
  <2>3. \A x \in db' : x.at \in Int
    BY <1>5, RowParts DEF Sound
  <2>4. TrailOf(t)' \subseteq db'
    BY DEF TrailOf, Rows
  <2>5. CASE t \in db /\ Moved(t)
    <3>1. PICK n \in TrailOf(t) : /\ n.at > 0 /\ n.status = t.status
                                  /\ \A x \in TrailOf(t) : x # n => x.at < n.at
      BY <2>5 DEF Moved
    <3>2. \A x \in TrailOf(t)' : x # n => x.at < n.at
      BY <2>1, <2>2, <2>3, <2>4, <3>1
    <3>3. QED  BY <2>1, <3>1, <3>2 DEF Moved
  <2>6. CASE t \in db /\ Unmoved(t)
    <3>1. \A x \in TrailOf(t)' : x.at <= 0
      BY <2>1, <2>2, <2>6 DEF Unmoved
    <3>2. QED  BY <1>7, <2>6, <3>1 DEF Unmoved
  <2>7. CASE t \in st.rows
    <3>1. ASSUME NEW x \in TrailOf(t) PROVE FALSE
      BY <1>1, <1>4, <2>7 DEF TrailOf, Rows, Sound
    <3>2. \A x \in TrailOf(t)' : x.at <= 0
      BY <2>1, <2>2, <3>1
    <3>3. QED  BY <1>7, <2>7, <3>2 DEF Unmoved
  <2>8. t \in db => Moved(t) \/ Unmoved(t)
    BY <1>1, <1>11 DEF Trailed, Rows
  <2>9. t \in db \/ t \in st.rows
    BY <1>2 DEF Rows
  <2>10. QED  BY <2>5, <2>6, <2>7, <2>8, <2>9
<1>12. Bounded'
  <2>1. PICK n \in Nat : \A r \in db : r.at <= n
    BY DEF IInv, Bounded
  <2>2. ASSUME NEW r \in st.rows PROVE r.at <= n
    <3>1. r \in RowType /\ r.at <= 0
      BY <1>3 DEF SampleRow
    <3>2. r.at \in Int
      BY <3>1, RowParts
    <3>3. QED  BY <3>1, <3>2
  <2>3. QED  BY <1>2, <2>1, <2>2 DEF Bounded
<1>13. QED  BY <1>5, <1>6, <1>8, <1>9, <1>10, <1>11, <1>12 DEF IInv, Trailed
-------------------------------------------------------------------------------
\* A row the application inserts: its name is unused and its run is that of a row there is.
AppRow(r) ==
    /\ r \in RowType /\ Whole(r)
    /\ r.id[2] \in Unused /\ \E p \in db : r.id[3] = p.id[3]
    /\ \A id \in r.of : \E p \in db : p.id = id
    /\ r.id[1] \in {"project", "task", "activityLog", "notification"}

LEMMA AppRowNew ==
    ASSUME NEW r, AppRow(r), Sound(db)
    PROVE  /\ Sound(db \cup {r})
           /\ \A p \in db : r.id # p.id
           /\ r.id[2] \in Written
<1>1. r.id[2] \in Written /\ \A p \in db : r.id # p.id
  BY DEF AppRow, Unused
<1>2. {r} \in SUBSET RowType
  BY DEF AppRow
<1>3. QED  BY <1>1, <1>2, AddSound DEF AppRow

\* What stays as it was while the application writes.
LEMMA AppUnchanged ==
    ASSUME UNCHANGED <<script, run, phase, waiting>>
    PROVE  /\ Phases' = Phases /\ Writing' = Writing
           /\ TypeOK => TypeOK'
           /\ Control => Control'
           /\ \A k, s : Answered(k, s)' <=> Answered(k, s)
           /\ \A r : Sampled(r)' <=> Sampled(r)
<1>1. Phases' = Phases
  BY PhasesStable
<1>2. /\ Writing' = Writing
      /\ TypeOK => TypeOK'
      /\ \A k, s : Answered(k, s)' <=> Answered(k, s)
  BY DEF Writing, TypeOK, Answered
<1>3. Control => Control'
  BY <1>1 DEF Control
<1>4. \A r : Sampled(r)' <=> Sampled(r)
  BY <1>1, <1>2 DEF Sampled
<1>5. QED  BY <1>1, <1>2, <1>3, <1>4

\* The conjuncts of Fresh when rows of the application are added, the ids there were stay,
\* and nothing is answered.
LEMMA AppFresh ==
    ASSUME UNCHANGED <<script, run, phase, waiting>>, Fresh, Sound(db), NEW r, AppRow(r),
           \A x \in db' : x = r \/ \E p \in db : p.id = x.id,
           \A p \in db : \E x \in db' : x.id = p.id
    PROVE  Fresh'
<1>1. Phases' = Phases /\ \A k, s : Answered(k, s)' <=> Answered(k, s)
  BY AppUnchanged
<1>2. r.id[3] = run /\ r.id[2] \in Written /\ Table(r.id) # "user"
  BY AppRowNew DEF AppRow, Fresh, Table
<1>3. \A x \in db' : x.id[3] = run'
  BY <1>2 DEF Fresh
<1>4. ASSUME NEW x \in db'
      PROVE  \/ x.id[2] \in Written /\ Table(x.id) # "user"
             \/ \E k \in 7..phase' : \E s \in Phases[k] :
                  Answered(k, s)' /\ \E a \in s.rows : a.id = x.id
  <2>1. CASE x = r
    BY <1>2, <2>1
  <2>2. CASE \E p \in db : p.id = x.id
    <3>1. PICK p \in db : p.id = x.id
      BY <2>2
    <3>2. CASE p.id[2] \in Written /\ Table(p.id) # "user"
      BY <3>1, <3>2
    <3>3. CASE \E k \in 7..phase : \E s \in Phases[k] :
                 Answered(k, s) /\ \E a \in s.rows : a.id = p.id
      BY <1>1, <3>1, <3>3
    <3>4. QED  BY <3>1, <3>2, <3>3 DEF Fresh
  <2>3. QED  BY <2>1, <2>2
<1>5. ASSUME NEW k \in 7..phase', NEW s \in Phases[k], Answered(k, s)', NEW a \in s.rows
      PROVE  \E x \in db' : x.id = a.id
  <2>1. k \in 7..phase /\ Answered(k, s)
    BY <1>1, <1>5
  <2>2. PICK p \in db : p.id = a.id
    BY <1>5, <2>1 DEF Fresh
  <2>3. QED  BY <2>2
<1>6. QED  BY ONLY <1>1, <1>3, <1>4, <1>5 DEF Fresh

\* A project, a task or a notification is inserted.
LEMMA InsertStep ==
    ASSUME IInv, NEW r, AppRow(r), r.at = 0,
           r.id[1] \in {"project", "task", "notification"},
           r.id[1] = "task" => r.status = "TODO",
           AppWrites(r.id[1], db \cup {r})
    PROVE  IInv'
<1>1. UNCHANGED <<script, run, phase, waiting>>
  BY DEF AppWrites
<1>2. db' = db \cup {r} /\ meanwhile' = meanwhile \cup {r.id[1]}
  BY DEF AppWrites
<1>3. /\ Phases' = Phases /\ Writing' = Writing /\ TypeOK' /\ Control'
      /\ \A k, s : Answered(k, s)' <=> Answered(k, s)
      /\ \A x : Sampled(x)' <=> Sampled(x)
  BY <1>1, AppUnchanged DEF IInv
<1>4. Sound(db') /\ (\A p \in db : r.id # p.id) /\ r.id[2] \in Written
  BY <1>2, AppRowNew DEF IInv
<1>5. Swept'
  <2>1. r.id[1] = "project" => "project" \in meanwhile'
    BY <1>2
  <2>2. "project" \notin meanwhile' => "project" \notin meanwhile
    BY <1>2
  <2>3. QED  BY <1>1, <1>2, <2>1, <2>2 DEF IInv, Swept, Rows, Table
<1>6. SeedIsRepeatable'
  BY <1>1, <1>2 DEF IInv, SeedIsRepeatable
<1>7. Bounded'
  <2>1. PICK n \in Nat : \A x \in db : x.at <= n
    BY DEF IInv, Bounded
  <2>2. QED  BY <1>2, <2>1 DEF Bounded
<1>8. ASSUME Writing' PROVE Fresh' /\ Trailed'
  <2>1. Fresh /\ Trailed
    BY <1>3, <1>8 DEF IInv
  <2>2. Fresh'
    BY <1>1, <1>2, <2>1, AppFresh DEF IInv
  <2>3. Rows("activityLog")' = Rows("activityLog")
    BY <1>2 DEF Rows, Table
  <2>4. Logged'
    BY <1>1, <1>2, <1>3, <2>1, <2>3 DEF Trailed, Logged
  <2>5. \A t : TrailOf(t)' = TrailOf(t)
    BY <2>3 DEF TrailOf
  <2>6. ASSUME NEW t \in Rows("task")' PROVE Moved(t)' \/ Unmoved(t)'
    <3>1. CASE t \in db
      <4>1. Moved(t) \/ Unmoved(t)
        BY <2>1, <2>6, <3>1 DEF Trailed, Rows
      <4>2. Moved(t) => Moved(t)'
        BY <2>5 DEF Moved
      <4>3. Unmoved(t) => Unmoved(t)'
        BY <1>3, <2>5 DEF Unmoved
      <4>4. QED  BY <4>1, <4>2, <4>3
    <3>2. CASE t = r
      <4>1. ASSUME NEW x \in TrailOf(t) PROVE FALSE
        <5>1. x \in db /\ t.id \in x.of
          BY <4>1 DEF TrailOf, Rows
        <5>2. QED  BY <1>4, <3>2, <5>1 DEF IInv, Sound
      <4>2. r.id[1] = "task"
        BY <2>6, <3>2 DEF Rows, Table
      <4>3. QED  BY <1>4, <2>5, <3>2, <4>1, <4>2 DEF Unmoved
    <3>3. QED  BY <1>2, <3>1, <3>2 DEF Rows
  <2>7. QED  BY <2>2, <2>4, <2>6 DEF Trailed
<1>9. QED  BY <1>3, <1>4, <1>5, <1>6, <1>7, <1>8 DEF IInv

\* A task is moved: its status and the log row that leads to it, later than every other row.
LEMMA MoveStep ==
    ASSUME IInv, NEW t \in Rows("task"), NEW to \in Statuses, NEW m, NEW l,
           m \in RowType, m.id = t.id, m.of = t.of, m.status = to, m.at = t.at,
           AppRow(l), l.id[1] = "activityLog", l.status = to, l.at = Now,
           t.id \in l.of, \A id \in l.of : id[1] = "task" => id = t.id,
           AppWrites("activityLog", (db \ {t}) \cup {m} \cup {l})
    PROVE  IInv'
<1> DEFINE D == (db \ {t}) \cup {m}
<1>1. UNCHANGED <<script, run, phase, waiting>>
  BY DEF AppWrites
<1>2. db' = D \cup {l} /\ meanwhile \subseteq meanwhile'
  BY DEF AppWrites
<1>3. /\ Phases' = Phases /\ Writing' = Writing /\ TypeOK' /\ Control'
      /\ \A k, s : Answered(k, s)' <=> Answered(k, s)
      /\ \A x : Sampled(x)' <=> Sampled(x)
  BY <1>1, AppUnchanged DEF IInv
<1>4. t \in db /\ Table(t.id) = "task" /\ Table(m.id) = "task"
  BY DEF Rows
<1>5. /\ \A x \in db : \E y \in D : y.id = x.id /\ y.of = x.of
      /\ \A y \in D : \E x \in db : y.id = x.id /\ y.of = x.of
  BY <1>4
<1>6. Sound(D)
  <2>1. D \subseteq RowType
    BY DEF IInv, Sound
  <2>2. \A x, y \in D : x.id = y.id => x = y
    BY <1>4 DEF IInv, Sound
  <2>3. \A x \in D : Whole(x)
    BY <1>5 DEF IInv, Sound, Whole
  <2>4. ASSUME NEW x \in D, NEW id \in x.of PROVE \E y \in D : y.id = id
    <3>1. PICK z \in db : z.of = x.of
      BY <1>5
    <3>2. PICK p \in db : p.id = id
      BY <2>4, <3>1 DEF IInv, Sound
    <3>3. QED  BY <1>5, <3>2
  <2>5. QED  BY ONLY <2>1, <2>2, <2>3, <2>4 DEF Sound
<1> HIDE DEF D
<1>7. (\A x \in db : l.id # x.id) /\ l.id[2] \in Written
  BY AppRowNew DEF IInv
<1>8. Sound(db')
  <2>1. {l} \in SUBSET RowType /\ Whole(l)
    BY DEF AppRow
  <2>2. \A id \in l.of : \E y \in D : y.id = id
    BY <1>5 DEF AppRow
  <2>3. \A y \in D : l.id # y.id
    BY <1>5, <1>7
  <2>4. QED  BY <1>2, <1>6, <2>1, <2>2, <2>3, AddSound
<1>9. Rows("activityLog")' = Rows("activityLog") \cup {l}
  BY <1>2, <1>4 DEF Rows, Table, D
<1>10. Swept'
  <2>1. Rows("project")' = Rows("project") /\ Rows("client")' = Rows("client")
    BY <1>2, <1>4 DEF Rows, Table, D
  <2>2. QED  BY <1>1, <1>2, <2>1 DEF IInv, Swept
<1>11. SeedIsRepeatable'
  BY <1>1, <1>2 DEF IInv, SeedIsRepeatable
<1>12. Now \in Int /\ Now > 0 /\ \A x \in db : x.at < Now
  BY NowIsLast DEF IInv
<1>13. Bounded'
  <2>1. \A x \in db : x.at \in Int
    BY RowParts DEF IInv, Sound
  <2>2. \A x \in db' : x.at <= Now
    BY <1>2, <1>4, <1>12, <2>1 DEF D
  <2>3. \E n \in Nat : \A x \in db' : x.at <= n
    BY <1>12, <2>2
  <2>4. QED  BY <2>3 DEF Bounded
<1>14. ASSUME Writing' PROVE Fresh' /\ Trailed'
  <2>1. Fresh /\ Trailed
    BY <1>3, <1>14 DEF IInv
  <2>2. Fresh'
    <3>1. \A x \in db' : x = l \/ \E p \in db : p.id = x.id
      BY <1>2, <1>5
    <3>2. \A p \in db : \E x \in db' : x.id = p.id
      BY <1>2, <1>5
    <3>3. QED  BY <1>1, <2>1, <3>1, <3>2, AppFresh DEF IInv
  <2>3. Logged'
    <3>1. \A r \in Rows("activityLog")' : (r.id[2] \in Written /\ r.at > 0) \/ Sampled(r)'
      BY <1>3, <1>7, <1>9, <1>12, <2>1 DEF Trailed, Logged
    <3>2. ASSUME NEW k \in 7..phase', NEW s \in Phases[k], Answered(k, s)', NEW a \in s.rows,
                 Table(a.id) = "activityLog"
          PROVE  a \in db'
      <4>1. k \in 7..phase /\ Answered(k, s)
        BY <1>1, <1>3, <3>2
      <4>2. a \in Rows("activityLog")
        BY <2>1, <3>2, <4>1 DEF Trailed, Logged, Rows
      <4>3. QED  BY <1>9, <4>2 DEF Rows
    <3>3. QED  BY ONLY <1>3, <3>1, <3>2 DEF Logged
  <2>4. ASSUME NEW x \in Rows("task")' PROVE Moved(x)' \/ Unmoved(x)'
    <3>1. CASE x = m
      <4>1. TrailOf(x)' \subseteq db \cup {l} /\ l \in TrailOf(x)'
        BY <1>9, <3>1 DEF TrailOf, Rows
      <4>2. \A y \in TrailOf(x)' : y # l => y.at < l.at
        BY <1>12, <4>1
      <4>3. l.at > 0 /\ l.status = x.status
        BY <1>12, <3>1
      <4>4. QED  BY <4>1, <4>2, <4>3 DEF Moved
    <3>2. CASE x \in db /\ x # t
      <4>1. x.id # t.id
        BY <1>4, <3>2 DEF IInv, Sound
      <4>2. x.id[1] = "task"
        BY <2>4 DEF Rows, Table
      <4>3. TrailOf(x)' = TrailOf(x)
        BY <1>9, <4>1, <4>2 DEF TrailOf
      <4>4. Moved(x) \/ Unmoved(x)
        BY <2>1, <3>2, <4>2 DEF Trailed, Rows, Table
      <4>5. Moved(x) => Moved(x)'
        BY <4>3 DEF Moved
      <4>6. Unmoved(x) => Unmoved(x)'
        BY <1>3, <4>3 DEF Unmoved
      <4>7. QED  BY <4>4, <4>5, <4>6
    <3>3. x # l
      BY <2>4 DEF Rows, Table
    <3>4. QED  BY <1>2, <3>1, <3>2, <3>3 DEF Rows, D
  <2>5. QED  BY <2>2, <2>3, <2>4 DEF Trailed
<1>15. QED  BY <1>3, <1>8, <1>10, <1>11, <1>13, <1>14 DEF IInv
-------------------------------------------------------------------------------
\* The tables the application inserts into, and the row it inserts.
Hanging == {"project", "task", "activityLog", "notification"}

AppMade(table, w, of, parent, status, at) ==
    [id |-> <<table, w, parent[3]>>, of |-> of, status |-> status, at |-> at]

\* The id of a row is of its table.
LEMMA IdsAre ==
    ASSUME Sound(db), NEW table, NEW id \in Ids(table)
    PROVE  id \in RowIds /\ id[1] = table /\ id[3] \in Nat /\ \E p \in db : p.id = id
<1>1. PICK p \in db : p.id = id /\ Table(p.id) = table
  BY DEF Ids, Rows
<1>2. QED  BY <1>1, RowParts DEF Sound, Table

\* It inserts a row that hangs on rows that are there.
Hangs(table, w, of, parent, status, at) ==
    /\ w \in Unused /\ table \in Hanging
    /\ of \in SUBSET {q.id : q \in db} /\ parent \in {q.id : q \in db}
    /\ status \in Statuses \cup {""} /\ at \in Int

LEMMA InsertedRow ==
    ASSUME Sound(db), NEW table, NEW w, NEW of, NEW parent, NEW status, NEW at,
           Hangs(table, w, of, parent, status, at)
    PROVE  /\ Inserted(table, w, of, parent, status, at)
                = {AppMade(table, w, of, parent, status, at)}
           /\ AppMade(table, w, of, parent, status, at).id[1] = table
           /\ AppMade(table, w, of, parent, status, at).of = of
           /\ AppMade(table, w, of, parent, status, at).status = status
           /\ AppMade(table, w, of, parent, status, at).at = at
           /\ Whole(AppMade(table, w, of, parent, status, at))
                => AppRow(AppMade(table, w, of, parent, status, at))
<1> DEFINE id == <<table, w, parent[3]>>
           r == [id |-> id, of |-> of, status |-> status, at |-> at]
<1>1. /\ Inserted(table, w, of, parent, status, at) = {r}
      /\ r = AppMade(table, w, of, parent, status, at)
  BY DEF Inserted, AppMade
<1>0. /\ w \in Unused /\ table \in Hanging
      /\ of \in SUBSET {q.id : q \in db} /\ parent \in {q.id : q \in db}
      /\ status \in Statuses \cup {""} /\ at \in Int
  BY DEF Hangs
<1>2. w \in Written /\ parent[3] \in Nat /\ \E p \in db : p.id = parent
  BY <1>0, RowParts DEF Sound, Unused
<1>3. id \in RowIds /\ id[1] = table /\ id[2] = w /\ id[3] = parent[3]
  BY ONLY <1>0, <1>2 DEF RowIds, Hanging, Tables
<1> HIDE DEF id
<1>4. of \in SUBSET RowIds /\ \A x \in of : \E p \in db : p.id = x
  <2>1. \A p \in db : p.id \in RowIds
    BY RowParts DEF Sound
  <2>2. \A x \in of : \E p \in db : p.id = x
    BY <1>0
  <2>3. QED  BY <2>1, <2>2
<1>5. r \in RowType /\ r.id = id /\ r.of = of /\ r.status = status /\ r.at = at
  BY <1>0, <1>3, <1>4 DEF RowType
<1> HIDE DEF r
<1>6. Whole(r) => AppRow(r)
  BY <1>0, <1>2, <1>3, <1>4, <1>5 DEF AppRow, Hanging
<1>7. QED  BY <1>1, <1>3, <1>5, <1>6

LEMMA CreateProjectStep == IInv /\ CreateProject => IInv'
<1>1. SUFFICES ASSUME IInv, CreateProject PROVE IInv'
  OBVIOUS
<1>2. PICK w \in Unused, u \in Ids("user"), c \in Ids("client") :
        AppWrites("project", db \cup Inserted("project", w, {u, c}, u, "", 0))
  BY <1>1 DEF CreateProject
<1>3. /\ u[1] = "user" /\ u \in {q.id : q \in db}
      /\ c[1] = "client" /\ c \in {q.id : q \in db}
  BY <1>1, IdsAre DEF IInv
<1> DEFINE of == {c, u}
<1>4. of \in SUBSET {q.id : q \in db}
  BY <1>3
<1>5. Sound(db) /\ 0 \in Int
  BY <1>1 DEF IInv
<1>6. "project" \in Hanging /\ "" \in Statuses \cup {""} /\ of = {u, c}
  BY DEF Hanging
<1> HIDE DEF of
<1> DEFINE r == AppMade("project", w, of, u, "", 0)
<1>7. /\ Inserted("project", w, of, u, "", 0) = {r}
      /\ r.id[1] = "project" /\ r.of = of /\ r.status = "" /\ r.at = 0
      /\ Whole(r) => AppRow(r)
  <2> DEFINE tb == "project"
             s == ""
             z == 0
  <2>1. Hangs(tb, w, of, u, s, z)
    BY <1>3, <1>4, <1>5, <1>6 DEF Hangs
  <2> HIDE DEF tb, s, z
  <2>2. /\ Inserted(tb, w, of, u, s, z) = {AppMade(tb, w, of, u, s, z)}
        /\ AppMade(tb, w, of, u, s, z).id[1] = tb /\ AppMade(tb, w, of, u, s, z).of = of
        /\ AppMade(tb, w, of, u, s, z).status = s /\ AppMade(tb, w, of, u, s, z).at = z
        /\ Whole(AppMade(tb, w, of, u, s, z)) => AppRow(AppMade(tb, w, of, u, s, z))
    BY ONLY <1>5, <2>1, InsertedRow
  <2>3. QED  BY <2>2 DEF tb, s, z
<1> HIDE DEF r
<1>8. Whole(r)
  BY <1>3, <1>7, WholeRows DEF of
<1>9. AppWrites(r.id[1], db \cup {r})
  BY <1>2, <1>6, <1>7
<1>10. QED  BY <1>1, <1>7, <1>8, <1>9, InsertStep

LEMMA CreateTaskStep == IInv /\ CreateTask => IInv'
<1>1. SUFFICES ASSUME IInv, CreateTask PROVE IInv'
  OBVIOUS
<1>2. PICK w \in Unused, p \in Ids("project"), assigned \in {{}} \cup {{u} : u \in Ids("user")} :
        AppWrites("task", db \cup Inserted("task", w, {p} \cup assigned, p, "TODO", 0))
  BY <1>1 DEF CreateTask
<1> DEFINE of == {p} \cup assigned
<1>3. p[1] = "project" /\ p \in {q.id : q \in db}
  BY <1>1, IdsAre DEF IInv
<1>4. of = {p} \/ \E u \in Ids("user") : of = {p, u}
  OBVIOUS
<1>5. \A u \in Ids("user") : u[1] = "user" /\ u \in {q.id : q \in db}
  BY <1>1, IdsAre DEF IInv
<1> HIDE DEF of
<1>6. of \in SUBSET {q.id : q \in db}
  BY <1>3, <1>4, <1>5
<1>7. Sound(db) /\ 0 \in Int
  BY <1>1 DEF IInv
<1>8. "task" \in Hanging /\ "TODO" \in Statuses \cup {""}
  BY DEF Hanging, Statuses
<1> DEFINE r == AppMade("task", w, of, p, "TODO", 0)
<1>9. /\ Inserted("task", w, of, p, "TODO", 0) = {r}
      /\ r.id[1] = "task" /\ r.of = of /\ r.status = "TODO" /\ r.at = 0
      /\ Whole(r) => AppRow(r)
  <2> DEFINE tb == "task"
             s == "TODO"
             z == 0
  <2>1. Hangs(tb, w, of, p, s, z)
    BY <1>3, <1>6, <1>7, <1>8 DEF Hangs
  <2> HIDE DEF tb, s, z
  <2>2. /\ Inserted(tb, w, of, p, s, z) = {AppMade(tb, w, of, p, s, z)}
        /\ AppMade(tb, w, of, p, s, z).id[1] = tb /\ AppMade(tb, w, of, p, s, z).of = of
        /\ AppMade(tb, w, of, p, s, z).status = s /\ AppMade(tb, w, of, p, s, z).at = z
        /\ Whole(AppMade(tb, w, of, p, s, z)) => AppRow(AppMade(tb, w, of, p, s, z))
    BY ONLY <1>7, <2>1, InsertedRow
  <2>3. QED  BY <2>2 DEF tb, s, z
<1> HIDE DEF r
<1>10. Whole(r)
  BY <1>3, <1>4, <1>5, <1>9, WholeRows
<1>11. AppWrites(r.id[1], db \cup {r})
  BY <1>2, <1>9 DEF of
<1>12. QED  BY <1>1, <1>9, <1>10, <1>11, InsertStep

LEMMA CreateNotificationStep == IInv /\ CreateNotification => IInv'
<1>1. SUFFICES ASSUME IInv, CreateNotification PROVE IInv'
  OBVIOUS
<1>2. PICK w \in Unused, u \in Ids("user"), t \in Ids("task") :
        AppWrites("notification", db \cup Inserted("notification", w, {u, t}, u, "", 0))
  BY <1>1 DEF CreateNotification
<1>3. /\ u[1] = "user" /\ u \in {q.id : q \in db}
      /\ t[1] = "task" /\ t \in {q.id : q \in db}
  BY <1>1, IdsAre DEF IInv
<1> DEFINE of == {u, t}
<1>4. of \in SUBSET {q.id : q \in db}
  BY <1>3
<1>5. Sound(db) /\ 0 \in Int
  BY <1>1 DEF IInv
<1>6. "notification" \in Hanging /\ "" \in Statuses \cup {""}
  BY DEF Hanging
<1> HIDE DEF of
<1> DEFINE r == AppMade("notification", w, of, u, "", 0)
<1>7. /\ Inserted("notification", w, of, u, "", 0) = {r}
      /\ r.id[1] = "notification" /\ r.of = of /\ r.status = "" /\ r.at = 0
      /\ Whole(r) => AppRow(r)
  <2> DEFINE tb == "notification"
             s == ""
             z == 0
  <2>1. Hangs(tb, w, of, u, s, z)
    BY <1>3, <1>4, <1>5, <1>6 DEF Hangs
  <2> HIDE DEF tb, s, z
  <2>2. /\ Inserted(tb, w, of, u, s, z) = {AppMade(tb, w, of, u, s, z)}
        /\ AppMade(tb, w, of, u, s, z).id[1] = tb /\ AppMade(tb, w, of, u, s, z).of = of
        /\ AppMade(tb, w, of, u, s, z).status = s /\ AppMade(tb, w, of, u, s, z).at = z
        /\ Whole(AppMade(tb, w, of, u, s, z)) => AppRow(AppMade(tb, w, of, u, s, z))
    BY ONLY <1>5, <2>1, InsertedRow
  <2>3. QED  BY <2>2 DEF tb, s, z
<1> HIDE DEF r
<1>8. Whole(r)
  BY <1>3, <1>7, WholeRows DEF of
<1>9. AppWrites(r.id[1], db \cup {r})
  BY <1>2, <1>7 DEF of
<1>10. QED  BY <1>1, <1>7, <1>8, <1>9, InsertStep

LEMMA UpdateTaskStatusStep == IInv /\ UpdateTaskStatus => IInv'
<1>1. SUFFICES ASSUME IInv, UpdateTaskStatus PROVE IInv'
  OBVIOUS
<1>2. PICK w \in Unused, t \in Rows("task"), u \in Ids("user"), to \in Statuses :
        \E p \in t.of \cap Ids("project") :
          AppWrites("activityLog",
                    (db \ {t}) \cup {[t EXCEPT !.status = to]}
                    \cup Inserted("activityLog", w, {t.id, p, u}, p, to, Now))
  BY <1>1 DEF UpdateTaskStatus
<1>3. PICK p \in t.of \cap Ids("project") :
        AppWrites("activityLog",
                  (db \ {t}) \cup {[t EXCEPT !.status = to]}
                  \cup Inserted("activityLog", w, {t.id, p, u}, p, to, Now))
  BY <1>2
<1> DEFINE m == [t EXCEPT !.status = to]
           of == {t.id, p, u}
<1>4. /\ u[1] = "user" /\ u \in {q.id : q \in db}
      /\ p[1] = "project" /\ p \in {q.id : q \in db}
  BY <1>1, IdsAre DEF IInv
<1>5. t \in db /\ t \in RowType /\ t.id \in RowIds /\ t.id[1] = "task"
  BY <1>1, RowParts DEF Rows, Table, IInv, Sound
<1>6. m \in RowType /\ m.id = t.id /\ m.of = t.of /\ m.status = to /\ m.at = t.at
  BY <1>5 DEF RowType
<1>7. of \in SUBSET {q.id : q \in db}
  BY <1>4, <1>5
<1>8. Sound(db)
  BY <1>1 DEF IInv
<1>9. Now \in Int
  BY <1>1, NowIsLast DEF IInv
<1>10. "activityLog" \in Hanging /\ to \in Statuses \cup {""}
  BY DEF Hanging
<1>11. t.id \in of /\ \A id \in of : id[1] = "task" => id = t.id
  BY <1>4
<1>12. AppWrites("activityLog", (db \ {t}) \cup {m} \cup Inserted("activityLog", w, of, p, to, Now))
  BY <1>3
<1> HIDE DEF of, m
<1> DEFINE l == AppMade("activityLog", w, of, p, to, Now)
<1>13. /\ Inserted("activityLog", w, of, p, to, Now) = {l}
       /\ l.id[1] = "activityLog" /\ l.of = of /\ l.status = to /\ l.at = Now
       /\ Whole(l) => AppRow(l)
  <2> DEFINE tb == "activityLog"
             s == to
             z == Now
  <2>1. Hangs(tb, w, of, p, s, z)
    BY <1>4, <1>7, <1>8, <1>9, <1>10 DEF Hangs
  <2> HIDE DEF tb, s, z
  <2>2. /\ Inserted(tb, w, of, p, s, z) = {AppMade(tb, w, of, p, s, z)}
        /\ AppMade(tb, w, of, p, s, z).id[1] = tb /\ AppMade(tb, w, of, p, s, z).of = of
        /\ AppMade(tb, w, of, p, s, z).status = s /\ AppMade(tb, w, of, p, s, z).at = z
        /\ Whole(AppMade(tb, w, of, p, s, z)) => AppRow(AppMade(tb, w, of, p, s, z))
    BY ONLY <1>8, <2>1, InsertedRow
  <2>3. QED  BY <2>2 DEF tb, s, z
<1> HIDE DEF l
<1>14. Whole(l)
  BY <1>4, <1>5, <1>13, WholeRows DEF of
<1>15. AppRow(l)
  BY <1>13, <1>14
<1>16. AppWrites("activityLog", (db \ {t}) \cup {m} \cup {l})
  BY <1>12, <1>13
<1>17. QED  BY <1>1, <1>6, <1>11, <1>13, <1>15, <1>16, MoveStep
-------------------------------------------------------------------------------
LEMMA FirstPhase == Phases[1] = {Wipe("notification")}
  BY PhasesAre

\* The invariant holds in the migrated database, and no step breaks it.
LEMMA InitIInv == Init => IInv
<1>1. SUFFICES ASSUME Init PROVE IInv
  OBVIOUS
<1>2. db = {} /\ script = "none" /\ run = 0 /\ phase = 0
  BY <1>1 DEF Init
<1>3. TypeOK /\ Control /\ Swept /\ ~Writing /\ SeedIsRepeatable
  BY <1>2 DEF TypeOK, Control, Swept, Writing, SeedIsRepeatable
<1>4. Sound(db)
  BY <1>2 DEF Sound
<1>5. Bounded
  BY <1>2 DEF Bounded
<1>6. QED  BY <1>3, <1>4, <1>5 DEF IInv

LEMMA StepIInv == IInv /\ [Next]_vars => IInv'
<1>1. SUFFICES ASSUME IInv, [Next]_vars PROVE IInv'
  OBVIOUS
<1>2. CASE Start
  <2>1. /\ db' = db /\ script' = "running" /\ run' = run + 1 /\ phase' = 1
        /\ waiting' = {Wipe("notification")} /\ meanwhile' = {}
    BY <1>2, FirstPhase DEF Start
  <2>2. (Phases[1] = {Wipe("notification")})'
    BY FirstPhase, PTL
  <2>3. TypeOK' /\ Control' /\ Swept' /\ ~Writing' /\ SeedIsRepeatable'
    BY <1>1, <2>1, <2>2 DEF IInv, TypeOK, Control, Swept, Writing, SeedIsRepeatable
  <2>4. Sound(db)' /\ Bounded'
    BY <1>1, <2>1 DEF IInv, Bounded
  <2>5. QED  BY <2>3, <2>4 DEF IInv
<1>3. CASE Statement
  <2>1. PICK st \in waiting : Allowed(st) /\ Answer(st)
    BY <1>3 DEF Statement
  <2>2. script = "running" /\ UNCHANGED <<run, meanwhile>>
    BY <1>3 DEF Statement
  <2>3. phase \in 1..6 \/ phase \in 7..19
    BY <1>1, <2>2 DEF IInv, Control
  <2>4. CASE phase \in 1..6
    BY <1>1, <2>1, <2>2, <2>4, WipeStep
  <2>5. CASE phase \in 7..19
    BY <1>1, <2>1, <2>2, <2>5, CreateStep
  <2>6. QED  BY <2>3, <2>4, <2>5
<1>4. CASE Refused \/ Killed
  <2>1. /\ script' \in {"refused", "killed"}
        /\ UNCHANGED <<db, run, phase, meanwhile>>
    BY <1>4 DEF Refused, Killed
  <2>2. SeedIsRepeatable'
    <3>1. CASE Refused
      <4>1. "project" \in meanwhile
        BY <1>1, <3>1, StatementsAllowed DEF Refused
      <4>2. QED  BY <2>1, <4>1 DEF SeedIsRepeatable
    <3>2. CASE Killed
      BY <3>2 DEF Killed, SeedIsRepeatable
    <3>3. QED  BY <1>4, <3>1, <3>2
  <2>3. TypeOK' /\ Control' /\ Swept' /\ ~Writing'
    BY <1>1, <2>1 DEF IInv, TypeOK, Control, Swept, Writing
  <2>4. Sound(db)' /\ Bounded'
    BY <1>1, <2>1 DEF IInv, Bounded
  <2>5. QED  BY <2>2, <2>3, <2>4 DEF IInv
<1>5. CASE CreateProject
  BY <1>1, <1>5, CreateProjectStep
<1>6. CASE CreateTask
  BY <1>1, <1>6, CreateTaskStep
<1>7. CASE UpdateTaskStatus
  BY <1>1, <1>7, UpdateTaskStatusStep
<1>8. CASE CreateNotification
  BY <1>1, <1>8, CreateNotificationStep
<1>9. CASE UNCHANGED vars
  <2>1. UNCHANGED <<db, script, run, phase, waiting, meanwhile>>
    BY <1>9 DEF vars
  <2>2. /\ Phases' = Phases /\ Writing' = Writing /\ TypeOK' /\ Control'
        /\ \A k, s : Answered(k, s)' <=> Answered(k, s)
        /\ \A x : Sampled(x)' <=> Sampled(x)
    BY <1>1, <2>1, AppUnchanged DEF IInv
  <2>3. \A table : Rows(table)' = Rows(table)
    BY <2>1 DEF Rows
  <2>4. \A t : TrailOf(t)' = TrailOf(t)
    BY <2>3 DEF TrailOf
  <2>5. Swept' /\ SeedIsRepeatable' /\ Bounded' /\ Sound(db)'
    BY <1>1, <2>1, <2>3 DEF IInv, Swept, SeedIsRepeatable, Bounded
  <2>6. Fresh => Fresh'
    BY <2>1, <2>2 DEF Fresh
  <2>7. Logged => Logged'
    BY <2>1, <2>2, <2>3 DEF Logged
  <2>8. \A t : (Moved(t) => Moved(t)') /\ (Unmoved(t) => Unmoved(t)')
    BY <2>2, <2>4 DEF Moved, Unmoved
  <2>9. Trailed => Trailed'
    BY <2>3, <2>7, <2>8 DEF Trailed
  <2>10. QED  BY <1>1, <2>2, <2>5, <2>6, <2>9 DEF IInv
<1>10. QED  BY <1>1, <1>2, <1>3, <1>4, <1>5, <1>6, <1>7, <1>8, <1>9 DEF Next
-------------------------------------------------------------------------------
LEMMA SpecIInv == Spec => []IInv
  BY InitIInv, StepIInv, PTL DEF Spec

\* A run is refused by the database only if a project was created while it ran, whatever
\* earlier runs, killed or complete, and the application have left (seed.ts, main).
THEOREM SeedAlwaysRepeatable == Spec => []SeedIsRepeatable
<1>1. IInv => SeedIsRepeatable
  BY DEF IInv
<1>2. QED  BY <1>1, SpecIInv, PTL
-------------------------------------------------------------------------------
\* The log rows of the sample and its tasks.
L1 == Log("l1", "t1", "p1", "dev1", "IN_PROGRESS", -3)
L2 == Log("l2", "t1", "p1", "dev1", "DONE", -1)
L3 == Log("l3", "t2", "p1", "dev2", "IN_PROGRESS", -3)
T1 == Task("t1", "p1", "dev1", "DONE")
T2 == Task("t2", "p1", "dev2", "IN_PROGRESS")
T3 == Task("t3", "p2", "dev2", "TODO")

LEMMA RefParts ==
    ASSUME NEW table, NEW name
    PROVE  Ref(table, name)[1] = table /\ Ref(table, name)[2] = name
  BY DEF Ref

\* The log rows and the tasks among the answered rows of the script.
LEMMA SampleLogs ==
    ASSUME TypeOK, NEW r, Sampled(r), r.id[1] = "activityLog"
    PROVE  r = L1 \/ r = L2 \/ r = L3
<1>1. PICK k \in 7..19 : \E st \in Phases[k] : r \in st.rows
  BY DEF Sampled, TypeOK
<1>2. PICK st \in Phases[k] : r \in st.rows
  BY <1>1
<1>3. Place(k, st, r)
  BY <1>2, SampleRows
<1>4. \A table, name : r.id = Ref(table, name) => table = "activityLog"
  BY RefParts
<1>5. QED  BY ONLY <1>3, <1>4 DEF Place, L1, L2, L3

LEMMA SampledTasks ==
    ASSUME TypeOK, NEW r, Sampled(r), r.id[1] = "task"
    PROVE  \/ r = T1 /\ r.id = Ref("task", "t1")
           \/ r = T2 /\ r.id = Ref("task", "t2")
           \/ r = T3 /\ r.id = Ref("task", "t3")
<1>1. PICK k \in 7..19 : \E st \in Phases[k] : r \in st.rows
  BY DEF Sampled, TypeOK
<1>2. PICK st \in Phases[k] : r \in st.rows
  BY <1>1
<1>3. Place(k, st, r)
  BY <1>2, SampleRows
<1>4. \A table, name : r.id = Ref(table, name) => table = "task"
  BY RefParts
<1>5. QED  BY ONLY <1>3, <1>4 DEF Place, T1, T2, T3

LEMMA LogParts ==
    /\ L1.status = "IN_PROGRESS" /\ L1.at = -3 /\ L1.id = Ref("activityLog", "l1")
    /\ L1.of = {Ref("task", "t1"), Ref("project", "p1"), Ref("user", "dev1")}
    /\ L2.status = "DONE" /\ L2.at = -1 /\ L2.id = Ref("activityLog", "l2")
    /\ L2.of = {Ref("task", "t1"), Ref("project", "p1"), Ref("user", "dev1")}
    /\ L3.status = "IN_PROGRESS" /\ L3.at = -3 /\ L3.id = Ref("activityLog", "l3")
    /\ L3.of = {Ref("task", "t2"), Ref("project", "p1"), Ref("user", "dev2")}
  BY DEF L1, L2, L3, Log, Row, Ref

LEMMA TaskStatuses == T1.status = "DONE" /\ T2.status = "IN_PROGRESS" /\ T3.status = "TODO"
  BY DEF T1, T2, T3, Task, Row

\* Which of them are of a task.
LEMMA LogsOfTask ==
    ASSUME NEW id, id[1] = "task"
    PROVE  /\ id \in L1.of <=> id = Ref("task", "t1")
           /\ id \in L2.of <=> id = Ref("task", "t1")
           /\ id \in L3.of <=> id = Ref("task", "t2")
<1>1. id # Ref("project", "p1") /\ id # Ref("user", "dev1") /\ id # Ref("user", "dev2")
  BY RefParts
<1>2. QED  BY <1>1, LogParts

\* The newest row of a trail is the one that is later than all others.
LEMMA NewestIs ==
    ASSUME NEW L, NEW n \in L, n.at \in Int, \A x \in L : x # n => x.at \in Int /\ x.at < n.at
    PROVE  NewestOf(L) = n
<1>1. \A x \in L : x.at <= n.at
  OBVIOUS
<1>2. ASSUME NEW r \in L, \A x \in L : x.at <= r.at PROVE r = n
  BY <1>2
<1>3. QED  BY <1>1, <1>2 DEF NewestOf

\* When the script has ended, every log row of the sample is there as it was written.
LEMMA DoneLogs ==
    ASSUME IInv, script = "done"
    PROVE  /\ Fresh /\ Trailed
           /\ {L1, L2, L3} \subseteq Rows("activityLog")
           /\ \A x \in Rows("activityLog") : x.at <= 0 => x \in {L1, L2, L3}
<1>1. phase = 19 /\ waiting = {} /\ Fresh /\ Trailed /\ TypeOK
  BY DEF IInv, Control, Writing
<1>2. \A k, st : Answered(k, st)
  BY <1>1 DEF Answered
<1>3. \A k \in 7..19 : \A st \in Phases[k] : \A a \in st.rows :
        Table(a.id) = "activityLog" => a \in Rows("activityLog")
  BY <1>1, <1>2 DEF Trailed, Logged, Rows
<1>4. \A a : Create({a}).rows = {a}
  BY DEF Create
<1>5. /\ Phases[14] = {Create({L1})} /\ Phases[15] = {Create({L2})} /\ Phases[17] = {Create({L3})}
  BY PhasesAre DEF L1, L2, L3
<1>6. /\ Table(L1.id) = "activityLog" /\ Table(L2.id) = "activityLog"
      /\ Table(L3.id) = "activityLog"
  BY LogParts, RefParts DEF Table
<1>7. {L1, L2, L3} \subseteq Rows("activityLog")
  <2>1. ASSUME NEW k \in 7..19, NEW a, Phases[k] = {Create({a})}, Table(a.id) = "activityLog"
        PROVE  a \in Rows("activityLog")
    <3>1. Create({a}) \in Phases[k] /\ a \in Create({a}).rows
      BY <1>4, <2>1
    <3>2. QED  BY <1>3, <2>1, <3>1
  <2>2. 14 \in 7..19 /\ 15 \in 7..19 /\ 17 \in 7..19
    OBVIOUS
  <2>3. L1 \in Rows("activityLog")
    BY <1>5, <1>6, <2>1, <2>2
  <2>4. L2 \in Rows("activityLog")
    BY <1>5, <1>6, <2>1, <2>2
  <2>5. L3 \in Rows("activityLog")
    BY <1>5, <1>6, <2>1, <2>2
  <2>6. QED  BY <2>3, <2>4, <2>5
<1>8. ASSUME NEW x \in Rows("activityLog"), x.at <= 0 PROVE x \in {L1, L2, L3}
  <2>1. x.id[1] = "activityLog" /\ x.at \in Int
    BY RowParts DEF Rows, Table, IInv, Sound
  <2>2. Sampled(x)
    BY <1>1, <1>8, <2>1 DEF Trailed, Logged
  <2>3. QED  BY <1>1, <2>1, <2>2, SampleLogs
<1>9. QED  BY <1>1, <1>7, <1>8

\* The newest row of the trail of a task that was moved is that of its last move.
LEMMA MovedReaches ==
    ASSUME IInv, NEW t, Moved(t)
    PROVE  TrailOf(t) # {} /\ t.status = NewestOf(TrailOf(t)).status
<1>1. PICK n \in TrailOf(t) : /\ n.at > 0 /\ n.status = t.status
                              /\ \A x \in TrailOf(t) : x # n => x.at < n.at
  BY DEF Moved
<1>2. \A x \in TrailOf(t) : x.at \in Int
  BY RowParts DEF TrailOf, Rows, IInv, Sound
<1>3. NewestOf(TrailOf(t)) = n
  BY <1>1, <1>2, NewestIs
<1>4. QED  BY <1>1, <1>3

\* That of a task that was not is the last back-dated one, if it has one.
LEMMA UnmovedReaches ==
    ASSUME IInv, script = "done", NEW t \in Rows("task"), Unmoved(t)
    PROVE  t.status = IF TrailOf(t) = {} THEN "TODO" ELSE NewestOf(TrailOf(t)).status
<1>1. t.id[1] = "task"
  BY DEF Rows, Table
<1>2. TrailOf(t) = {x \in {L1, L2, L3} : t.id \in x.of}
  BY DoneLogs DEF TrailOf, Unmoved
<1>3. CASE t.id[2] \in Written /\ t.status = "TODO"
  <2>1. "t1" \in Names /\ "t2" \in Names
    BY DEF Names
  <2>2. t.id # Ref("task", "t1") /\ t.id # Ref("task", "t2")
    BY <1>3, <2>1, RefParts, SeedAssumption
  <2>3. TrailOf(t) = {}
    BY <1>1, <1>2, <2>2, LogsOfTask
  <2>4. QED  BY <1>3, <2>3
<1>0. /\ L1.at \in Int /\ L2.at \in Int /\ L3.at \in Int
      /\ L1.at < L2.at
  BY LogParts
<1>4. Ref("task", "t1") # Ref("task", "t2") /\ Ref("task", "t1") # Ref("task", "t3")
      /\ Ref("task", "t2") # Ref("task", "t3")
  BY RefParts
<1>5. CASE t = T1 /\ t.id = Ref("task", "t1")
  <2>1. TrailOf(t) = {L1, L2}
    BY <1>1, <1>2, <1>4, <1>5, LogsOfTask
  <2>2. NewestOf({L1, L2}) = L2
    <3> DEFINE L == {L1, L2}
    <3>1. L2 \in L /\ \A x \in L : x # L2 => x.at \in Int /\ x.at < L2.at
      BY <1>0
    <3> HIDE DEF L
    <3>2. NewestOf(L) = L2
      BY <1>0, <3>1, NewestIs
    <3>3. QED  BY <3>2 DEF L
  <2>3. QED  BY <1>5, <2>1, <2>2, LogParts, TaskStatuses
<1>6. CASE t = T2 /\ t.id = Ref("task", "t2")
  <2>1. TrailOf(t) = {L3}
    BY <1>1, <1>2, <1>4, <1>6, LogsOfTask
  <2>2. NewestOf({L3}) = L3
    <3> DEFINE L == {L3}
    <3>1. L3 \in L /\ \A x \in L : x # L3 => x.at \in Int /\ x.at < L3.at
      OBVIOUS
    <3> HIDE DEF L
    <3>2. NewestOf(L) = L3
      BY <1>0, <3>1, NewestIs
    <3>3. QED  BY <3>2 DEF L
  <2>3. QED  BY <1>6, <2>1, <2>2, LogParts, TaskStatuses
<1>7. CASE t = T3 /\ t.id = Ref("task", "t3")
  <2>1. TrailOf(t) = {}
    BY <1>1, <1>2, <1>4, <1>7, LogsOfTask
  <2>2. QED  BY <1>7, <2>1, TaskStatuses
<1>8. CASE Sampled(t)
  BY <1>1, <1>5, <1>6, <1>7, <1>8, SampledTasks DEF IInv
<1>9. QED  BY <1>3, <1>8 DEF Unmoved

\* When a run has ended, every row hangs on its users, and the newest log row of each task,
\* of the back-dated ones and of those of moves made behind the script's back, leads to the
\* task's status (seed.ts, main and seedProjectTasks).
THEOREM DoneAlwaysSample == Spec => []DoneIsSample
<1>1. ASSUME IInv, script = "done" PROVE NothingOlder /\ TrailsReachStatus
  <2>1. Fresh /\ Trailed
    BY <1>1, DoneLogs
  <2>2. NothingOlder
    BY <2>1 DEF Fresh, NothingOlder
  <2>3. ASSUME NEW t \in Rows("task")
        PROVE  t.status = IF TrailOf(t) = {} THEN "TODO" ELSE NewestOf(TrailOf(t)).status
    <3>1. CASE Moved(t)
      BY <1>1, <3>1, MovedReaches
    <3>2. CASE Unmoved(t)
      BY <1>1, <3>2, UnmovedReaches
    <3>3. QED  BY <2>1, <3>1, <3>2 DEF Trailed
  <2>4. TrailsReachStatus
    BY <2>3 DEF TrailsReachStatus, TrailOf
  <2>5. QED  BY <2>2, <2>4
<1>2. IInv => DoneIsSample
  BY <1>1 DEF DoneIsSample
<1>3. QED  BY <1>2, SpecIInv, PTL
=============================================================================
