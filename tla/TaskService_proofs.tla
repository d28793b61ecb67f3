-------------------------- MODULE TaskService_proofs --------------------------
(* What TLAPS proves of TaskService for every set of users, projects, tasks,   *)
(* requests and sweeps and every bound: its types, its history, its flags, its *)
(* refinement of Board, and then its numbers: broadcasts against log rows,     *)
(* notifications against what they are about, and warnings against the sweeps  *)
(* and the moves there were.                                                   *)
EXTENDS TaskService, FiniteSetTheorems, TLAPS

\* A slot that waits at some program counter is not idle, and which kind of
\* request it holds follows from the counter.
LEMMA RequestKind ==
    ASSUME NEW q \in {Idle} \cup MoveReq \cup CreateReq
    PROVE  /\ q.pc \in {"checked", "committed", "review"} => q \in MoveReq
           /\ q.pc = "created" => q \in CreateReq
           /\ q # Idle => q.task \in Tasks
  BY DEF Idle, MoveReq, CreateReq

LEMMA TypeInit == Init => TypeOK
  BY DEF Init, TypeOK, Idle, NoSweep, Kinds, TaskRow, LogRow

LEMMA TypeInsertTask ==
    ASSUME TypeOK, NEW r \in Requests, NEW t \in Tasks, NEW p \in Projects,
           NEW a \in Users \cup {NoUser}, NEW d \in {"none", "future", "past"},
           InsertTask(r, t, p, a, d)
    PROVE  TypeOK'
<1>1. task' \in [DOMAIN task' -> TaskRow]
  BY DEF TypeOK, InsertTask, TaskRow, Statuses
<1>2. DOMAIN task' = DOMAIN task \cup {t}
  BY DEF InsertTask
<1>3. request' \in [Requests -> {Idle} \cup MoveReq \cup CreateReq]
  BY DEF TypeOK, InsertTask, CreateReq
<1>4. \A q \in Requests : request'[q] # Idle => request'[q].task \in DOMAIN task'
  BY <1>2 DEF TypeOK, InsertTask, CreateReq, Idle
<1>5. \A x \in DOMAIN task : task'[x] = task[x]
  BY DEF TypeOK, InsertTask
<1>6. /\ log' = log /\ emitted' = emitted /\ notices' = notices
      /\ sweep' = sweep /\ faults' = faults
  BY DEF InsertTask
<1>7. \A s \in Sweeps :
        /\ sweep[s].todo \subseteq DOMAIN task'
        /\ sweep[s].pc = "flagged" => \A x \in sweep[s].todo : task'[x].assignee # NoUser
  BY <1>2, <1>5 DEF TypeOK
<1>8. DOMAIN task' \subseteq Tasks
  BY <1>2 DEF TypeOK
<1>9. QED  BY <1>1, <1>3, <1>4, <1>6, <1>7, <1>8 DEF TypeOK

LEMMA TypeNotifyAssigned ==
    ASSUME TypeOK, NEW r \in Requests, NotifyAssigned(r)
    PROVE  TypeOK'
<1>1. request[r] \in CreateReq /\ request[r].task \in Tasks
  BY RequestKind DEF TypeOK, NotifyAssigned, CreateReq
<1>2. notices' \in [Kinds -> [Tasks -> Nat]]
  BY <1>1, SMTT(20) DEF TypeOK, NotifyAssigned, Kinds
<1>3. QED  BY <1>2 DEF TypeOK, NotifyAssigned

LEMMA TypeReadTask ==
    ASSUME TypeOK, NEW r \in Requests, NEW u \in Users, NEW t \in Tasks,
           NEW to \in Statuses, ReadTask(r, u, t, to)
    PROVE  TypeOK'
<1>1. task[t] \in TaskRow
  BY DEF TypeOK, ReadTask
<1>2. [pc |-> "checked", task |-> t, actor |-> u, from |-> task[t].status,
       isOverdue |-> task[t].isOverdue, to |-> to, row |-> 0] \in MoveReq
  BY <1>1 DEF MoveReq, TaskRow
<1>3. QED  BY <1>2 DEF TypeOK, ReadTask

LEMMA RowUpdate ==
    ASSUME NEW row \in TaskRow, NEW st \in Statuses, NEW b \in BOOLEAN
    PROVE  [row EXCEPT !.status = st, !.isOverdue = b] \in TaskRow
  BY DEF TaskRow

\* The commit changes the status and the flag of one task and appends one row.
LEMMA CommitShape ==
    ASSUME TypeOK, NEW r \in Requests, CommitMove(r)
    PROVE  LET q == request[r]
               entry == [actor |-> q.actor, from |-> q.from, to |-> q.to] IN
           /\ q \in MoveReq /\ q.pc = "checked" /\ q.task \in DOMAIN task
           /\ q.task \in Tasks /\ entry \in LogRow
           /\ DOMAIN task' = DOMAIN task
           /\ task' = [t \in DOMAIN task |->
                         IF t = q.task
                         THEN [task[t] EXCEPT !.status = q.to,
                                              !.isOverdue = WrittenFlag(q)]
                         ELSE task[t]]
           /\ \A t \in DOMAIN task : /\ task'[t].assignee = task[t].assignee
                                    /\ task'[t].project = task[t].project
                                    /\ task'[t].due = task[t].due
           /\ \A t \in DOMAIN task : t # q.task => task'[t] = task[t]
           /\ task'[q.task].status = q.to
           /\ task'[q.task].isOverdue = WrittenFlag(q)
           /\ log' = [log EXCEPT ![q.task] = Append(log[q.task], entry)]
           /\ Len(log'[q.task]) = Len(log[q.task]) + 1
           /\ request' = [request EXCEPT ![r] =
                            [q EXCEPT !.pc = "committed", !.row = Len(log'[q.task])]]
<1> DEFINE q == request[r]
           entry == [actor |-> q.actor, from |-> q.from, to |-> q.to]
<1>1. q \in MoveReq /\ q.pc = "checked" /\ q.task \in DOMAIN task
  BY RequestKind DEF TypeOK, CommitMove, MoveReq, Idle
<1>2. q.task \in Tasks /\ entry \in LogRow
  BY <1>1 DEF MoveReq, LogRow
<1>3. task' = [t \in DOMAIN task |->
                 IF t = q.task
                 THEN [task[t] EXCEPT !.status = q.to, !.isOverdue = WrittenFlag(q)]
                 ELSE task[t]]
  BY <1>1 DEF TypeOK, CommitMove, TaskRow
<1>4. \A t \in DOMAIN task : /\ task'[t].assignee = task[t].assignee
                             /\ task'[t].project = task[t].project
                             /\ task'[t].due = task[t].due
  <2>1. ASSUME NEW t \in DOMAIN task, t = q.task
        PROVE  task'[t] = [task[t] EXCEPT !.status = q.to, !.isOverdue = WrittenFlag(q)]
    BY <1>3, <2>1
  <2>2. \A t \in DOMAIN task : t # q.task => task'[t] = task[t]
    BY <1>3
  <2>3. task[q.task] \in TaskRow /\ q.to \in Statuses /\ WrittenFlag(q) \in BOOLEAN
    <3>1. WrittenFlag(q) \in BOOLEAN
      BY Zenon DEF WrittenFlag
    <3>2. QED  BY <1>1, <3>1 DEF TypeOK, MoveReq
  <2>4. PICK b \in BOOLEAN :
          task'[q.task] = [task[q.task] EXCEPT !.status = q.to, !.isOverdue = b]
    BY <1>1, <2>1, <2>3, Zenon
  <2>5. task'[q.task].assignee = task[q.task].assignee
    BY <2>3, <2>4 DEF TaskRow
  <2>6. task'[q.task].project = task[q.task].project
    BY <2>3, <2>4 DEF TaskRow
  <2>7. task'[q.task].due = task[q.task].due
    BY <2>3, <2>4 DEF TaskRow
  <2>8. QED  BY <2>2, <2>5, <2>6, <2>7
<1>5. log' = [log EXCEPT ![q.task] = Append(log[q.task], entry)]
  BY DEF CommitMove, WithRow
<1>6. Len(log'[q.task]) = Len(log[q.task]) + 1
  <2>1. log'[q.task] = Append(log[q.task], entry)
    BY <1>2, <1>5 DEF TypeOK
  <2>2. QED  BY <1>2, <2>1 DEF TypeOK
<1>7. request' = [request EXCEPT ![r] =
                    [q EXCEPT !.pc = "committed", !.row = Len(log'[q.task])]]
  <2>1. log'[q.task] = WithRow(log[q.task], q)
    BY <1>2 DEF TypeOK, CommitMove
  <2>2. QED  BY <2>1 DEF CommitMove
<1>8. task'[q.task].status = q.to /\ task'[q.task].isOverdue = WrittenFlag(q)
  <2>1. task[q.task] \in TaskRow
    BY <1>1 DEF TypeOK
  <2>2. \A b : LET new == [task[q.task] EXCEPT !.status = q.to, !.isOverdue = b] IN
               new.status = q.to /\ new.isOverdue = b
    BY <2>1 DEF TaskRow
  <2>3. task'[q.task] =
          [task[q.task] EXCEPT !.status = q.to, !.isOverdue = WrittenFlag(q)]
    BY <1>1, <1>3
  <2>4. QED  BY <2>2, <2>3, Zenon
<1>9. \A t \in DOMAIN task : t # q.task => task'[t] = task[t]
  BY <1>3
<1>10. QED  BY <1>1, <1>2, <1>3, <1>4, <1>5, <1>6, <1>7, <1>8, <1>9

\* The same commit, as far as the log and the other requests go.
LEMMA CommitLog ==
    ASSUME TypeOK, NEW r \in Requests, CommitMove(r)
    PROVE  LET q == request[r]
               entry == [actor |-> q.actor, from |-> q.from, to |-> q.to] IN
           /\ q \in MoveReq /\ q.task \in Tasks /\ entry \in LogRow
           /\ log[q.task] \in Seq(LogRow)
           /\ log'[q.task] = Append(log[q.task], entry)
           /\ Len(log'[q.task]) = Len(log[q.task]) + 1
           /\ \A t \in Tasks : t # q.task => log'[t] = log[t]
           /\ \A x \in Requests : x # r => request'[x] = request[x]
           /\ request'[r] = [q EXCEPT !.pc = "committed", !.row = Len(log'[q.task])]
           /\ request'[r].pc = "committed"
<1> DEFINE q == request[r]
           entry == [actor |-> q.actor, from |-> q.from, to |-> q.to]
<1>1. q \in MoveReq /\ q.task \in Tasks /\ entry \in LogRow
  BY CommitShape
<1>2. log' = [log EXCEPT ![q.task] = Append(log[q.task], entry)]
  BY CommitShape
<1>3. Len(log'[q.task]) = Len(log[q.task]) + 1
  BY CommitShape
<1>4. log \in [Tasks -> Seq(LogRow)] /\ request \in [Requests -> {Idle} \cup MoveReq \cup CreateReq]
  BY DEF TypeOK
<1>5. log[q.task] \in Seq(LogRow) /\ log'[q.task] = Append(log[q.task], entry)
  BY <1>1, <1>2, <1>4
<1>6. \A t \in Tasks : t # q.task => log'[t] = log[t]
  BY <1>2, <1>4
<1>7. request' = [request EXCEPT ![r] =
                    [q EXCEPT !.pc = "committed", !.row = Len(log'[q.task])]]
  BY CommitShape
<1>8. \A x \in Requests : x # r => request'[x] = request[x]
  BY <1>4, <1>7
<1>9. request'[r] = [q EXCEPT !.pc = "committed", !.row = Len(log'[q.task])]
  BY <1>4, <1>7
<1>10. \A n : [q EXCEPT !.pc = "committed", !.row = n].pc = "committed"
  BY <1>1 DEF MoveReq
<1>11. request'[r].pc = "committed"
  BY <1>9, <1>10
<1>12. QED  BY <1>1, <1>3, <1>5, <1>6, <1>8, <1>9, <1>11

LEMMA TypeCommitMove ==
    ASSUME TypeOK, NEW r \in Requests, CommitMove(r)
    PROVE  TypeOK'
<1> DEFINE q == request[r]
           entry == [actor |-> q.actor, from |-> q.from, to |-> q.to]
<1>1. /\ q \in MoveReq /\ q.task \in DOMAIN task /\ q.task \in Tasks
      /\ entry \in LogRow
      /\ DOMAIN task' = DOMAIN task
      /\ task' = [t \in DOMAIN task |->
                    IF t = q.task
                    THEN [task[t] EXCEPT !.status = q.to, !.isOverdue = WrittenFlag(q)]
                    ELSE task[t]]
      /\ \A t \in DOMAIN task : task'[t].assignee = task[t].assignee
      /\ log' = [log EXCEPT ![q.task] = Append(log[q.task], entry)]
      /\ Len(log'[q.task]) = Len(log[q.task]) + 1
      /\ request' = [request EXCEPT ![r] =
                       [q EXCEPT !.pc = "committed", !.row = Len(log'[q.task])]]
  BY CommitShape
<1>2. task' \in [DOMAIN task' -> TaskRow]
  <2>1. WrittenFlag(q) \in BOOLEAN
    BY Zenon DEF WrittenFlag
  <2>2. task[q.task] \in TaskRow /\ q.to \in Statuses
    BY <1>1 DEF TypeOK, MoveReq
  <2>3. [task[q.task] EXCEPT !.status = q.to, !.isOverdue = WrittenFlag(q)] \in TaskRow
    BY <2>1, <2>2, RowUpdate
  <2>4. QED  BY <1>1, <2>3 DEF TypeOK
<1>3. log' \in [Tasks -> Seq(LogRow)]
  <2>1. entry \in LogRow /\ log[q.task] \in Seq(LogRow)
    BY <1>1 DEF TypeOK
  <2>2. Append(log[q.task], entry) \in Seq(LogRow)
    <3> HIDE DEF entry, q
    <3>1. QED  BY <2>1
  <2>3. QED  BY <1>1, <2>2 DEF TypeOK
<1>4. Len(log'[q.task]) \in Nat
  <2>1. q.task \in Tasks
    BY <1>1
  <2>2. QED  BY <1>3, <2>1
<1>5. [q EXCEPT !.pc = "committed", !.row = Len(log'[q.task])] \in MoveReq
  BY <1>1, <1>4 DEF MoveReq
<1>6. /\ request' \in [Requests -> {Idle} \cup MoveReq \cup CreateReq]
      /\ \A x \in Requests : request'[x] # Idle => request'[x].task \in DOMAIN task'
  BY <1>1, <1>5 DEF TypeOK, MoveReq, CreateReq
<1>7. \A s \in Sweeps :
        /\ sweep'[s].todo \subseteq DOMAIN task'
        /\ sweep'[s].pc = "flagged" =>
             \A t \in sweep'[s].todo : task'[t].assignee # NoUser
  BY <1>1 DEF TypeOK, CommitMove
<1>8. QED  BY <1>1, <1>2, <1>3, <1>6, <1>7 DEF TypeOK, CommitMove

LEMMA TypeBroadcastMove ==
    ASSUME TypeOK, NEW r \in Requests, BroadcastMove(r)
    PROVE  TypeOK'
<1>1. request[r] \in MoveReq /\ request[r].task \in DOMAIN task
  BY RequestKind DEF TypeOK, BroadcastMove, Idle
<1>2. emitted' \in [Tasks -> Seq(Nat)]
  BY <1>1 DEF TypeOK, BroadcastMove, MoveReq
<1>3. /\ AfterBroadcast(request[r]) \in {Idle} \cup MoveReq
      /\ AfterBroadcast(request[r]) # Idle =>
           AfterBroadcast(request[r]).task \in DOMAIN task
  BY <1>1 DEF AfterBroadcast, MoveReq
<1>4. QED  BY <1>2, <1>3 DEF TypeOK, BroadcastMove

LEMMA TypeNotifyReview ==
    ASSUME TypeOK, NEW r \in Requests, NotifyReview(r)
    PROVE  TypeOK'
<1>1. request[r] \in MoveReq /\ request[r].task \in Tasks
  BY RequestKind DEF TypeOK, NotifyReview, MoveReq
<1>2. notices' \in [Kinds -> [Tasks -> Nat]]
  BY <1>1, SMTT(20) DEF TypeOK, NotifyReview, Kinds
<1>3. QED  BY <1>2 DEF TypeOK, NotifyReview

LEMMA TypeSweepRead ==
    ASSUME TypeOK, NEW s \in Sweeps, SweepRead(s)
    PROVE  TypeOK'
  BY DEF TypeOK, SweepRead, Unflagged, NoSweep

\* The sweep's update raises the flag of the tasks it found and nothing else.
LEMMA FlagShape ==
    ASSUME TypeOK, NEW s \in Sweeps, SweepFlag(s)
    PROVE  /\ DOMAIN task' = DOMAIN task
           /\ \A t \in DOMAIN task :
                /\ task'[t] \in TaskRow
                /\ task'[t].status = task[t].status
                /\ task'[t].project = task[t].project
                /\ task'[t].assignee = task[t].assignee
                /\ task'[t].due = task[t].due
                /\ task'[t].isOverdue <=> task[t].isOverdue \/ t \in sweep[s].todo
<1>1. ASSUME NEW t \in DOMAIN task
      PROVE  /\ task'[t] \in TaskRow
             /\ task'[t].status = task[t].status
             /\ task'[t].project = task[t].project
             /\ task'[t].assignee = task[t].assignee
             /\ task'[t].due = task[t].due
             /\ task'[t].isOverdue <=> task[t].isOverdue \/ t \in sweep[s].todo
  <2>1. (task[t].isOverdue \/ t \in sweep[s].todo) \in BOOLEAN
    BY Zenon
  <2>2. PICK b \in BOOLEAN :
          /\ task'[t] = [task[t] EXCEPT !.isOverdue = b]
          /\ b <=> task[t].isOverdue \/ t \in sweep[s].todo
    BY <2>1, Zenon DEF SweepFlag
  <2>3. task[t] \in TaskRow
    BY DEF TypeOK
  <2>4. QED  BY <2>2, <2>3 DEF TaskRow
<1>2. QED  BY <1>1 DEF SweepFlag

LEMMA TypeSweepFlag ==
    ASSUME TypeOK, NEW s \in Sweeps, SweepFlag(s)
    PROVE  TypeOK'
<1>1. /\ DOMAIN task' = DOMAIN task
      /\ task' \in [DOMAIN task -> TaskRow]
      /\ \A t \in DOMAIN task : task'[t].assignee = task[t].assignee
  BY FlagShape DEF SweepFlag
<1>2. /\ Assigned(sweep[s].todo) \subseteq sweep[s].todo
      /\ \A t \in Assigned(sweep[s].todo) : task[t].assignee # NoUser
  BY DEF Assigned
<1>3. sweep' \in [Sweeps -> [pc : {"idle", "found", "flagged"}, todo : SUBSET Tasks]]
  BY <1>2 DEF TypeOK, SweepFlag, NoSweep
<1>4. \A x \in Sweeps :
        /\ sweep'[x].todo \subseteq DOMAIN task'
        /\ sweep'[x].pc = "flagged" =>
             \A t \in sweep'[x].todo : task'[t].assignee # NoUser
  BY <1>1, <1>2 DEF TypeOK, SweepFlag, NoSweep
<1>5. QED  BY <1>1, <1>3, <1>4 DEF TypeOK, SweepFlag

LEMMA TypeSweepNotify ==
    ASSUME TypeOK, NEW s \in Sweeps, NEW t \in Tasks, SweepNotify(s, t)
    PROVE  TypeOK'
<1>1. notices' \in [Kinds -> [Tasks -> Nat]]
  BY DEF TypeOK, SweepNotify, Kinds
<1>2. QED  BY <1>1 DEF TypeOK, SweepNotify, NoSweep

LEMMA TypeDueDatePasses ==
    ASSUME TypeOK, NEW t \in Tasks, DueDatePasses(t)
    PROVE  TypeOK'
<1>1. /\ DOMAIN task' = DOMAIN task
      /\ task' \in [DOMAIN task -> TaskRow]
      /\ \A x \in DOMAIN task : task'[x].assignee = task[x].assignee
  <2>1. task[t] \in TaskRow /\ t \in DOMAIN task
    BY DEF TypeOK, DueDatePasses
  <2>2. task' = [task EXCEPT ![t] = [task[t] EXCEPT !.due = "past"]]
    BY DEF DueDatePasses
  <2>3. /\ [task[t] EXCEPT !.due = "past"] \in TaskRow
        /\ [task[t] EXCEPT !.due = "past"].assignee = task[t].assignee
    BY <2>1 DEF TaskRow
  <2>4. task \in [DOMAIN task -> TaskRow]
    BY DEF TypeOK
  <2>5. QED  BY <2>1, <2>2, <2>3, <2>4
<1>2. /\ log' = log /\ emitted' = emitted /\ notices' = notices
      /\ request' = request /\ sweep' = sweep /\ faults' = faults
  BY DEF DueDatePasses
<1>3. QED  BY <1>1, <1>2 DEF TypeOK

LEMMA TypeFaults ==
    ASSUME TypeOK,
           \/ \E r \in Requests : RequestFails(r)
           \/ \E s \in Sweeps : SweepFails(s)
           \/ Crash
    PROVE  TypeOK'
<1>1. CASE \E r \in Requests : RequestFails(r)
  BY <1>1 DEF TypeOK, RequestFails, Fault, Idle
<1>2. CASE \E s \in Sweeps : SweepFails(s)
  BY <1>2 DEF TypeOK, SweepFails, Fault, NoSweep
<1>3. CASE Crash
  BY <1>3 DEF TypeOK, Crash, Fault, NoSweep
<1>4. QED  BY <1>1, <1>2, <1>3

LEMMA TypeNext == TypeOK /\ [Next]_vars => TypeOK'
<1> SUFFICES ASSUME TypeOK, [Next]_vars PROVE TypeOK'
  OBVIOUS
<1>1. ASSUME NEW r \in Requests, NEW t \in Tasks, NEW p \in Projects,
             NEW a \in Users \cup {NoUser}, NEW d \in {"none", "future", "past"},
             InsertTask(r, t, p, a, d)
      PROVE  TypeOK'
  BY <1>1, TypeInsertTask
<1>2. ASSUME NEW r \in Requests, NEW u \in Users, NEW t \in Tasks,
             NEW to \in Statuses, ReadTask(r, u, t, to)
      PROVE  TypeOK'
  BY <1>2, TypeReadTask
<1>3. ASSUME NEW r \in Requests, RequestStep(r)
      PROVE  TypeOK'
  BY <1>3, TypeNotifyAssigned, TypeCommitMove, TypeBroadcastMove, TypeNotifyReview
     DEF RequestStep
<1>4. ASSUME NEW s \in Sweeps, SweepStep(s)
      PROVE  TypeOK'
  BY <1>4, TypeSweepRead, TypeSweepFlag, TypeSweepNotify DEF SweepStep
<1>5. ASSUME NEW t \in Tasks, DueDatePasses(t)
      PROVE  TypeOK'
  BY <1>5, TypeDueDatePasses
<1>6. CASE UNCHANGED vars
  BY <1>6 DEF TypeOK, vars
<1>7. QED
  BY <1>1, <1>2, <1>3, <1>4, <1>5, <1>6, TypeFaults DEF Next

\* Type correctness: every table row and every local variable of a handler has
\* its type, and what a handler or a sweep holds refers to rows that exist.
THEOREM TypeCorrect == Spec => []TypeOK
  BY TypeInit, TypeNext, PTL DEF Spec
-------------------------------------------------------------------------------
\* The history.  What a request has checked stays true until it commits, because
\* nothing the checks read of the task, except its status, ever changes.

CheckedIsLegal ==
    \A r \in Requests :
        LET q == request[r] IN
        q.pc = "checked" => /\ <<q.from, q.to>> \in VALID_TRANSITIONS
                            /\ MayMove(q.actor, task[q.task])

HistoryInv == StatusIsLastLogged /\ HistoryIsLegal /\ CheckedIsLegal

\* Steps that neither log, nor move a task, nor check a new request.
LEMMA HistoryFrame ==
    ASSUME TypeOK, HistoryInv, TypeOK', log' = log,
           DOMAIN task' = DOMAIN task,
           \A t \in DOMAIN task : /\ task'[t].status = task[t].status
                                  /\ task'[t].project = task[t].project
                                  /\ task'[t].assignee = task[t].assignee,
           \A r \in Requests : request'[r].pc = "checked" => request'[r] = request[r]
    PROVE  HistoryInv'
<1>1. StatusIsLastLogged'
  BY DEF HistoryInv, StatusIsLastLogged, LastStatus
<1>2. HistoryIsLegal'
  BY DEF HistoryInv, HistoryIsLegal
<1>3. CheckedIsLegal'
  <2> SUFFICES ASSUME NEW r \in Requests, request'[r].pc = "checked"
               PROVE  /\ <<request'[r].from, request'[r].to>> \in VALID_TRANSITIONS
                      /\ MayMove(request'[r].actor, task'[request'[r].task])
    BY DEF CheckedIsLegal
  <2>1. request'[r] = request[r] /\ request[r].task \in DOMAIN task
    BY DEF TypeOK, Idle
  <2>2. QED  BY <2>1 DEF HistoryInv, CheckedIsLegal, MayMove
<1>4. QED  BY <1>1, <1>2, <1>3 DEF HistoryInv

LEMMA HistoryInsertTask ==
    ASSUME TypeOK, HistoryInv, NEW r \in Requests, NEW t \in Tasks,
           NEW p \in Projects, NEW a \in Users \cup {NoUser},
           NEW d \in {"none", "future", "past"}, InsertTask(r, t, p, a, d)
    PROVE  HistoryInv'
<1>1. /\ DOMAIN task' = DOMAIN task \cup {t} /\ t \notin DOMAIN task
      /\ task'[t].status = "TODO" /\ log' = log
      /\ \A x \in DOMAIN task : task'[x] = task[x]
  BY DEF TypeOK, InsertTask
<1>2. log[t] = <<>>
  BY <1>1 DEF HistoryInv, StatusIsLastLogged
<1>3. StatusIsLastLogged'
  BY <1>1, <1>2 DEF HistoryInv, StatusIsLastLogged, LastStatus
<1>4. HistoryIsLegal'
  BY <1>1, <1>2 DEF HistoryInv, HistoryIsLegal
<1>5. CheckedIsLegal'
  <2> SUFFICES ASSUME NEW q \in Requests, request'[q].pc = "checked"
               PROVE  /\ <<request'[q].from, request'[q].to>> \in VALID_TRANSITIONS
                      /\ MayMove(request'[q].actor, task'[request'[q].task])
    BY DEF CheckedIsLegal
  <2>1. request'[q] = request[q] /\ request[q].task \in DOMAIN task
    BY DEF TypeOK, InsertTask, Idle
  <2>2. QED  BY <1>1, <2>1 DEF HistoryInv, CheckedIsLegal
<1>6. QED  BY <1>3, <1>4, <1>5 DEF HistoryInv

LEMMA HistoryReadTask ==
    ASSUME TypeOK, HistoryInv, NEW r \in Requests, NEW u \in Users,
           NEW t \in Tasks, NEW to \in Statuses, ReadTask(r, u, t, to)
    PROVE  HistoryInv'
<1>1. StatusIsLastLogged' /\ HistoryIsLegal'
  BY DEF ReadTask, HistoryInv, StatusIsLastLogged, LastStatus, HistoryIsLegal
<1>2. CheckedIsLegal'
  <2> SUFFICES ASSUME NEW q \in Requests, request'[q].pc = "checked"
               PROVE  /\ <<request'[q].from, request'[q].to>> \in VALID_TRANSITIONS
                      /\ MayMove(request'[q].actor, task'[request'[q].task])
    BY DEF CheckedIsLegal
  <2>1. CASE q = r
    BY <2>1 DEF TypeOK, ReadTask
  <2>2. CASE q # r
    BY <2>2 DEF TypeOK, ReadTask, HistoryInv, CheckedIsLegal
  <2>3. QED  BY <2>1, <2>2
<1>3. QED  BY <1>1, <1>2 DEF HistoryInv

LEMMA HistoryCommitMove ==
    ASSUME TypeOK, HistoryInv, NEW r \in Requests, CommitMove(r)
    PROVE  HistoryInv'
<1> DEFINE q == request[r]
           entry == [actor |-> q.actor, from |-> q.from, to |-> q.to]
<1>1. /\ q \in MoveReq /\ q.pc = "checked"
      /\ q.task \in DOMAIN task /\ q.task \in Tasks
  BY CommitShape
<1>2. /\ DOMAIN task' = DOMAIN task
      /\ task'[q.task].status = q.to
      /\ \A t \in DOMAIN task : /\ task'[t].assignee = task[t].assignee
                                /\ task'[t].project = task[t].project
      /\ \A t \in DOMAIN task : t # q.task => task'[t] = task[t]
  <2>1. DOMAIN task' = DOMAIN task
    BY CommitShape
  <2>2. task'[q.task].status = q.to
    BY CommitShape
  <2>3. \A t \in DOMAIN task : /\ task'[t].assignee = task[t].assignee
                               /\ task'[t].project = task[t].project
    BY CommitShape
  <2>4. \A t \in DOMAIN task : t # q.task => task'[t] = task[t]
    BY CommitShape
  <2>5. QED  BY <2>1, <2>2, <2>3, <2>4
<1>3. log'[q.task] = Append(log[q.task], entry) /\ log[q.task] \in Seq(LogRow)
  BY CommitLog
<1>4. \A t \in Tasks : t # q.task => log'[t] = log[t]
  BY CommitLog
<1>5. entry \in LogRow /\ entry.to = q.to
  BY CommitLog
<1>6. /\ log'[q.task] # <<>>
      /\ Len(log'[q.task]) = Len(log[q.task]) + 1
      /\ log'[q.task][Len(log'[q.task])] = entry
      /\ \A i \in 1 .. Len(log[q.task]) : log'[q.task][i] = log[q.task][i]
  <2> HIDE DEF entry
  <2>1. QED  BY <1>3, <1>5, SMTT(20)
<1>7. StatusIsLastLogged'
  BY <1>1, <1>2, <1>4, <1>5, <1>6 DEF HistoryInv, StatusIsLastLogged, LastStatus
<1>8. HistoryIsLegal'
  <2> SUFFICES ASSUME NEW t \in DOMAIN task, NEW i \in DOMAIN log'[t]
               PROVE  LET row == log'[t][i] IN
                      /\ <<row.from, row.to>> \in VALID_TRANSITIONS
                      /\ \/ RoleOf[row.actor] = "ADMIN"
                         \/ /\ RoleOf[row.actor] = "PM"
                            /\ row.actor = PmOf[task[t].project]
                         \/ /\ RoleOf[row.actor] = "DEVELOPER"
                            /\ row.actor = task[t].assignee
    <3>1. DOMAIN task' = DOMAIN task
      BY <1>2
    <3>2. \A t \in DOMAIN task : /\ task'[t].assignee = task[t].assignee
                                 /\ task'[t].project = task[t].project
      BY <1>2
    <3>3. QED  BY <3>1, <3>2 DEF HistoryIsLegal
  <2>1. CASE t # q.task
    <3>1. t \in Tasks /\ log'[t] = log[t]
      BY <1>4, <2>1 DEF TypeOK
    <3>2. QED  BY <3>1 DEF HistoryInv, HistoryIsLegal
  <2>2. CASE t = q.task /\ i \in 1 .. Len(log[t])
    <3>1. log'[t][i] = log[t][i]
      BY <1>6, <2>2
    <3>2. i \in DOMAIN log[t]
      BY <1>3, <2>2
    <3>3. QED  BY <3>1, <3>2 DEF HistoryInv, HistoryIsLegal
  <2>3. CASE t = q.task /\ i = Len(log[t]) + 1
    <3>1. log'[t][i] = entry
      BY <1>6, <2>3
    <3>2. RoleOf[q.actor] \in Roles /\ q.actor \in Users
      BY <1>1, DomainAssumption DEF MoveReq
    <3>3. <<q.from, q.to>> \in VALID_TRANSITIONS /\ MayMove(q.actor, task[q.task])
      BY <1>1 DEF HistoryInv, CheckedIsLegal
    <3>4. QED  BY <2>3, <3>1, <3>2, <3>3 DEF MayMove, Roles
  <2>4. DOMAIN log'[q.task] = 1 .. Len(log[q.task]) + 1
    <3> HIDE DEF entry
    <3>1. QED  BY <1>3, <1>5
  <2>5. Len(log[q.task]) \in Nat
    BY <1>3
  <2>6. QED  BY <2>1, <2>2, <2>3, <2>4, <2>5, SMTT(20)
<1>9. CheckedIsLegal'
  <2> SUFFICES ASSUME NEW x \in Requests, request'[x].pc = "checked"
               PROVE  /\ <<request'[x].from, request'[x].to>> \in VALID_TRANSITIONS
                      /\ MayMove(request'[x].actor, task'[request'[x].task])
    BY DEF CheckedIsLegal
  <2>1. x # r /\ request'[x] = request[x]
    <3>1. request'[r].pc = "committed" /\ \A y \in Requests : y # r => request'[y] = request[y]
      BY CommitLog
    <3>2. QED  BY <3>1
  <2>2. request[x].task \in DOMAIN task
    BY <2>1 DEF TypeOK, Idle
  <2>3. QED  BY <1>2, <2>1, <2>2 DEF HistoryInv, CheckedIsLegal, MayMove
<1>10. QED  BY <1>7, <1>8, <1>9 DEF HistoryInv

LEMMA HistoryNext == TypeOK /\ TypeOK' /\ HistoryInv /\ [Next]_vars => HistoryInv'
<1> SUFFICES ASSUME TypeOK, TypeOK', HistoryInv, [Next]_vars PROVE HistoryInv'
  OBVIOUS
<1>1. ASSUME NEW r \in Requests, NEW t \in Tasks, NEW p \in Projects,
             NEW a \in Users \cup {NoUser}, NEW d \in {"none", "future", "past"},
             InsertTask(r, t, p, a, d)
      PROVE  HistoryInv'
  BY <1>1, HistoryInsertTask
<1>2. ASSUME NEW r \in Requests, NEW u \in Users, NEW t \in Tasks,
             NEW to \in Statuses, ReadTask(r, u, t, to)
      PROVE  HistoryInv'
  BY <1>2, HistoryReadTask
<1>3. ASSUME NEW r \in Requests, CommitMove(r)
      PROVE  HistoryInv'
  BY <1>3, HistoryCommitMove
<1>4. ASSUME NEW r \in Requests,
             NotifyAssigned(r) \/ BroadcastMove(r) \/ NotifyReview(r) \/ RequestFails(r)
      PROVE  HistoryInv'
  <2>1. log' = log /\ task' = task
    BY <1>4 DEF NotifyAssigned, BroadcastMove, NotifyReview, RequestFails
  <2>2. \A q \in Requests : request'[q].pc = "checked" => request'[q] = request[q]
    BY <1>4 DEF TypeOK, NotifyAssigned, BroadcastMove, NotifyReview, RequestFails,
                AfterBroadcast, Idle, MoveReq, CreateReq
  <2>3. QED  BY <2>1, <2>2, HistoryFrame
<1>5. ASSUME NEW s \in Sweeps, SweepStep(s) \/ SweepFails(s)
      PROVE  HistoryInv'
  <2>1. log' = log /\ request' = request
    BY <1>5 DEF SweepStep, SweepRead, SweepFlag, SweepNotify, SweepFails
  <2>2. /\ DOMAIN task' = DOMAIN task
        /\ \A t \in DOMAIN task : /\ task'[t].status = task[t].status
                                  /\ task'[t].project = task[t].project
                                  /\ task'[t].assignee = task[t].assignee
    <3>1. CASE SweepFlag(s)
      BY <3>1, FlagShape
    <3>2. CASE ~SweepFlag(s)
      BY <1>5, <3>2 DEF SweepStep, SweepRead, SweepNotify, SweepFails
    <3>3. QED  BY <3>1, <3>2
  <2>3. QED  BY <2>1, <2>2, HistoryFrame
<1>6. ASSUME NEW t \in Tasks, DueDatePasses(t)
      PROVE  HistoryInv'
  <2>1. /\ log' = log /\ request' = request /\ DOMAIN task' = DOMAIN task
        /\ \A x \in DOMAIN task : /\ task'[x].status = task[x].status
                                  /\ task'[x].project = task[x].project
                                  /\ task'[x].assignee = task[x].assignee
    BY <1>6 DEF TypeOK, DueDatePasses, TaskRow
  <2>2. QED  BY <2>1, HistoryFrame
<1>7. CASE Crash
  <2>1. log' = log /\ task' = task
    BY <1>7 DEF Crash
  <2>2. \A q \in Requests : request'[q].pc = "checked" => request'[q] = request[q]
    BY <1>7 DEF Crash, Idle
  <2>3. QED  BY <2>1, <2>2, HistoryFrame
<1>8. CASE UNCHANGED vars
  BY <1>8, HistoryFrame DEF vars
<1>9. QED
  BY <1>1, <1>2, <1>3, <1>4, <1>5, <1>6, <1>7, <1>8 DEF Next, RequestStep

LEMMA HistoryInit == Init => HistoryInv
  BY DEF Init, HistoryInv, StatusIsLastLogged, HistoryIsLegal, CheckedIsLegal, Idle

LEMMA HistoryAlways == Spec => []HistoryInv
  BY HistoryInit, HistoryNext, TypeCorrect, PTL DEF Spec

\* The status column and the newest row of the log agree in every state, with any
\* number of requests racing on a task and any failures.
THEOREM StatusMatchesLog == Spec => []StatusIsLastLogged
<1>1. HistoryInv => StatusIsLastLogged
  BY DEF HistoryInv
<1>2. QED  BY <1>1, HistoryAlways, PTL

\* Every logged move was a legal transition by a user with the right to make it.
THEOREM HistoryStaysLegal == Spec => []HistoryIsLegal
<1>1. HistoryInv => HistoryIsLegal
  BY DEF HistoryInv
<1>2. QED  BY <1>1, HistoryAlways, PTL
-------------------------------------------------------------------------------
\* The overdue flag.  A request may write back a flag it read long ago; it is
\* still true that the task is past due, and that its assignee was told of it.

Told(t) ==
    \/ notices["TASK_OVERDUE"][t] > 0
    \/ \E s \in Sweeps : sweep[s].pc = "flagged" /\ t \in sweep[s].todo

FlagIsBacked(t) ==
    /\ task[t].due = "past"
    /\ task[t].assignee # NoUser /\ faults = 0 => Told(t)

FlagReadIsBacked ==
    \A r \in Requests :
        request[r].pc = "checked" /\ request[r].isOverdue => FlagIsBacked(request[r].task)

FlagInv ==
    /\ OverdueIsReal
    /\ FlaggedIsNoticed
    /\ FlagReadIsBacked
    /\ \A t \in Tasks \ DOMAIN task : notices["TASK_OVERDUE"][t] = 0

LEMMA FlagSetIsBacked ==
    ASSUME FlagInv, NEW t \in DOMAIN task, task[t].isOverdue
    PROVE  FlagIsBacked(t)
  BY DEF FlagInv, OverdueIsReal, FlaggedIsNoticed, FlagIsBacked, Told

\* Steps that raise no flag beyond what a request had read, send no overdue
\* notice, put nothing on a sweep's list, and check no new request.
LEMMA FlagFrame ==
    ASSUME TypeOK, FlagInv, TypeOK',
           DOMAIN task' = DOMAIN task,
           \A t \in DOMAIN task :
               /\ task'[t].assignee = task[t].assignee
               /\ task[t].due = "past" => task'[t].due = "past"
               /\ task'[t].isOverdue =>
                    \/ task[t].isOverdue
                    \/ \E r \in Requests : /\ request[r].pc = "checked"
                                           /\ request[r].task = t
                                           /\ request[r].isOverdue,
           \A t \in Tasks : notices'["TASK_OVERDUE"][t] = notices["TASK_OVERDUE"][t],
           \A s \in Sweeps : sweep'[s].todo \subseteq sweep[s].todo,
           faults' = 0 => faults = 0 /\ sweep' = sweep,
           \A r \in Requests : request'[r].pc = "checked" => request'[r] = request[r]
    PROVE  FlagInv'
<1>1. ASSUME NEW t \in DOMAIN task, FlagIsBacked(t)
      PROVE  FlagIsBacked(t)'
  BY <1>1 DEF FlagIsBacked, Told, TypeOK
<1>2. ASSUME NEW t \in DOMAIN task, task'[t].isOverdue
      PROVE  FlagIsBacked(t)'
  <2>1. FlagIsBacked(t)
    BY <1>2, FlagSetIsBacked DEF FlagInv, FlagReadIsBacked
  <2>2. QED  BY <1>1, <2>1
<1>3. OverdueIsReal'
  BY <1>2 DEF FlagInv, OverdueIsReal, FlagIsBacked, TypeOK
<1>4. FlaggedIsNoticed'
  BY <1>2 DEF FlaggedIsNoticed, FlagIsBacked, Told
<1>5. FlagReadIsBacked'
  <2> SUFFICES ASSUME NEW r \in Requests, request'[r].pc = "checked", request'[r].isOverdue
               PROVE  FlagIsBacked(request[r].task)'
    BY DEF FlagReadIsBacked
  <2>1. request'[r] = request[r] /\ request[r].task \in DOMAIN task
    BY DEF TypeOK, Idle
  <2>2. FlagIsBacked(request[r].task)
    BY <2>1 DEF FlagInv, FlagReadIsBacked
  <2>3. QED  BY <1>1, <2>1, <2>2 DEF FlagIsBacked, Told
<1>6. QED  BY <1>3, <1>4, <1>5 DEF FlagInv

LEMMA FlagInsertTask ==
    ASSUME TypeOK, FlagInv, NEW r \in Requests, NEW t \in Tasks, NEW p \in Projects,
           NEW a \in Users \cup {NoUser}, NEW d \in {"none", "future", "past"},
           InsertTask(r, t, p, a, d)
    PROVE  FlagInv'
<1>1. /\ DOMAIN task' = DOMAIN task \cup {t} /\ t \notin DOMAIN task
      /\ task'[t].isOverdue = FALSE
      /\ \A x \in DOMAIN task : task'[x] = task[x]
      /\ notices' = notices /\ sweep' = sweep /\ faults' = faults
  BY DEF TypeOK, InsertTask
<1>2. notices["TASK_OVERDUE"][t] = 0 /\ \A s \in Sweeps : t \notin sweep[s].todo
  BY <1>1 DEF FlagInv, TypeOK
<1>3. OverdueIsReal'
  BY <1>1, <1>2 DEF FlagInv, OverdueIsReal
<1>4. FlaggedIsNoticed'
  BY <1>1, <1>2 DEF FlagInv, FlaggedIsNoticed
<1>5. FlagReadIsBacked'
  <2> SUFFICES ASSUME NEW q \in Requests, request'[q].pc = "checked", request'[q].isOverdue
               PROVE  FlagIsBacked(request[q].task)'
    BY DEF FlagReadIsBacked
  <2>1. request'[q] = request[q] /\ request[q].task \in DOMAIN task
    BY DEF TypeOK, InsertTask, Idle
  <2>2. FlagIsBacked(request[q].task)
    BY <2>1 DEF FlagInv, FlagReadIsBacked
  <2>3. QED  BY <1>1, <2>1, <2>2 DEF FlagIsBacked, Told
<1>6. QED  BY <1>1, <1>3, <1>4, <1>5 DEF FlagInv

LEMMA FlagReadTask ==
    ASSUME TypeOK, FlagInv, NEW r \in Requests, NEW u \in Users,
           NEW t \in Tasks, NEW to \in Statuses, ReadTask(r, u, t, to)
    PROVE  FlagInv'
<1>1. OverdueIsReal' /\ FlaggedIsNoticed'
  BY DEF ReadTask, FlagInv, OverdueIsReal, FlaggedIsNoticed
<1>2. FlagReadIsBacked'
  <2> SUFFICES ASSUME NEW q \in Requests, request'[q].pc = "checked", request'[q].isOverdue
               PROVE  FlagIsBacked(request[q].task)'
    BY DEF FlagReadIsBacked
  <2>1. CASE q = r
    <3>1. request'[r].task = t /\ t \in DOMAIN task /\ task[t].isOverdue
      BY <2>1 DEF TypeOK, ReadTask
    <3>2. FlagIsBacked(t)
      BY <3>1, FlagSetIsBacked
    <3>3. QED  BY <2>1, <3>1, <3>2 DEF ReadTask, FlagIsBacked, Told
  <2>2. CASE q # r
    <3>1. request'[q] = request[q]
      BY <2>2 DEF TypeOK, ReadTask
    <3>2. QED  BY <3>1 DEF ReadTask, FlagInv, FlagReadIsBacked, FlagIsBacked, Told
  <2>3. QED  BY <2>1, <2>2
<1>3. QED  BY <1>1, <1>2 DEF FlagInv, ReadTask

LEMMA FlagSweepRead ==
    ASSUME TypeOK, FlagInv, NEW s \in Sweeps, SweepRead(s)
    PROVE  FlagInv'
<1>1. /\ sweep[s].pc = "idle" /\ sweep[s].todo = {}
      /\ \A x \in Sweeps : x # s => sweep'[x] = sweep[x]
      /\ sweep'[s].todo = Unflagged
      /\ task' = task /\ notices' = notices /\ faults' = faults /\ request' = request
  BY DEF TypeOK, SweepRead, NoSweep
<1>2. \A t \in Unflagged : task[t].due = "past"
  BY DEF Unflagged, Overdue
<1>3. ASSUME NEW t, Told(t)
      PROVE  Told(t)'
  BY <1>1, <1>3 DEF Told
<1>4. OverdueIsReal'
  BY <1>1, <1>2 DEF FlagInv, OverdueIsReal
<1>5. FlaggedIsNoticed'
  BY <1>1, <1>3 DEF FlagInv, FlaggedIsNoticed, Told
<1>6. FlagReadIsBacked'
  BY <1>1, <1>3 DEF FlagInv, FlagReadIsBacked, FlagIsBacked, Told
<1>7. QED  BY <1>1, <1>4, <1>5, <1>6 DEF FlagInv

LEMMA FlagSweepFlag ==
    ASSUME TypeOK, FlagInv, NEW s \in Sweeps, SweepFlag(s)
    PROVE  FlagInv'
<1>1. /\ DOMAIN task' = DOMAIN task
      /\ \A t \in DOMAIN task :
           /\ task'[t].assignee = task[t].assignee
           /\ task'[t].due = task[t].due
           /\ task'[t].isOverdue <=> task[t].isOverdue \/ t \in sweep[s].todo
  BY FlagShape
<1>2. /\ notices' = notices /\ faults' = faults /\ request' = request
      /\ \A x \in Sweeps : x # s => sweep'[x] = sweep[x]
      /\ sweep[s].pc = "found"
  BY DEF TypeOK, SweepFlag
<1>3. /\ sweep'[s].todo = Assigned(sweep[s].todo)
      /\ Assigned(sweep[s].todo) # {} => sweep'[s].pc = "flagged"
  BY DEF TypeOK, SweepFlag, NoSweep
<1>4. /\ Assigned(sweep[s].todo) \subseteq sweep[s].todo
      /\ \A t \in sweep[s].todo :
           task[t].assignee # NoUser => t \in Assigned(sweep[s].todo)
  BY DEF Assigned
<1>5. ASSUME NEW t, Told(t)
      PROVE  Told(t)'
  BY <1>2, <1>5 DEF Told
<1>6. ASSUME NEW t \in sweep[s].todo, task[t].assignee # NoUser
      PROVE  Told(t)'
  BY <1>3, <1>4, <1>6 DEF Told
<1>7. OverdueIsReal'
  BY <1>1, <1>2, <1>3, <1>4 DEF FlagInv, OverdueIsReal
<1>8. FlaggedIsNoticed'
  BY <1>1, <1>2, <1>5, <1>6 DEF FlagInv, FlaggedIsNoticed, Told
<1>9. FlagReadIsBacked'
  <2> SUFFICES ASSUME NEW r \in Requests, request'[r].pc = "checked", request'[r].isOverdue
               PROVE  FlagIsBacked(request[r].task)'
    BY DEF FlagReadIsBacked
  <2>1. PICK x \in DOMAIN task : x = request[r].task /\ FlagIsBacked(x)
    BY <1>2 DEF FlagInv, FlagReadIsBacked, TypeOK, Idle
  <2>2. Told(x) => Told(x)'
    BY <1>5
  <2>3. FlagIsBacked(x)'
    BY <1>1, <1>2, <2>1, <2>2 DEF FlagIsBacked
  <2>4. QED  BY <1>2, <2>1, <2>3 DEF FlagIsBacked, Told
<1>10. QED  BY <1>1, <1>2, <1>7, <1>8, <1>9 DEF FlagInv

LEMMA FlagSweepNotify ==
    ASSUME TypeOK, FlagInv, NEW s \in Sweeps, NEW t \in Tasks, SweepNotify(s, t)
    PROVE  FlagInv'
<1>1. /\ sweep[s].pc = "flagged" /\ t \in sweep[s].todo /\ t \in DOMAIN task
      /\ task' = task /\ request' = request /\ faults' = faults
      /\ \A x \in Sweeps : x # s => sweep'[x] = sweep[x]
      /\ sweep'[s].todo = sweep[s].todo \ {t}
      /\ sweep[s].todo # {t} => sweep'[s].pc = "flagged"
  BY DEF TypeOK, SweepNotify, NoSweep
<1>2. /\ notices'["TASK_OVERDUE"][t] > 0
      /\ \A x \in Tasks : x # t => notices'["TASK_OVERDUE"][x] = notices["TASK_OVERDUE"][x]
  BY DEF TypeOK, SweepNotify, Kinds
<1>3. ASSUME NEW x \in Tasks, Told(x)
      PROVE  Told(x)'
  BY <1>1, <1>2, <1>3 DEF Told
<1>4. OverdueIsReal'
  BY <1>1, <1>2 DEF FlagInv, OverdueIsReal, TypeOK
<1>5. FlaggedIsNoticed'
  BY <1>1, <1>3 DEF FlagInv, FlaggedIsNoticed, Told, TypeOK
<1>6. FlagReadIsBacked'
  <2> SUFFICES ASSUME NEW r \in Requests, request'[r].pc = "checked", request'[r].isOverdue
               PROVE  FlagIsBacked(request[r].task)'
    BY DEF FlagReadIsBacked
  <2>1. PICK x \in DOMAIN task : x = request[r].task /\ FlagIsBacked(x)
    BY <1>1 DEF FlagInv, FlagReadIsBacked, TypeOK, Idle
  <2>2. Told(x) => Told(x)'
    BY <1>3 DEF TypeOK
  <2>3. FlagIsBacked(x)'
    BY <1>1, <1>2, <2>1, <2>2 DEF FlagIsBacked
  <2>4. QED  BY <1>1, <2>1, <2>3 DEF FlagIsBacked, Told
<1>7. QED  BY <1>1, <1>2, <1>4, <1>5, <1>6 DEF FlagInv

LEMMA FlagNext == TypeOK /\ TypeOK' /\ FlagInv /\ [Next]_vars => FlagInv'
<1> SUFFICES ASSUME TypeOK, TypeOK', FlagInv, [Next]_vars PROVE FlagInv'
  OBVIOUS
<1>1. ASSUME NEW r \in Requests, NEW t \in Tasks, NEW p \in Projects,
             NEW a \in Users \cup {NoUser}, NEW d \in {"none", "future", "past"},
             InsertTask(r, t, p, a, d)
      PROVE  FlagInv'
  BY <1>1, FlagInsertTask
<1>2. ASSUME NEW r \in Requests, NEW u \in Users, NEW t \in Tasks,
             NEW to \in Statuses, ReadTask(r, u, t, to)
      PROVE  FlagInv'
  BY <1>2, FlagReadTask
<1>3. ASSUME NEW r \in Requests, CommitMove(r)
      PROVE  FlagInv'
  <2> DEFINE q == request[r]
  <2>1. /\ q \in MoveReq /\ q.pc = "checked" /\ q.task \in DOMAIN task
        /\ DOMAIN task' = DOMAIN task
        /\ \A t \in DOMAIN task : /\ task'[t].assignee = task[t].assignee
                                  /\ task'[t].due = task[t].due
        /\ task'[q.task].isOverdue = WrittenFlag(q)
        /\ \A t \in DOMAIN task : t # q.task => task'[t] = task[t]
    BY <1>3, CommitShape
  <2>2. task'[q.task].isOverdue => q.isOverdue
    BY <2>1 DEF WrittenFlag
  <2>3. notices' = notices /\ sweep' = sweep /\ faults' = faults
    BY <1>3 DEF CommitMove
  <2>4. \A x \in Requests : request'[x].pc = "checked" => request'[x] = request[x]
    <3>1. request'[r].pc # "checked"
      BY <1>3, CommitLog
    <3>2. \A x \in Requests : x # r => request'[x] = request[x]
      BY <1>3, CommitLog
    <3>3. QED  BY <3>1, <3>2
  <2>5. QED  BY <2>1, <2>2, <2>3, <2>4, FlagFrame
<1>4. ASSUME NEW r \in Requests,
             NotifyAssigned(r) \/ BroadcastMove(r) \/ NotifyReview(r)
      PROVE  FlagInv'
  <2>1. task' = task /\ sweep' = sweep /\ faults' = faults
    BY <1>4 DEF NotifyAssigned, BroadcastMove, NotifyReview
  <2>2. \A t \in Tasks : notices'["TASK_OVERDUE"][t] = notices["TASK_OVERDUE"][t]
    <3>1. CASE NotifyAssigned(r)
      BY <3>1 DEF TypeOK, Kinds, NotifyAssigned
    <3>2. CASE BroadcastMove(r)
      BY <3>2 DEF BroadcastMove
    <3>3. CASE NotifyReview(r)
      BY <3>3 DEF TypeOK, Kinds, NotifyReview
    <3>4. QED  BY <1>4, <3>1, <3>2, <3>3
  <2>3. \A q \in Requests : request'[q].pc = "checked" => request'[q] = request[q]
    <3>1. CASE NotifyAssigned(r) \/ NotifyReview(r)
      BY <3>1 DEF TypeOK, NotifyAssigned, NotifyReview, Idle
    <3>2. CASE BroadcastMove(r)
      BY <3>2 DEF TypeOK, BroadcastMove, AfterBroadcast, Idle, MoveReq, CreateReq
    <3>3. QED  BY <1>4, <3>1, <3>2
  <2>4. QED  BY <2>1, <2>2, <2>3, FlagFrame
<1>5. ASSUME NEW s \in Sweeps, SweepStep(s)
      PROVE  FlagInv'
  BY <1>5, FlagSweepRead, FlagSweepFlag, FlagSweepNotify DEF SweepStep
<1>6. ASSUME NEW t \in Tasks, DueDatePasses(t)
      PROVE  FlagInv'
  <2>1. /\ DOMAIN task' = DOMAIN task
        /\ \A x \in DOMAIN task : /\ task'[x].assignee = task[x].assignee
                                  /\ task[x].due = "past" => task'[x].due = "past"
                                  /\ task'[x].isOverdue = task[x].isOverdue
    BY <1>6 DEF TypeOK, DueDatePasses, TaskRow
  <2>2. UNCHANGED <<notices, sweep, faults, request>>
    BY <1>6 DEF DueDatePasses
  <2>3. QED  BY <2>1, <2>2, FlagFrame
<1>7. CASE \/ \E r \in Requests : RequestFails(r)
           \/ \E s \in Sweeps : SweepFails(s)
           \/ Crash
  <2>1. task' = task /\ notices' = notices /\ faults' # 0
    BY <1>7 DEF TypeOK, RequestFails, SweepFails, Crash, Fault
  <2>2. \A q \in Requests : request'[q].pc = "checked" => request'[q] = request[q]
    BY <1>7 DEF TypeOK, RequestFails, SweepFails, Crash, Idle
  <2>3. \A s \in Sweeps : sweep'[s].todo \subseteq sweep[s].todo
    <3>1. CASE \E s \in Sweeps : SweepFails(s)
      BY <3>1 DEF TypeOK, SweepFails, NoSweep
    <3>2. CASE Crash
      BY <3>2 DEF Crash, NoSweep
    <3>3. CASE \E r \in Requests : RequestFails(r)
      BY <3>3 DEF RequestFails
    <3>4. QED  BY <1>7, <3>1, <3>2, <3>3
  <2>4. QED  BY <2>1, <2>2, <2>3, FlagFrame
<1>8. CASE UNCHANGED vars
  BY <1>8, FlagFrame DEF vars
<1>9. QED
  BY <1>1, <1>2, <1>3, <1>4, <1>5, <1>6, <1>7, <1>8 DEF Next, RequestStep

LEMMA FlagInit == Init => FlagInv
  BY DEF Init, FlagInv, OverdueIsReal, FlaggedIsNoticed, FlagReadIsBacked, Idle,
         NoSweep, Kinds

LEMMA FlagAlways == Spec => []FlagInv
  BY FlagInit, FlagNext, TypeCorrect, PTL DEF Spec

\* No task is flagged, listed or reported as overdue before its due date.
THEOREM OverdueStaysReal == Spec => []OverdueIsReal
<1>1. FlagInv => OverdueIsReal
  BY DEF FlagInv
<1>2. QED  BY <1>1, FlagAlways, PTL

\* Without faults no flag is silent: its task's assignee is told.
THEOREM FlaggedStaysNoticed == Spec => []FlaggedIsNoticed
<1>1. FlagInv => FlaggedIsNoticed
  BY DEF FlagInv
<1>2. QED  BY <1>1, FlagAlways, PTL
-------------------------------------------------------------------------------
\* The refinement of Board.  A committed request owns its row number, which no
\* one has broadcast; alone, it also moves from the status the task still has.

RowsAreOwned ==
    /\ \A t \in Tasks : \A k \in 1 .. Len(emitted[t]) :
         emitted[t][k] \in 1 .. Len(log[t])
    /\ \A r \in Requests : request[r].pc = "committed" =>
         /\ request[r].row \in 1 .. Len(log[request[r].task])
         /\ \A k \in 1 .. Len(emitted[request[r].task]) :
              emitted[request[r].task][k] # request[r].row
    /\ \A q, r \in Requests :
         /\ request[q].pc = "committed" /\ request[r].pc = "committed"
         /\ request[q].task = request[r].task /\ q # r
         => request[q].row # request[r].row

AloneIsFresh ==
    SingleFlight =>
        \A r \in Requests :
            /\ request[r].pc = "checked" => request[r].from = task[request[r].task].status
            /\ request[r].pc = "committed" =>
                 \A k \in 1 .. Len(emitted[request[r].task]) :
                     emitted[request[r].task][k] < request[r].row

BoardInv == RowsAreOwned /\ AloneIsFresh

\* Steps that neither log nor broadcast, change no status, and leave every
\* checked or committed request as it was.
LEMMA BoardFrame ==
    ASSUME TypeOK, BoardInv, log' = log, emitted' = emitted,
           \A t \in DOMAIN task : task'[t].status = task[t].status,
           \A r \in Requests :
               request'[r].pc \in {"checked", "committed"} => request'[r] = request[r]
    PROVE  BoardInv'
<1>1. RowsAreOwned'
  BY DEF BoardInv, RowsAreOwned
<1>2. AloneIsFresh'
  <2> SUFFICES ASSUME SingleFlight, NEW r \in Requests,
                      request'[r].pc \in {"checked", "committed"}
               PROVE  /\ request[r].pc = "checked" =>
                           request[r].from = task'[request[r].task].status
                      /\ request[r].pc = "committed" =>
                           \A k \in 1 .. Len(emitted[request[r].task]) :
                               emitted[request[r].task][k] < request[r].row
    BY DEF AloneIsFresh, SingleFlight
  <2>1. request'[r] = request[r] /\ request[r].task \in DOMAIN task
    BY DEF TypeOK, Idle
  <2>2. QED  BY <2>1 DEF BoardInv, AloneIsFresh
<1>3. QED  BY <1>1, <1>2 DEF BoardInv

LEMMA CommittedHasTask ==
    ASSUME TypeOK, NEW x \in Requests, request[x].pc = "committed"
    PROVE  request[x].task \in Tasks
<1>1. request[x] \in MoveReq
  BY RequestKind DEF TypeOK
<1>2. QED  BY <1>1 DEF MoveReq

LEMMA BoardReadTask ==
    ASSUME TypeOK, BoardInv, NEW r \in Requests, NEW u \in Users,
           NEW t \in Tasks, NEW to \in Statuses, ReadTask(r, u, t, to)
    PROVE  BoardInv'
<1>1. /\ task' = task /\ log' = log /\ emitted' = emitted
      /\ request'[r].pc = "checked" /\ request'[r].task = t
      /\ request'[r].from = task[t].status
      /\ \A x \in Requests : x # r => request'[x] = request[x]
  BY DEF TypeOK, ReadTask
<1>2. RowsAreOwned'
  BY <1>1 DEF BoardInv, RowsAreOwned
<1>3. AloneIsFresh'
  BY <1>1 DEF AloneIsFresh, SingleFlight
<1>4. QED  BY <1>2, <1>3 DEF BoardInv

LEMMA BoardCommitMove ==
    ASSUME TypeOK, BoardInv, NEW r \in Requests, CommitMove(r)
    PROVE  BoardInv'
<1> DEFINE q == request[r]
<1>1. q \in MoveReq /\ q.task \in Tasks
  BY CommitShape
<1>2. /\ Len(log'[q.task]) = Len(log[q.task]) + 1
      /\ \A t \in Tasks : t # q.task => log'[t] = log[t]
      /\ emitted' = emitted
  <2>1. emitted' = emitted
    BY DEF CommitMove
  <2>2. QED  BY <2>1, CommitLog
<1>3. /\ request'[r].pc = "committed" /\ request'[r].task = q.task
      /\ request'[r].row = Len(log[q.task]) + 1
      /\ \A x \in Requests : x # r => request'[x] = request[x]
  <2>1. \A n : LET new == [q EXCEPT !.pc = "committed", !.row = n] IN
               new.pc = "committed" /\ new.task = q.task /\ new.row = n
    BY <1>1 DEF MoveReq
  <2>2. request' = [request EXCEPT ![r] =
                      [q EXCEPT !.pc = "committed", !.row = Len(log'[q.task])]]
    BY CommitShape
  <2>3. /\ request'[r] = [q EXCEPT !.pc = "committed", !.row = Len(log'[q.task])]
        /\ \A x \in Requests : x # r => request'[x] = request[x]
    BY <2>2 DEF TypeOK
  <2>4. QED  BY <1>2, <2>1, <2>3
<1>4. \A t \in Tasks : Len(log[t]) \in Nat
  BY DEF TypeOK
<1>5. \A x \in Requests : request[x].pc = "committed" => request[x].task \in Tasks
  BY CommittedHasTask
<1>6. RowsAreOwned'
  <2>1. \A t \in Tasks : \A k \in 1 .. Len(emitted'[t]) :
          emitted'[t][k] \in 1 .. Len(log'[t])
    BY <1>1, <1>2, <1>4 DEF BoardInv, RowsAreOwned
  <2>2. ASSUME NEW x \in Requests, request'[x].pc = "committed"
        PROVE  /\ request'[x].row \in 1 .. Len(log'[request'[x].task])
               /\ \A k \in 1 .. Len(emitted'[request'[x].task]) :
                    emitted'[request'[x].task][k] # request'[x].row
    <3>1. CASE x = r
      <4>1. /\ request'[x].row = Len(log[q.task]) + 1 /\ request'[x].task = q.task
            /\ Len(log'[q.task]) = Len(log[q.task]) + 1 /\ Len(log[q.task]) \in Nat
        BY <1>1, <1>2, <1>3, <1>4, <3>1
      <4>2. \A k \in 1 .. Len(emitted[q.task]) :
              emitted[q.task][k] \in 1 .. Len(log[q.task])
        BY <1>1 DEF BoardInv, RowsAreOwned
      <4>3. QED  BY <1>2, <4>1, <4>2
    <3>2. CASE x # r
      <4>1. request'[x] = request[x] /\ request[x].task \in Tasks
        BY <1>3, <1>5, <2>2, <3>2
      <4>2. request[x].row \in 1 .. Len(log[request[x].task])
        BY <2>2, <4>1 DEF BoardInv, RowsAreOwned
      <4>3. request[x].row \in 1 .. Len(log'[request[x].task])
        BY <1>1, <1>2, <1>4, <4>1, <4>2
      <4>4. QED  BY <1>2, <2>2, <4>1, <4>3 DEF BoardInv, RowsAreOwned
    <3>3. QED  BY <3>1, <3>2
  <2>3. ASSUME NEW x \in Requests, x # r,
               request[x].pc = "committed", request[x].task = q.task
        PROVE  request[x].row # Len(log[q.task]) + 1
    BY <1>1, <1>4, <2>3 DEF BoardInv, RowsAreOwned
  <2>4. \A x, y \in Requests :
          /\ request'[x].pc = "committed" /\ request'[y].pc = "committed"
          /\ request'[x].task = request'[y].task /\ x # y
          => request'[x].row # request'[y].row
    BY <1>3, <2>3 DEF BoardInv, RowsAreOwned
  <2>5. QED  BY <2>1, <2>2, <2>4 DEF RowsAreOwned
<1>7. AloneIsFresh'
  <2> SUFFICES ASSUME SingleFlight PROVE AloneIsFresh'
    BY DEF AloneIsFresh, SingleFlight
  <2>1. \A x \in Requests : x = r
    BY DEF SingleFlight
  <2>2. request'[r].pc # "checked"
    BY <1>3
  <2>3. \A k \in 1 .. Len(emitted[q.task]) : emitted[q.task][k] < Len(log[q.task]) + 1
    BY <1>1, <1>4 DEF BoardInv, RowsAreOwned
  <2>4. \A k \in 1 .. Len(emitted'[request'[r].task]) :
          emitted'[request'[r].task][k] < request'[r].row
    BY <1>2, <1>3, <2>3
  <2>5. QED  BY <2>1, <2>2, <2>4 DEF AloneIsFresh
<1>8. QED  BY <1>6, <1>7 DEF BoardInv

LEMMA BoardBroadcastMove ==
    ASSUME TypeOK, BoardInv, NEW r \in Requests, BroadcastMove(r)
    PROVE  BoardInv'
<1> DEFINE q == request[r]
<1>1. q \in MoveReq /\ q.task \in Tasks /\ q.pc = "committed" /\ q.row \in Nat
  BY RequestKind DEF TypeOK, BroadcastMove, Idle, MoveReq
<1>2. /\ emitted'[q.task] = Append(emitted[q.task], q.row)
      /\ \A t \in Tasks : t # q.task => emitted'[t] = emitted[t]
      /\ log' = log /\ task' = task
      /\ request'[r].pc \notin {"checked", "committed"}
      /\ \A x \in Requests : x # r => request'[x] = request[x]
  BY <1>1 DEF TypeOK, BroadcastMove, AfterBroadcast, Idle, MoveReq
<1>3. emitted[q.task] \in Seq(Nat)
  BY <1>1 DEF TypeOK
<1>4. /\ Len(emitted'[q.task]) = Len(emitted[q.task]) + 1
      /\ \A k \in 1 .. Len(emitted[q.task]) : emitted'[q.task][k] = emitted[q.task][k]
      /\ emitted'[q.task][Len(emitted[q.task]) + 1] = q.row
      /\ Len(emitted[q.task]) \in Nat
  BY <1>1, <1>2, <1>3
<1>5. RowsAreOwned'
  <2>1. \A t \in Tasks : \A k \in 1 .. Len(emitted'[t]) :
          emitted'[t][k] \in 1 .. Len(log'[t])
    <3>1. q.row \in 1 .. Len(log[q.task])
      BY <1>1 DEF BoardInv, RowsAreOwned
    <3>2. \A k \in 1 .. Len(emitted'[q.task]) : emitted'[q.task][k] \in 1 .. Len(log[q.task])
      <4>1. \A k \in 1 .. Len(emitted[q.task]) : emitted[q.task][k] \in 1 .. Len(log[q.task])
        BY <1>1 DEF BoardInv, RowsAreOwned
      <4> SUFFICES ASSUME NEW k \in 1 .. Len(emitted'[q.task])
                   PROVE  emitted'[q.task][k] \in 1 .. Len(log[q.task])
        OBVIOUS
      <4>2. k \in 1 .. Len(emitted[q.task]) \/ k = Len(emitted[q.task]) + 1
        BY <1>4
      <4>3. QED  BY <1>4, <3>1, <4>1, <4>2
    <3>3. QED  BY <1>2, <3>2 DEF BoardInv, RowsAreOwned
  <2>2. ASSUME NEW x \in Requests, request'[x].pc = "committed"
        PROVE  /\ request'[x].row \in 1 .. Len(log'[request'[x].task])
               /\ \A k \in 1 .. Len(emitted'[request'[x].task]) :
                    emitted'[request'[x].task][k] # request'[x].row
    <3>1. x # r /\ request'[x] = request[x] /\ request[x].pc = "committed"
      BY <1>2, <2>2
    <3>2. request[x].task \in Tasks
      BY <3>1, CommittedHasTask
    <3>3. request[x].task = q.task => request[x].row # q.row
      BY <1>1, <3>1 DEF BoardInv, RowsAreOwned
    <3>4. /\ request[x].row \in 1 .. Len(log[request[x].task])
          /\ \A k \in 1 .. Len(emitted[request[x].task]) :
               emitted[request[x].task][k] # request[x].row
      BY <3>1 DEF BoardInv, RowsAreOwned
    <3>5. \A k \in 1 .. Len(emitted'[request[x].task]) :
            emitted'[request[x].task][k] # request[x].row
      <4>1. CASE request[x].task = q.task
        BY <1>4, <3>3, <3>4, <4>1
      <4>2. CASE request[x].task # q.task
        BY <1>2, <3>2, <3>4, <4>2
      <4>3. QED  BY <4>1, <4>2
    <3>6. QED  BY <1>2, <3>1, <3>4, <3>5
  <2>3. \A x, y \in Requests :
          /\ request'[x].pc = "committed" /\ request'[y].pc = "committed"
          /\ request'[x].task = request'[y].task /\ x # y
          => request'[x].row # request'[y].row
    BY <1>2 DEF BoardInv, RowsAreOwned
  <2>4. QED  BY <2>1, <2>2, <2>3 DEF RowsAreOwned
<1>6. AloneIsFresh'
  BY <1>2 DEF AloneIsFresh, SingleFlight
<1>7. QED  BY <1>5, <1>6 DEF BoardInv

LEMMA BoardInit == Init => BoardInv
  BY DEF Init, BoardInv, RowsAreOwned, AloneIsFresh, Idle

LEMMA BoardInvNext == TypeOK /\ TypeOK' /\ BoardInv /\ [Next]_vars => BoardInv'
<1> SUFFICES ASSUME TypeOK, TypeOK', BoardInv, [Next]_vars PROVE BoardInv'
  OBVIOUS
<1>1. ASSUME NEW r \in Requests, NEW t \in Tasks, NEW p \in Projects,
             NEW a \in Users \cup {NoUser}, NEW d \in {"none", "future", "past"},
             InsertTask(r, t, p, a, d)
      PROVE  BoardInv'
  <2>1. \A x \in DOMAIN task : task'[x].status = task[x].status
    BY <1>1 DEF InsertTask
  <2>2. \A q \in Requests :
          request'[q].pc \in {"checked", "committed"} => request'[q] = request[q]
    BY <1>1 DEF TypeOK, InsertTask, Idle
  <2>3. QED  BY <1>1, <2>1, <2>2, BoardFrame DEF InsertTask
<1>2. ASSUME NEW r \in Requests, NEW u \in Users, NEW t \in Tasks,
             NEW to \in Statuses, ReadTask(r, u, t, to)
      PROVE  BoardInv'
  BY <1>2, BoardReadTask
<1>3. ASSUME NEW r \in Requests, CommitMove(r) \/ BroadcastMove(r)
      PROVE  BoardInv'
  BY <1>3, BoardCommitMove, BoardBroadcastMove
<1>4. ASSUME NEW r \in Requests, NotifyAssigned(r) \/ NotifyReview(r) \/ RequestFails(r)
      PROVE  BoardInv'
  <2>1. UNCHANGED <<task, log, emitted>>
    BY <1>4 DEF NotifyAssigned, NotifyReview, RequestFails
  <2>2. \A q \in Requests :
          request'[q].pc \in {"checked", "committed"} => request'[q] = request[q]
    BY <1>4 DEF TypeOK, NotifyAssigned, NotifyReview, RequestFails, Idle
  <2>3. QED  BY <2>1, <2>2, BoardFrame
<1>5. ASSUME NEW s \in Sweeps, SweepStep(s) \/ SweepFails(s)
      PROVE  BoardInv'
  <2>1. UNCHANGED <<log, emitted, request>>
    BY <1>5 DEF SweepStep, SweepRead, SweepFlag, SweepNotify, SweepFails
  <2>2. \A t \in DOMAIN task : task'[t].status = task[t].status
    <3>1. CASE SweepFlag(s)
      BY <3>1, FlagShape
    <3>2. CASE ~SweepFlag(s)
      BY <1>5, <3>2 DEF SweepStep, SweepRead, SweepNotify, SweepFails
    <3>3. QED  BY <3>1, <3>2
  <2>3. QED  BY <2>1, <2>2, BoardFrame
<1>6. ASSUME NEW t \in Tasks, DueDatePasses(t)
      PROVE  BoardInv'
  <2>1. \A x \in DOMAIN task : task'[x].status = task[x].status
    BY <1>6 DEF TypeOK, DueDatePasses, TaskRow
  <2>2. QED  BY <1>6, <2>1, BoardFrame DEF DueDatePasses
<1>7. CASE Crash
  BY <1>7, BoardFrame DEF Crash, Idle
<1>8. CASE UNCHANGED vars
  BY <1>8, BoardFrame DEF vars
<1>9. QED
  BY <1>1, <1>2, <1>3, <1>4, <1>5, <1>6, <1>7, <1>8 DEF Next, RequestStep

\* What the board sees of a step: the status column, the log and the broadcasts.
boardView == <<[t \in DOMAIN task |-> task[t].status], log, emitted>>

LEMMA StepRefines ==
    TypeOK /\ TypeOK' /\ HistoryInv /\ BoardInv /\ [Next]_vars => [B!Next]_boardView
<1> SUFFICES ASSUME TypeOK, TypeOK', HistoryInv, BoardInv, [Next]_vars
             PROVE  [B!Next]_boardView
  OBVIOUS
<1> USE DEF boardView
<1>1. ASSUME NEW r \in Requests, NEW t \in Tasks, NEW p \in Projects,
             NEW a \in Users \cup {NoUser}, NEW d \in {"none", "future", "past"},
             InsertTask(r, t, p, a, d)
      PROVE  B!Create(t)
  <2>1. /\ t \notin DOMAIN task /\ DOMAIN task' = DOMAIN task \cup {t}
        /\ \A x \in DOMAIN task' :
             task'[x].status = IF x = t THEN "TODO" ELSE task[x].status
        /\ UNCHANGED <<log, emitted>>
    BY <1>1 DEF InsertTask
  <2>2. QED  BY <2>1 DEF B!Create
<1>2. ASSUME NEW r \in Requests, CommitMove(r), NEW q, q = request[r]
      PROVE  B!Move(q.task, q.actor, q.from, q.to)
  <2>1. /\ q \in MoveReq /\ q.pc = "checked" /\ q.task \in DOMAIN task
        /\ DOMAIN task' = DOMAIN task
        /\ task'[q.task].status = q.to
        /\ \A t \in DOMAIN task : t # q.task => task'[t] = task[t]
        /\ log' = [log EXCEPT ![q.task] =
                     Append(log[q.task],
                            [actor |-> q.actor, from |-> q.from, to |-> q.to])]
    BY <1>2, CommitShape
  <2>2. <<q.from, q.to>> \in VALID_TRANSITIONS
    BY <1>2, <2>1 DEF HistoryInv, CheckedIsLegal
  <2>3. SingleFlight => q.from = task[q.task].status
    BY <1>2, <2>1 DEF BoardInv, AloneIsFresh
  <2>4. [t \in DOMAIN task' |-> task'[t].status] =
          [[t \in DOMAIN task |-> task[t].status] EXCEPT ![q.task] = q.to]
    BY <2>1
  <2>5. emitted' = emitted
    BY <1>2 DEF CommitMove
  <2>6. DOMAIN [t \in DOMAIN task |-> task[t].status] = DOMAIN task
    OBVIOUS
  <2>7. SingleFlight => q.from = [t \in DOMAIN task |-> task[t].status][q.task]
    BY <2>1, <2>3
  <2>8. log' = [log EXCEPT ![q.task] =
                  Append(@, [actor |-> q.actor, from |-> q.from, to |-> q.to])]
    BY <2>1
  <2>9. QED
    BY <2>1, <2>2, <2>4, <2>5, <2>6, <2>7, <2>8
       DEF B!Move, B!VALID_TRANSITIONS, VALID_TRANSITIONS
<1>3. ASSUME NEW r \in Requests, BroadcastMove(r)
      PROVE  B!Broadcast(request[r].task, request[r].row)
  <2> DEFINE q == request[r]
  <2>1. q \in MoveReq /\ q.pc = "committed"
    BY <1>3, RequestKind DEF TypeOK, BroadcastMove
  <2>2. /\ q.row \in 1 .. Len(log[q.task])
        /\ \A k \in 1 .. Len(emitted[q.task]) :
             /\ emitted[q.task][k] # q.row
             /\ SingleFlight => emitted[q.task][k] < q.row
    BY <2>1 DEF BoardInv, RowsAreOwned, AloneIsFresh
  <2>3. /\ emitted' = [emitted EXCEPT ![q.task] = Append(@, q.row)]
        /\ task' = task /\ log' = log
    BY <1>3 DEF BroadcastMove
  <2>4. QED  BY <2>2, <2>3 DEF B!Broadcast
<1>4. ASSUME NEW r \in Requests,
             \/ \E u \in Users, t \in Tasks, to \in Statuses : ReadTask(r, u, t, to)
             \/ NotifyAssigned(r) \/ NotifyReview(r) \/ RequestFails(r)
      PROVE  UNCHANGED boardView
  BY <1>4 DEF ReadTask, NotifyAssigned, NotifyReview, RequestFails
<1>5. ASSUME NEW s \in Sweeps, SweepStep(s) \/ SweepFails(s)
      PROVE  UNCHANGED boardView
  <2>1. CASE SweepFlag(s)
    <3>1. UNCHANGED <<log, emitted>>
      BY <2>1 DEF SweepFlag
    <3>2. QED  BY <2>1, <3>1, FlagShape
  <2>2. CASE ~SweepFlag(s)
    BY <1>5, <2>2 DEF SweepStep, SweepRead, SweepNotify, SweepFails
  <2>3. QED  BY <2>1, <2>2
<1>6. ASSUME NEW t \in Tasks, DueDatePasses(t)
      PROVE  UNCHANGED boardView
  <2>1. /\ DOMAIN task' = DOMAIN task
        /\ \A x \in DOMAIN task : task'[x].status = task[x].status
    BY <1>6 DEF TypeOK, DueDatePasses, TaskRow
  <2>2. QED  BY <1>6, <2>1 DEF DueDatePasses
<1>7. CASE Crash
  BY <1>7 DEF Crash
<1>8. CASE UNCHANGED vars
  BY <1>8 DEF vars
<1>9. ASSUME NEW r \in Requests, CommitMove(r)
      PROVE  B!Next
  <2>1. PICK q : q = request[r]
    OBVIOUS
  <2>2. /\ q.task \in Tasks /\ q.actor \in Users
        /\ q.from \in B!Statuses /\ q.to \in B!Statuses
    BY <1>9, <2>1, CommitShape DEF MoveReq, B!Statuses, Statuses
  <2>3. B!Move(q.task, q.actor, q.from, q.to)
    BY <1>2, <1>9, <2>1
  <2>4. QED  BY <2>2, <2>3 DEF B!Next
<1>10. ASSUME NEW r \in Requests, BroadcastMove(r)
       PROVE  B!Next
  <2>1. request[r].pc = "committed" /\ request[r].task \in Tasks
    BY <1>10, CommittedHasTask DEF BroadcastMove
  <2>2. request[r].row \in 1 .. Len(log[request[r].task])
    BY <2>1 DEF BoardInv, RowsAreOwned
  <2>3. QED  BY <1>3, <1>10, <2>1, <2>2 DEF B!Next
<1>11. ASSUME NEW r \in Requests, NEW t \in Tasks, NEW p \in Projects,
              NEW a \in Users \cup {NoUser}, NEW d \in {"none", "future", "past"},
              InsertTask(r, t, p, a, d)
       PROVE  B!Next
  BY <1>1, <1>11 DEF B!Next
<1>12. QED
  BY <1>4, <1>5, <1>6, <1>7, <1>8, <1>9, <1>10, <1>11 DEF Next, RequestStep

\* The handlers and the job, with any interleaving and any faults, implement the
\* abstract board: its strict form if requests come one at a time, its weak form
\* otherwise.
THEOREM TaskServiceImplementsBoard == Spec => ImplementsBoard
<1>1. Init => B!Init
  BY DEF Init, B!Init
<1>2. TypeOK /\ TypeOK' /\ HistoryInv /\ BoardInv /\ [Next]_vars => [B!Next]_(B!boardVars)
  BY StepRefines DEF boardView, B!boardVars
<1>3. Spec => []BoardInv
  BY BoardInit, BoardInvNext, TypeCorrect, PTL DEF Spec
<1>4. QED
  BY <1>1, <1>2, <1>3, TypeCorrect, HistoryAlways, PTL DEF Spec, ImplementsBoard, B!Spec
-------------------------------------------------------------------------------
One(b) == IF b THEN 1 ELSE 0

\* What a set has more or less when it changes in one member only.
LEMMA CountOfOne ==
    ASSUME NEW S, NEW T, IsFiniteSet(S), NEW x, S \ {x} = T \ {x}
    PROVE  /\ IsFiniteSet(T) /\ Cardinality(S) \in Nat /\ Cardinality(T) \in Nat
           /\ Cardinality(T) = Cardinality(S) + One(x \in T) - One(x \in S)
<1> DEFINE R == S \ {x}
<1>1. IsFiniteSet(R) /\ Cardinality(R) = Cardinality(S) - One(x \in S) /\ Cardinality(S) \in Nat
  BY FS_RemoveElement, FS_CardinalityType DEF One
<1>2. CASE x \in T
  <2>1. T = R \cup {x} /\ x \notin R
    BY <1>2
  <2>2. IsFiniteSet(T) /\ Cardinality(T) = Cardinality(R) + 1
    BY <1>1, <2>1, FS_AddElement
  <2>3. Cardinality(T) \in Nat
    BY <2>2, FS_CardinalityType
  <2>4. QED  BY <1>1, <1>2, <2>2, <2>3 DEF One
<1>3. CASE x \notin T
  <2>1. T = R
    BY <1>3
  <2>2. Cardinality(T) \in Nat
    BY <1>1, <2>1, FS_CardinalityType
  <2>3. QED  BY <1>1, <1>3, <2>1, <2>2 DEF One
<1>4. QED  BY <1>2, <1>3

LEMMA OneMore ==
    ASSUME NEW n \in [Kinds -> [Tasks -> Nat]], NEW k \in Kinds, NEW t \in Tasks,
           NEW m, m = [n EXCEPT ![k][t] = @ + 1]
    PROVE  /\ m[k][t] = n[k][t] + 1
           /\ \A j \in Kinds, x \in Tasks : j # k \/ x # t => m[j][x] = n[j][x]
<1>1. m[k] = [n[k] EXCEPT ![t] = n[k][t] + 1] /\ \A j \in Kinds : j # k => m[j] = n[j]
  OBVIOUS
<1>2. n[k] \in [Tasks -> Nat]
  OBVIOUS
<1>3. m[k][t] = n[k][t] + 1 /\ \A x \in Tasks : x # t => m[k][x] = n[k][x]
  BY <1>1, <1>2
<1>4. QED  BY <1>1, <1>3
-------------------------------------------------------------------------------
\* What a request still has to do for task t.
ToBroadcast(q, t) == q.pc = "committed" /\ q.task = t
ToAssign(q, t) == q.pc = "created" /\ q.task = t
ToReview(q, t) == q.pc \in {"committed", "review"} /\ q.task = t /\ q.to = "IN_REVIEW"

Broadcasters(t) == {r \in Requests : ToBroadcast(request[r], t)}
Assigners(t) == {r \in Requests : ToAssign(request[r], t)}
Reviewers(t) == {r \in Requests : ToReview(request[r], t)}

LEMMA RequestsFinite ==
    \A t : /\ IsFiniteSet(Broadcasters(t)) /\ Cardinality(Broadcasters(t)) \in Nat
           /\ IsFiniteSet(Assigners(t)) /\ Cardinality(Assigners(t)) \in Nat
           /\ IsFiniteSet(Reviewers(t)) /\ Cardinality(Reviewers(t)) \in Nat
<1>1. IsFiniteSet(Requests)
  BY TaskServiceAssumption
<1>2. \A S \in SUBSET Requests : IsFiniteSet(S) /\ Cardinality(S) \in Nat
  BY <1>1, FS_Subset, FS_CardinalityType
<1>3. \A t : Broadcasters(t) \in SUBSET Requests /\ Assigners(t) \in SUBSET Requests
             /\ Reviewers(t) \in SUBSET Requests
  BY DEF Broadcasters, Assigners, Reviewers
<1>4. QED  BY <1>2, <1>3

\* The counts when only request r has changed.
LEMMA SlotCounts ==
    ASSUME NEW r \in Requests, \A x \in Requests : x # r => request'[x] = request[x], NEW t
    PROVE  /\ Cardinality(Broadcasters(t)') = Cardinality(Broadcasters(t))
                + One(ToBroadcast(request'[r], t)) - One(ToBroadcast(request[r], t))
           /\ Cardinality(Assigners(t)') = Cardinality(Assigners(t))
                + One(ToAssign(request'[r], t)) - One(ToAssign(request[r], t))
           /\ Cardinality(Reviewers(t)') = Cardinality(Reviewers(t))
                + One(ToReview(request'[r], t)) - One(ToReview(request[r], t))
<1>1. /\ IsFiniteSet(Broadcasters(t)) /\ IsFiniteSet(Assigners(t)) /\ IsFiniteSet(Reviewers(t))
  BY RequestsFinite
<1>2. /\ Broadcasters(t) \ {r} = Broadcasters(t)' \ {r}
      /\ (r \in Broadcasters(t)' <=> ToBroadcast(request'[r], t))
      /\ (r \in Broadcasters(t) <=> ToBroadcast(request[r], t))
  BY DEF Broadcasters, ToBroadcast
<1>3. /\ Assigners(t) \ {r} = Assigners(t)' \ {r}
      /\ (r \in Assigners(t)' <=> ToAssign(request'[r], t))
      /\ (r \in Assigners(t) <=> ToAssign(request[r], t))
  BY DEF Assigners, ToAssign
<1>4. /\ Reviewers(t) \ {r} = Reviewers(t)' \ {r}
      /\ (r \in Reviewers(t)' <=> ToReview(request'[r], t))
      /\ (r \in Reviewers(t) <=> ToReview(request[r], t))
  BY DEF Reviewers, ToReview
<1>5. Cardinality(Broadcasters(t)') = Cardinality(Broadcasters(t))
        + One(ToBroadcast(request'[r], t)) - One(ToBroadcast(request[r], t))
  BY <1>1, <1>2, CountOfOne DEF One
<1>6. Cardinality(Assigners(t)') = Cardinality(Assigners(t))
        + One(ToAssign(request'[r], t)) - One(ToAssign(request[r], t))
  BY <1>1, <1>3, CountOfOne DEF One
<1>7. Cardinality(Reviewers(t)') = Cardinality(Reviewers(t))
        + One(ToReview(request'[r], t)) - One(ToReview(request[r], t))
  BY <1>1, <1>4, CountOfOne DEF One
<1>8. QED  BY <1>5, <1>6, <1>7
\* What the requests still have to do, action by action.
LEMMA InsertSlot ==
    ASSUME TypeOK, NEW r \in Requests, NEW t0 \in Tasks, NEW p \in Projects,
           NEW a \in Users \cup {NoUser}, NEW d \in {"none", "future", "past"},
           InsertTask(r, t0, p, a, d), NEW t
    PROVE  /\ Cardinality(Broadcasters(t)') = Cardinality(Broadcasters(t))
           /\ Cardinality(Assigners(t)') = Cardinality(Assigners(t)) + One(a # NoUser /\ t = t0)
           /\ Cardinality(Reviewers(t)') = Cardinality(Reviewers(t))
<1>1. /\ request[r] = Idle
      /\ request'[r] = (IF a = NoUser THEN Idle ELSE [pc |-> "created", task |-> t0])
      /\ \A x \in Requests : x # r => request'[x] = request[x]
  BY DEF InsertTask, TypeOK
<1>2. /\ ~ToBroadcast(request[r], t) /\ ~ToAssign(request[r], t) /\ ~ToReview(request[r], t)
      /\ ~ToBroadcast(request'[r], t) /\ ~ToReview(request'[r], t)
      /\ ToAssign(request'[r], t) <=> (a # NoUser /\ t = t0)
  BY <1>1 DEF ToBroadcast, ToAssign, ToReview, Idle
<1>3. QED  BY <1>1, <1>2, SlotCounts, RequestsFinite DEF One

LEMMA AssignedSlot ==
    ASSUME TypeOK, NEW r \in Requests, NotifyAssigned(r), NEW t
    PROVE  /\ request[r].task \in Tasks
           /\ Cardinality(Broadcasters(t)') = Cardinality(Broadcasters(t))
           /\ Cardinality(Assigners(t)') = Cardinality(Assigners(t)) - One(t = request[r].task)
           /\ Cardinality(Reviewers(t)') = Cardinality(Reviewers(t))
<1>1. request[r].pc = "created" /\ request[r].task \in Tasks
  <2>1. request[r].pc = "created" /\ request[r] # Idle
    BY DEF NotifyAssigned, Idle
  <2>2. QED  BY <2>1, RequestKind DEF TypeOK
<1>2. request'[r] = Idle /\ \A x \in Requests : x # r => request'[x] = request[x]
  BY DEF NotifyAssigned, TypeOK
<1>3. /\ ~ToBroadcast(request[r], t) /\ ~ToReview(request[r], t)
      /\ ToAssign(request[r], t) <=> t = request[r].task
      /\ ~ToBroadcast(request'[r], t) /\ ~ToAssign(request'[r], t) /\ ~ToReview(request'[r], t)
  BY <1>1, <1>2 DEF ToBroadcast, ToAssign, ToReview, Idle
<1>4. QED  BY <1>1, <1>2, <1>3, SlotCounts, RequestsFinite DEF One

LEMMA ReadSlot ==
    ASSUME TypeOK, NEW r \in Requests, NEW u \in Users, NEW t0 \in Tasks, NEW to \in Statuses,
           ReadTask(r, u, t0, to), NEW t
    PROVE  /\ Cardinality(Broadcasters(t)') = Cardinality(Broadcasters(t))
           /\ Cardinality(Assigners(t)') = Cardinality(Assigners(t))
           /\ Cardinality(Reviewers(t)') = Cardinality(Reviewers(t))
<1>1. /\ request[r] = Idle /\ request'[r].pc = "checked"
      /\ \A x \in Requests : x # r => request'[x] = request[x]
  BY DEF ReadTask, TypeOK
<1>2. /\ ~ToBroadcast(request[r], t) /\ ~ToAssign(request[r], t) /\ ~ToReview(request[r], t)
      /\ ~ToBroadcast(request'[r], t) /\ ~ToAssign(request'[r], t) /\ ~ToReview(request'[r], t)
  BY <1>1 DEF ToBroadcast, ToAssign, ToReview, Idle
<1>3. QED  BY <1>1, <1>2, SlotCounts, RequestsFinite DEF One

LEMMA CommitSlot ==
    ASSUME TypeOK, NEW r \in Requests, CommitMove(r), NEW t
    PROVE  LET q == request[r] IN
           /\ Cardinality(Broadcasters(t)') = Cardinality(Broadcasters(t)) + One(t = q.task)
           /\ Cardinality(Assigners(t)') = Cardinality(Assigners(t))
           /\ Cardinality(Reviewers(t)') = Cardinality(Reviewers(t))
                + One(t = q.task /\ q.to = "IN_REVIEW")
<1> DEFINE q == request[r]
<1>1. q \in MoveReq /\ q.pc = "checked"
  BY CommitShape
<1>2. request'[r].pc = "committed" /\ request'[r].task = q.task /\ request'[r].to = q.to
  <2>1. \A n : LET new == [q EXCEPT !.pc = "committed", !.row = n] IN
               new.pc = "committed" /\ new.task = q.task /\ new.to = q.to
    BY <1>1 DEF MoveReq
  <2>2. request'[r] = [q EXCEPT !.pc = "committed", !.row = Len(log'[q.task])]
    BY CommitLog
  <2>3. QED  BY <2>1, <2>2
<1>3. \A x \in Requests : x # r => request'[x] = request[x]
  BY CommitLog
<1>4. /\ ~ToBroadcast(q, t) /\ ~ToAssign(q, t) /\ ~ToReview(q, t)
      /\ ToBroadcast(request'[r], t) <=> t = q.task
      /\ ~ToAssign(request'[r], t)
      /\ ToReview(request'[r], t) <=> (t = q.task /\ q.to = "IN_REVIEW")
  BY <1>1, <1>2 DEF ToBroadcast, ToAssign, ToReview
<1>5. QED  BY <1>3, <1>4, SlotCounts, RequestsFinite DEF One

LEMMA BroadcastSlot ==
    ASSUME TypeOK, NEW r \in Requests, BroadcastMove(r), NEW t
    PROVE  /\ Cardinality(Broadcasters(t)') = Cardinality(Broadcasters(t)) - One(t = request[r].task)
           /\ Cardinality(Assigners(t)') = Cardinality(Assigners(t))
           /\ Cardinality(Reviewers(t)') = Cardinality(Reviewers(t))
<1> DEFINE q == request[r]
<1>1. q \in MoveReq /\ q.pc = "committed"
  BY RequestKind DEF TypeOK, BroadcastMove, Idle
<1>2. /\ request'[r] = AfterBroadcast(q)
      /\ \A x \in Requests : x # r => request'[x] = request[x]
  BY DEF BroadcastMove, TypeOK
<1>3. /\ q.to = "IN_REVIEW" => request'[r].pc = "review" /\ request'[r].task = q.task /\ request'[r].to = q.to
      /\ q.to # "IN_REVIEW" => request'[r].pc = "idle"
  BY <1>1, <1>2 DEF AfterBroadcast, Idle, MoveReq
<1>4. /\ ToBroadcast(q, t) <=> t = q.task
      /\ ~ToAssign(q, t)
      /\ ~ToBroadcast(request'[r], t) /\ ~ToAssign(request'[r], t)
      /\ ToReview(request'[r], t) <=> ToReview(q, t)
  BY <1>1, <1>3 DEF ToBroadcast, ToAssign, ToReview
<1>5. QED  BY <1>2, <1>4, SlotCounts, RequestsFinite DEF One

\* A request that waits to notify of a review is one of a move into review.
ReviewsAreReviews == \A r \in Requests : request[r].pc = "review" => request[r].to = "IN_REVIEW"

LEMMA ReviewSlot ==
    ASSUME TypeOK, ReviewsAreReviews, NEW r \in Requests, NotifyReview(r), NEW t
    PROVE  /\ request[r].task \in Tasks
           /\ Cardinality(Broadcasters(t)') = Cardinality(Broadcasters(t))
           /\ Cardinality(Assigners(t)') = Cardinality(Assigners(t))
           /\ Cardinality(Reviewers(t)') = Cardinality(Reviewers(t)) - One(t = request[r].task)
<1>1. request[r].pc = "review" /\ request[r].task \in Tasks /\ request[r].to = "IN_REVIEW"
  <2>1. request[r].pc = "review" /\ request[r] # Idle
    BY DEF NotifyReview, Idle
  <2>2. QED  BY <2>1, RequestKind DEF TypeOK, ReviewsAreReviews
<1>2. request'[r] = Idle /\ \A x \in Requests : x # r => request'[x] = request[x]
  BY DEF NotifyReview, TypeOK
<1>3. /\ ~ToBroadcast(request[r], t) /\ ~ToAssign(request[r], t)
      /\ ToReview(request[r], t) <=> t = request[r].task
      /\ ~ToBroadcast(request'[r], t) /\ ~ToAssign(request'[r], t) /\ ~ToReview(request'[r], t)
  BY <1>1, <1>2 DEF ToBroadcast, ToAssign, ToReview, Idle
<1>4. QED  BY <1>1, <1>2, <1>3, SlotCounts, RequestsFinite DEF One

\* A fault leaves at most as much to do as there was.
LEMMA FaultSlots ==
    ASSUME TypeOK, Crash \/ \E r \in Requests : RequestFails(r), NEW t
    PROVE  /\ Cardinality(Assigners(t)') <= Cardinality(Assigners(t))
           /\ Cardinality(Reviewers(t)') <= Cardinality(Reviewers(t))
<1>1. /\ Assigners(t)' \subseteq Assigners(t)
      /\ Reviewers(t)' \subseteq Reviewers(t)
  <2>1. \A x \in Requests : request'[x] = request[x] \/ request'[x] = Idle
    BY DEF Crash, RequestFails, TypeOK
  <2>2. \A x \in Requests : request'[x] = Idle =>
          ~ToAssign(request'[x], t) /\ ~ToReview(request'[x], t)
    BY DEF ToAssign, ToReview, Idle
  <2>3. QED  BY <2>1, <2>2 DEF Assigners, Reviewers
<1>2. QED  BY <1>1, RequestsFinite, FS_Subset

LEMMA ReviewsStay ==
    ASSUME TypeOK, ReviewsAreReviews, [Next]_vars
    PROVE  ReviewsAreReviews'
<1>1. ASSUME NEW r \in Requests, CommitMove(r) PROVE ReviewsAreReviews'
  <2>1. request'[r].pc = "committed" /\ \A x \in Requests : x # r => request'[x] = request[x]
    BY <1>1, CommitLog
  <2>2. QED  BY <2>1 DEF ReviewsAreReviews
<1>2. ASSUME NEW r \in Requests, BroadcastMove(r) PROVE ReviewsAreReviews'
  <2>1. request[r] \in MoveReq
    BY <1>2, RequestKind DEF TypeOK, BroadcastMove, Idle
  <2>2. /\ request'[r].pc = "review" => request'[r].to = "IN_REVIEW"
        /\ \A x \in Requests : x # r => request'[x] = request[x]
    BY <1>2, <2>1 DEF BroadcastMove, TypeOK, AfterBroadcast, MoveReq, Idle
  <2>3. QED  BY <2>2 DEF ReviewsAreReviews
<1>3. ASSUME \A r \in Requests : ~CommitMove(r) /\ ~BroadcastMove(r) PROVE ReviewsAreReviews'
  <2> DEFINE Kept == \A x \in Requests : request'[x].pc = "review" => request'[x] = request[x]
  <2>1. ASSUME NEW r \in Requests, NEW t \in Tasks, NEW p \in Projects,
               NEW a \in Users \cup {NoUser}, NEW d \in {"none", "future", "past"},
               InsertTask(r, t, p, a, d)
        PROVE  Kept
    BY <2>1 DEF InsertTask, TypeOK, Idle
  <2>2. ASSUME NEW r \in Requests, NEW u \in Users, NEW t \in Tasks, NEW to \in Statuses,
               ReadTask(r, u, t, to)
        PROVE  Kept
    BY <2>2 DEF ReadTask, TypeOK
  <2>3. ASSUME NEW r \in Requests, NotifyAssigned(r) \/ NotifyReview(r) \/ RequestFails(r)
        PROVE  Kept
    BY <2>3 DEF NotifyAssigned, NotifyReview, RequestFails, TypeOK, Idle
  <2>4. ASSUME Crash PROVE Kept
    BY <2>4 DEF Crash, Idle
  <2>5. ASSUME UNCHANGED request PROVE Kept
    BY <2>5
  <2>6. Kept
    BY <1>3, <2>1, <2>2, <2>3, <2>4, <2>5
    DEF Next, vars, RequestStep, SweepStep, SweepRead, SweepFlag, SweepNotify, SweepFails, DueDatePasses
  <2>7. QED  BY <2>6 DEF ReviewsAreReviews
<1>4. QED  BY <1>1, <1>2, <1>3
-------------------------------------------------------------------------------
\* Broadcasts.
BroadcastInv ==
    \A t \in Tasks :
        /\ \A i, j \in DOMAIN emitted[t] : emitted[t][i] = emitted[t][j] => i = j
        /\ faults = 0 => Len(emitted[t]) + Cardinality(Broadcasters(t)) = Len(log[t])

LEMMA BroadcastFrame ==
    ASSUME BroadcastInv, emitted' = emitted, log' = log,
           \A t : faults' = 0 => /\ faults = 0
                                 /\ Cardinality(Broadcasters(t)') = Cardinality(Broadcasters(t))
    PROVE  BroadcastInv'
BY DEF BroadcastInv

LEMMA BroadcastCommit ==
    ASSUME TypeOK, BroadcastInv, NEW r \in Requests, CommitMove(r)
    PROVE  BroadcastInv'
<1> DEFINE q == request[r]
<1>1. /\ q.task \in Tasks /\ Len(log'[q.task]) = Len(log[q.task]) + 1
      /\ \A t \in Tasks : t # q.task => log'[t] = log[t]
  BY CommitLog
<1>2. emitted' = emitted /\ faults' = faults
  BY DEF CommitMove
<1>3. ASSUME NEW t \in Tasks, faults = 0
      PROVE  Len(emitted[t]) + Cardinality(Broadcasters(t)') = Len(log'[t])
  <2>1. Cardinality(Broadcasters(t)') = Cardinality(Broadcasters(t)) + One(t = q.task)
    BY CommitSlot
  <2>2. Len(emitted[t]) + Cardinality(Broadcasters(t)) = Len(log[t])
    BY <1>3 DEF BroadcastInv
  <2>3. Len(emitted[t]) \in Nat /\ Cardinality(Broadcasters(t)) \in Nat /\ Len(log[t]) \in Nat
    BY RequestsFinite DEF TypeOK
  <2>4. CASE t = q.task
    <3>1. Len(log'[t]) = Len(log[t]) + 1
      BY <1>1, <2>4
    <3>2. Cardinality(Broadcasters(t)') = Cardinality(Broadcasters(t)) + 1
      BY <2>1, <2>4 DEF One
    <3>3. QED  BY <2>2, <2>3, <3>1, <3>2
  <2>5. CASE t # q.task
    BY <1>1, <2>1, <2>2, <2>3, <2>5 DEF One
  <2>6. QED  BY <2>4, <2>5
<1>4. QED  BY <1>2, <1>3 DEF BroadcastInv

LEMMA BroadcastEmit ==
    ASSUME TypeOK, RowsAreOwned, BroadcastInv, NEW r \in Requests, BroadcastMove(r)
    PROVE  BroadcastInv'
<1> DEFINE q == request[r]
<1>1. q \in MoveReq /\ q.task \in Tasks /\ q.pc = "committed" /\ q.row \in Nat
  BY RequestKind DEF TypeOK, BroadcastMove, Idle, MoveReq
<1>2. /\ emitted[q.task] \in Seq(Nat)
      /\ emitted'[q.task] = Append(emitted[q.task], q.row)
      /\ \A t \in Tasks : t # q.task => emitted'[t] = emitted[t]
      /\ log' = log /\ faults' = faults
  BY <1>1 DEF TypeOK, BroadcastMove
<1>3. /\ Len(emitted[q.task]) \in Nat /\ Len(emitted'[q.task]) = Len(emitted[q.task]) + 1
      /\ DOMAIN emitted[q.task] = 1..Len(emitted[q.task])
      /\ DOMAIN emitted'[q.task] = 1..Len(emitted[q.task]) + 1
      /\ \A k \in 1..Len(emitted[q.task]) : emitted'[q.task][k] = emitted[q.task][k]
      /\ emitted'[q.task][Len(emitted[q.task]) + 1] = q.row
  BY <1>2
<1>4. \A k \in 1..Len(emitted[q.task]) : emitted[q.task][k] # q.row
  BY <1>1 DEF RowsAreOwned
<1>5. ASSUME NEW t \in Tasks
      PROVE  \A i, j \in DOMAIN emitted'[t] : emitted'[t][i] = emitted'[t][j] => i = j
  <2>1. CASE t # q.task
    BY <1>2, <2>1 DEF BroadcastInv
  <2>2. CASE t = q.task
    <3>1. \A i, j \in DOMAIN emitted[q.task] : emitted[q.task][i] = emitted[q.task][j] => i = j
      BY <1>1 DEF BroadcastInv
    <3>2. DOMAIN emitted'[q.task] = DOMAIN emitted[q.task] \cup {Len(emitted[q.task]) + 1}
      BY <1>3
    <3> HIDE DEF q
    <3>3. QED  BY <1>3, <1>4, <2>2, <3>1, <3>2
  <2>3. QED  BY <2>1, <2>2
<1>6. ASSUME NEW t \in Tasks, faults = 0
      PROVE  Len(emitted'[t]) + Cardinality(Broadcasters(t)') = Len(log[t])
  <2>1. Cardinality(Broadcasters(t)') = Cardinality(Broadcasters(t)) - One(t = q.task)
    BY BroadcastSlot
  <2>2. Len(emitted[t]) + Cardinality(Broadcasters(t)) = Len(log[t])
    BY <1>6 DEF BroadcastInv
  <2>3. Len(emitted[t]) \in Nat /\ Cardinality(Broadcasters(t)) \in Nat /\ Len(log[t]) \in Nat
    BY RequestsFinite DEF TypeOK
  <2>4. CASE t = q.task
    <3>1. Len(emitted'[t]) = Len(emitted[t]) + 1
      BY <1>3, <2>4
    <3>2. Cardinality(Broadcasters(t)') = Cardinality(Broadcasters(t)) - 1
      BY <2>1, <2>4 DEF One
    <3>3. QED  BY <2>2, <2>3, <3>1, <3>2
  <2>5. CASE t # q.task
    BY <1>2, <2>1, <2>2, <2>3, <2>5 DEF One
  <2>6. QED  BY <2>4, <2>5
<1>7. QED  BY <1>2, <1>5, <1>6 DEF BroadcastInv

\* Steps that take no request from its commit to its broadcast, or none at all.
LEMMA RequestsFrame ==
    ASSUME UNCHANGED request, NEW t
    PROVE  /\ Broadcasters(t)' = Broadcasters(t)
           /\ Assigners(t)' = Assigners(t) /\ Reviewers(t)' = Reviewers(t)
BY DEF Broadcasters, Assigners, Reviewers

LEMMA FaultCounts ==
    ASSUME TypeOK, Fault
    PROVE  faults' # 0
BY DEF TypeOK, Fault

LEMMA BroadcastNext == TypeOK /\ BoardInv /\ ReviewsAreReviews /\ BroadcastInv /\ [Next]_vars => BroadcastInv'
<1> SUFFICES ASSUME TypeOK, BoardInv, ReviewsAreReviews, BroadcastInv, [Next]_vars PROVE BroadcastInv'
  OBVIOUS
<1>1. ASSUME NEW r \in Requests, NEW t \in Tasks, NEW p \in Projects,
             NEW a \in Users \cup {NoUser}, NEW d \in {"none", "future", "past"},
             InsertTask(r, t, p, a, d)
      PROVE  BroadcastInv'
  BY <1>1, InsertSlot, BroadcastFrame DEF InsertTask
<1>2. ASSUME NEW r \in Requests, NEW u \in Users, NEW t \in Tasks,
             NEW to \in Statuses, ReadTask(r, u, t, to)
      PROVE  BroadcastInv'
  BY <1>2, ReadSlot, BroadcastFrame DEF ReadTask
<1>3. ASSUME NEW r \in Requests, CommitMove(r) \/ BroadcastMove(r) PROVE BroadcastInv'
  BY <1>3, BroadcastCommit, BroadcastEmit DEF BoardInv
<1>4. ASSUME NEW r \in Requests, NotifyAssigned(r) PROVE BroadcastInv'
  BY <1>4, AssignedSlot, BroadcastFrame DEF NotifyAssigned
<1>5. ASSUME NEW r \in Requests, NotifyReview(r) PROVE BroadcastInv'
  BY <1>5, ReviewSlot, BroadcastFrame DEF NotifyReview
<1>6. CASE Crash \/ \E r \in Requests : RequestFails(r)
  BY <1>6, FaultCounts, BroadcastFrame DEF Crash, RequestFails
<1>7. CASE \E s \in Sweeps : SweepFails(s)
  BY <1>7, FaultCounts, BroadcastFrame DEF SweepFails
<1>8. CASE UNCHANGED <<log, emitted, request, faults>>
  BY <1>8, RequestsFrame, BroadcastFrame
<1>9. QED
  BY <1>1, <1>2, <1>3, <1>4, <1>5, <1>6, <1>7, <1>8
  DEF Next, RequestStep, SweepStep, SweepRead, SweepFlag, SweepNotify, DueDatePasses, vars
-------------------------------------------------------------------------------
\* Notifications of assignments and of moves into review.
DueAssigned(t) == IF t \in DOMAIN task /\ task[t].assignee # NoUser THEN 1 ELSE 0
Reviews(rows) == {i \in DOMAIN rows : rows[i].to = "IN_REVIEW"}
DueReviews(t) == Cardinality(Reviews(log[t]))

ToldAssigned(t) == notices["TASK_ASSIGNED"][t] + Cardinality(Assigners(t))
ToldReviews(t) == notices["TASK_MOVED_TO_REVIEW"][t] + Cardinality(Reviewers(t))

NoticeInv ==
    \A t \in Tasks :
        /\ ToldAssigned(t) <= DueAssigned(t)
        /\ ToldReviews(t) <= DueReviews(t)
        /\ faults = 0 => ToldAssigned(t) = DueAssigned(t) /\ ToldReviews(t) = DueReviews(t)

LEMMA ReviewsFinite ==
    ASSUME NEW rows \in Seq(LogRow)
    PROVE  IsFiniteSet(Reviews(rows)) /\ Cardinality(Reviews(rows)) \in Nat
<1>1. IsFiniteSet(1..Len(rows))
  BY FS_Interval
<1>2. Reviews(rows) \in SUBSET (1..Len(rows))
  BY DEF Reviews
<1>3. IsFiniteSet(Reviews(rows))
  BY <1>1, <1>2, FS_Subset
<1>4. QED  BY <1>3, FS_CardinalityType

LEMMA ReviewsOfAppend ==
    ASSUME NEW rows \in Seq(LogRow), NEW row \in LogRow
    PROVE  Cardinality(Reviews(Append(rows, row))) = Cardinality(Reviews(rows)) + One(row.to = "IN_REVIEW")
<1> DEFINE n == Len(rows) + 1
           more == Append(rows, row)
<1>1. /\ DOMAIN rows = 1..Len(rows) /\ Len(rows) \in Nat
      /\ DOMAIN more = 1..n /\ more[n] = row /\ \A i \in 1..Len(rows) : more[i] = rows[i]
  OBVIOUS
<1>2. DOMAIN more = DOMAIN rows \cup {n} /\ n \notin DOMAIN rows
  BY <1>1
<1> HIDE DEF more, n
<1>3. /\ Reviews(rows) \ {n} = Reviews(more) \ {n}
      /\ n \notin Reviews(rows) /\ (n \in Reviews(more) <=> row.to = "IN_REVIEW")
  BY <1>1, <1>2 DEF Reviews
<1>4. Cardinality(Reviews(more)) = Cardinality(Reviews(rows)) + One(n \in Reviews(more)) - One(n \in Reviews(rows))
  BY <1>3, ReviewsFinite, CountOfOne
<1>5. QED  BY <1>3, <1>4, ReviewsFinite DEF One, more

LEMMA NoticeTypes ==
    ASSUME TypeOK, NEW t \in Tasks
    PROVE  /\ notices["TASK_ASSIGNED"][t] \in Nat /\ notices["TASK_MOVED_TO_REVIEW"][t] \in Nat
           /\ Cardinality(Assigners(t)) \in Nat /\ Cardinality(Reviewers(t)) \in Nat
           /\ DueAssigned(t) \in Nat /\ DueReviews(t) \in Nat
<1>1. notices["TASK_ASSIGNED"][t] \in Nat /\ notices["TASK_MOVED_TO_REVIEW"][t] \in Nat
  BY DEF TypeOK, Kinds
<1>2. log[t] \in Seq(LogRow)
  BY DEF TypeOK
<1>3. QED  BY <1>1, <1>2, RequestsFinite, ReviewsFinite DEF DueAssigned, DueReviews

\* Each step tells of as many as become due, or tells less and is a fault.
LEMMA NoticeFrame ==
    ASSUME TypeOK, NoticeInv,
           \A t \in Tasks :
               \/ /\ faults' = faults
                  /\ \E n \in {0, 1} : /\ ToldAssigned(t)' = ToldAssigned(t) + n
                                       /\ DueAssigned(t)' = DueAssigned(t) + n
                  /\ \E n \in {0, 1} : /\ ToldReviews(t)' = ToldReviews(t) + n
                                       /\ DueReviews(t)' = DueReviews(t) + n
               \/ /\ faults' # 0
                  /\ \E n \in Nat : ToldAssigned(t) = ToldAssigned(t)' + n
                  /\ \E n \in Nat : ToldReviews(t) = ToldReviews(t)' + n
                  /\ ToldAssigned(t)' \in Nat /\ ToldReviews(t)' \in Nat
                  /\ DueAssigned(t)' = DueAssigned(t) /\ DueReviews(t)' = DueReviews(t)
    PROVE  NoticeInv'
<1>1. SUFFICES ASSUME NEW t \in Tasks
               PROVE  /\ ToldAssigned(t)' <= DueAssigned(t)'
                      /\ ToldReviews(t)' <= DueReviews(t)'
                      /\ faults' = 0 => /\ ToldAssigned(t)' = DueAssigned(t)'
                                        /\ ToldReviews(t)' = DueReviews(t)'
  BY DEF NoticeInv
<1>2. /\ ToldAssigned(t) \in Nat /\ ToldReviews(t) \in Nat /\ DueAssigned(t) \in Nat /\ DueReviews(t) \in Nat
  BY NoticeTypes DEF ToldAssigned, ToldReviews
<1>3. QED  BY <1>2 DEF NoticeInv

LEMMA NoticeInsert ==
    ASSUME TypeOK, NoticeInv, NEW r \in Requests, NEW t0 \in Tasks, NEW p \in Projects,
           NEW a \in Users \cup {NoUser}, NEW d \in {"none", "future", "past"},
           InsertTask(r, t0, p, a, d)
    PROVE  NoticeInv'
<1>1. notices' = notices /\ log' = log /\ faults' = faults /\ t0 \notin DOMAIN task
  BY DEF InsertTask
<1>2. ASSUME NEW t \in Tasks
      PROVE  DueAssigned(t)' = DueAssigned(t) + One(a # NoUser /\ t = t0)
  <2>1. /\ t0 \in DOMAIN task' /\ task'[t0].assignee = a
        /\ t # t0 => (t \in DOMAIN task' <=> t \in DOMAIN task) /\ (t \in DOMAIN task => task'[t] = task[t])
    BY DEF InsertTask
  <2>2. CASE t = t0
    BY <1>1, <2>1, <2>2 DEF DueAssigned, One
  <2>3. CASE t # t0
    BY <2>1, <2>3 DEF DueAssigned, One
  <2>4. QED  BY <2>2, <2>3
<1>3. ASSUME NEW t \in Tasks
      PROVE  /\ \E n \in {0, 1} : ToldAssigned(t)' = ToldAssigned(t) + n /\ DueAssigned(t)' = DueAssigned(t) + n
             /\ ToldReviews(t)' = ToldReviews(t) + 0 /\ DueReviews(t)' = DueReviews(t) + 0
  <2> DEFINE n == One(a # NoUser /\ t = t0)
  <2>1. n \in {0, 1}
    BY DEF One
  <2>2. Cardinality(Assigners(t)') = Cardinality(Assigners(t)) + n
        /\ Cardinality(Reviewers(t)') = Cardinality(Reviewers(t))
    BY InsertSlot
  <2>3. DueAssigned(t)' = DueAssigned(t) + n
    BY <1>2
  <2> HIDE DEF n
  <2>4. ToldAssigned(t)' = ToldAssigned(t) + n
    BY <1>1, <2>1, <2>2, NoticeTypes DEF ToldAssigned
  <2>5. ToldReviews(t)' = ToldReviews(t) + 0 /\ DueReviews(t)' = DueReviews(t) + 0
    BY <1>1, <2>2, NoticeTypes DEF ToldReviews, DueReviews
  <2>6. QED  BY <2>1, <2>3, <2>4, <2>5
<1>4. QED  BY <1>1, <1>3, NoticeFrame

LEMMA NoticeAssigned ==
    ASSUME TypeOK, NoticeInv, NEW r \in Requests, NotifyAssigned(r)
    PROVE  NoticeInv'
<1> DEFINE u == request[r].task
<1>1. /\ task' = task /\ log' = log /\ faults' = faults /\ u \in Tasks
      /\ notices' = [notices EXCEPT !["TASK_ASSIGNED"][u] = @ + 1]
  BY AssignedSlot DEF NotifyAssigned
<1> HIDE DEF u
<1>2. /\ notices'["TASK_ASSIGNED"][u] = notices["TASK_ASSIGNED"][u] + 1
      /\ \A t \in Tasks : t # u => notices'["TASK_ASSIGNED"][t] = notices["TASK_ASSIGNED"][t]
      /\ \A t \in Tasks : notices'["TASK_MOVED_TO_REVIEW"][t] = notices["TASK_MOVED_TO_REVIEW"][t]
  BY <1>1, OneMore DEF Kinds, TypeOK
<1>3. ASSUME NEW t \in Tasks
      PROVE  /\ ToldAssigned(t)' = ToldAssigned(t) + 0 /\ DueAssigned(t)' = DueAssigned(t) + 0
             /\ ToldReviews(t)' = ToldReviews(t) + 0 /\ DueReviews(t)' = DueReviews(t) + 0
  <2>1. Cardinality(Assigners(t)') = Cardinality(Assigners(t)) - One(t = u)
        /\ Cardinality(Reviewers(t)') = Cardinality(Reviewers(t))
    BY AssignedSlot DEF u
  <2>2. ToldAssigned(t)' = ToldAssigned(t) + 0
    <3>1. CASE t = u
      BY <1>2, <2>1, <3>1, NoticeTypes DEF ToldAssigned, One
    <3>2. CASE t # u
      BY <1>2, <2>1, <3>2, NoticeTypes DEF ToldAssigned, One
    <3>3. QED  BY <3>1, <3>2
  <2>3. ToldReviews(t)' = ToldReviews(t) + 0
    BY <1>2, <2>1, NoticeTypes DEF ToldReviews
  <2>4. DueAssigned(t)' = DueAssigned(t) + 0 /\ DueReviews(t)' = DueReviews(t) + 0
    BY <1>1, NoticeTypes DEF DueAssigned, DueReviews
  <2>5. QED  BY <2>2, <2>3, <2>4
<1>4. QED  BY <1>1, <1>3, NoticeFrame

LEMMA NoticeReview ==
    ASSUME TypeOK, ReviewsAreReviews, NoticeInv, NEW r \in Requests, NotifyReview(r)
    PROVE  NoticeInv'
<1> DEFINE u == request[r].task
<1>1. /\ task' = task /\ log' = log /\ faults' = faults /\ u \in Tasks
      /\ notices' = [notices EXCEPT !["TASK_MOVED_TO_REVIEW"][u] = @ + 1]
  BY ReviewSlot DEF NotifyReview
<1> HIDE DEF u
<1>2. /\ notices'["TASK_MOVED_TO_REVIEW"][u] = notices["TASK_MOVED_TO_REVIEW"][u] + 1
      /\ \A t \in Tasks : t # u => notices'["TASK_MOVED_TO_REVIEW"][t] = notices["TASK_MOVED_TO_REVIEW"][t]
      /\ \A t \in Tasks : notices'["TASK_ASSIGNED"][t] = notices["TASK_ASSIGNED"][t]
  BY <1>1, OneMore DEF Kinds, TypeOK
<1>3. ASSUME NEW t \in Tasks
      PROVE  /\ ToldAssigned(t)' = ToldAssigned(t) + 0 /\ DueAssigned(t)' = DueAssigned(t) + 0
             /\ ToldReviews(t)' = ToldReviews(t) + 0 /\ DueReviews(t)' = DueReviews(t) + 0
  <2>1. Cardinality(Reviewers(t)') = Cardinality(Reviewers(t)) - One(t = u)
        /\ Cardinality(Assigners(t)') = Cardinality(Assigners(t))
    BY ReviewSlot DEF u
  <2>2. ToldReviews(t)' = ToldReviews(t) + 0
    <3>1. CASE t = u
      BY <1>2, <2>1, <3>1, NoticeTypes DEF ToldReviews, One
    <3>2. CASE t # u
      BY <1>2, <2>1, <3>2, NoticeTypes DEF ToldReviews, One
    <3>3. QED  BY <3>1, <3>2
  <2>3. ToldAssigned(t)' = ToldAssigned(t) + 0
    BY <1>2, <2>1, NoticeTypes DEF ToldAssigned
  <2>4. DueAssigned(t)' = DueAssigned(t) + 0 /\ DueReviews(t)' = DueReviews(t) + 0
    BY <1>1, NoticeTypes DEF DueAssigned, DueReviews
  <2>5. QED  BY <2>2, <2>3, <2>4
<1>4. QED  BY <1>1, <1>3, NoticeFrame

LEMMA NoticeCommit ==
    ASSUME TypeOK, NoticeInv, NEW r \in Requests, CommitMove(r)
    PROVE  NoticeInv'
<1> DEFINE q == request[r]
           row == [actor |-> q.actor, from |-> q.from, to |-> q.to]
<1>1. notices' = notices /\ faults' = faults
  BY DEF CommitMove
<1>2. /\ q.task \in Tasks /\ row \in LogRow /\ row.to = q.to
      /\ log[q.task] \in Seq(LogRow) /\ log'[q.task] = Append(log[q.task], row)
      /\ \A t \in Tasks : t # q.task => log'[t] = log[t]
  BY CommitLog
<1>3. \A t \in Tasks : DueAssigned(t)' = DueAssigned(t)
  <2>1. DOMAIN task' = DOMAIN task /\ \A t \in DOMAIN task : task'[t].assignee = task[t].assignee
    BY CommitShape
  <2>2. QED  BY <2>1 DEF DueAssigned
<1> HIDE DEF row
<1>4. ASSUME NEW t \in Tasks
      PROVE  /\ ToldAssigned(t)' = ToldAssigned(t) + 0 /\ DueAssigned(t)' = DueAssigned(t) + 0
             /\ \E n \in {0, 1} : ToldReviews(t)' = ToldReviews(t) + n /\ DueReviews(t)' = DueReviews(t) + n
  <2> DEFINE n == One(t = q.task /\ q.to = "IN_REVIEW")
  <2>1. n \in {0, 1}
    BY DEF One
  <2>2. /\ Cardinality(Assigners(t)') = Cardinality(Assigners(t))
        /\ Cardinality(Reviewers(t)') = Cardinality(Reviewers(t)) + n
    BY CommitSlot
  <2>3. DueReviews(t)' = DueReviews(t) + n
    <3>1. CASE t = q.task
      <4>1. DueReviews(t)' = Cardinality(Reviews(Append(log[q.task], row)))
        BY <1>2, <3>1 DEF DueReviews
      <4>2. DueReviews(t)' = Cardinality(Reviews(log[q.task])) + One(q.to = "IN_REVIEW")
        BY <1>2, <4>1, ReviewsOfAppend
      <4>3. n = One(q.to = "IN_REVIEW")
        BY <3>1 DEF One
      <4>4. DueReviews(t) = Cardinality(Reviews(log[q.task]))
        BY <3>1 DEF DueReviews
      <4>5. QED  BY <4>2, <4>3, <4>4
    <3>2. CASE t # q.task
      BY <1>2, <3>2, NoticeTypes DEF DueReviews, One
    <3>3. QED  BY <3>1, <3>2
  <2> HIDE DEF n
  <2>4. ToldReviews(t)' = ToldReviews(t) + n
    BY <1>1, <2>1, <2>2, NoticeTypes DEF ToldReviews
  <2>5. ToldAssigned(t)' = ToldAssigned(t) + 0
    BY <1>1, <2>2, NoticeTypes DEF ToldAssigned
  <2>6. DueAssigned(t)' = DueAssigned(t) + 0
    BY <1>3, NoticeTypes
  <2>7. QED  BY <2>1, <2>3, <2>4, <2>5, <2>6
<1>5. QED  BY <1>1, <1>4, NoticeFrame
\* Steps that neither insert a task, nor log, nor notify of these.
LEMMA NoticeSame ==
    ASSUME TypeOK, NoticeInv, log' = log, DOMAIN task' = DOMAIN task,
           \A t \in DOMAIN task : task'[t].assignee = task[t].assignee,
           \A t \in Tasks : /\ notices'["TASK_ASSIGNED"][t] = notices["TASK_ASSIGNED"][t]
                            /\ notices'["TASK_MOVED_TO_REVIEW"][t] = notices["TASK_MOVED_TO_REVIEW"][t]
                            /\ Cardinality(Assigners(t)') \in Nat
                            /\ Cardinality(Reviewers(t)') \in Nat
                            /\ Cardinality(Assigners(t)') <= Cardinality(Assigners(t))
                            /\ Cardinality(Reviewers(t)') <= Cardinality(Reviewers(t)),
           \/ faults' # 0
           \/ /\ faults' = faults
              /\ \A t : /\ Cardinality(Assigners(t)') = Cardinality(Assigners(t))
                        /\ Cardinality(Reviewers(t)') = Cardinality(Reviewers(t))
    PROVE  NoticeInv'
<1>1. SUFFICES ASSUME NEW t \in Tasks
               PROVE  /\ ToldAssigned(t)' <= DueAssigned(t)'
                      /\ ToldReviews(t)' <= DueReviews(t)'
                      /\ faults' = 0 => /\ ToldAssigned(t)' = DueAssigned(t)'
                                        /\ ToldReviews(t)' = DueReviews(t)'
  BY DEF NoticeInv
<1>2. DueAssigned(t)' = DueAssigned(t) /\ DueReviews(t)' = DueReviews(t)
  BY DEF DueAssigned, DueReviews
<1>3. /\ ToldAssigned(t)' \in Nat /\ ToldAssigned(t)' <= ToldAssigned(t) /\ ToldAssigned(t) \in Nat
      /\ ToldReviews(t)' \in Nat /\ ToldReviews(t)' <= ToldReviews(t) /\ ToldReviews(t) \in Nat
      /\ DueAssigned(t) \in Nat /\ DueReviews(t) \in Nat
  BY NoticeTypes DEF ToldAssigned, ToldReviews
<1>4. faults' = 0 => ToldAssigned(t)' = ToldAssigned(t) /\ ToldReviews(t)' = ToldReviews(t) /\ faults = 0
  BY DEF ToldAssigned, ToldReviews
<1>5. QED  BY <1>2, <1>3, <1>4 DEF NoticeInv

LEMMA NoticeNext ==
    TypeOK /\ ReviewsAreReviews /\ NoticeInv /\ [Next]_vars => NoticeInv'
<1> SUFFICES ASSUME TypeOK, ReviewsAreReviews, NoticeInv, [Next]_vars PROVE NoticeInv'
  OBVIOUS
<1>1. ASSUME NEW r \in Requests, NEW t \in Tasks, NEW p \in Projects,
             NEW a \in Users \cup {NoUser}, NEW d \in {"none", "future", "past"},
             InsertTask(r, t, p, a, d)
      PROVE  NoticeInv'
  BY <1>1, NoticeInsert
<1>2. ASSUME NEW r \in Requests, NotifyAssigned(r) \/ NotifyReview(r) \/ CommitMove(r)
      PROVE  NoticeInv'
  BY <1>2, NoticeAssigned, NoticeReview, NoticeCommit
<1>3. ASSUME NEW r \in Requests, NEW u \in Users, NEW t \in Tasks,
             NEW to \in Statuses, ReadTask(r, u, t, to)
      PROVE  NoticeInv'
  <2>1. \A x : /\ Cardinality(Assigners(x)') = Cardinality(Assigners(x))
               /\ Cardinality(Reviewers(x)') = Cardinality(Reviewers(x))
    BY <1>3, ReadSlot
  <2>2. task' = task /\ log' = log /\ notices' = notices /\ faults' = faults
    BY <1>3 DEF ReadTask
  <2>3. QED  BY <2>1, <2>2, RequestsFinite, NoticeSame
<1>4. ASSUME NEW r \in Requests, BroadcastMove(r) PROVE NoticeInv'
  <2>1. \A x : /\ Cardinality(Assigners(x)') = Cardinality(Assigners(x))
               /\ Cardinality(Reviewers(x)') = Cardinality(Reviewers(x))
    BY <1>4, BroadcastSlot
  <2>2. task' = task /\ log' = log /\ notices' = notices /\ faults' = faults
    BY <1>4 DEF BroadcastMove
  <2>3. QED  BY <2>1, <2>2, RequestsFinite, NoticeSame
<1>5. CASE Crash \/ \E r \in Requests : RequestFails(r)
  <2>1. \A x : /\ Cardinality(Assigners(x)') <= Cardinality(Assigners(x))
               /\ Cardinality(Reviewers(x)') <= Cardinality(Reviewers(x))
    BY <1>5, FaultSlots
  <2>2. \A x : Cardinality(Assigners(x)') \in Nat /\ Cardinality(Reviewers(x)') \in Nat
    <3>1. \A S \in SUBSET Requests : Cardinality(S) \in Nat
      BY TaskServiceAssumption, FS_Subset, FS_CardinalityType
    <3>2. QED  BY <3>1 DEF Assigners, Reviewers
  <2>3. task' = task /\ log' = log /\ notices' = notices /\ faults' # 0
    BY <1>5, FaultCounts DEF Crash, RequestFails
  <2>4. QED  BY <2>1, <2>2, <2>3, NoticeSame
<1>6. ASSUME UNCHANGED <<log, request>>, DOMAIN task' = DOMAIN task,
             \A t \in DOMAIN task : task'[t].assignee = task[t].assignee,
             faults' = faults \/ faults' # 0,
             \A t \in Tasks : /\ notices'["TASK_ASSIGNED"][t] = notices["TASK_ASSIGNED"][t]
                              /\ notices'["TASK_MOVED_TO_REVIEW"][t] = notices["TASK_MOVED_TO_REVIEW"][t]
      PROVE  NoticeInv'
  <2>1. \A x : Assigners(x)' = Assigners(x) /\ Reviewers(x)' = Reviewers(x)
    BY <1>6, RequestsFrame
  <2>2. \A x : /\ Cardinality(Assigners(x)') \in Nat /\ Cardinality(Reviewers(x)') \in Nat
               /\ Cardinality(Assigners(x)') = Cardinality(Assigners(x))
               /\ Cardinality(Reviewers(x)') = Cardinality(Reviewers(x))
    BY <2>1, RequestsFinite
  <2>3. QED  BY <1>6, <2>2, NoticeSame
<1>7. ASSUME NEW s \in Sweeps, SweepRead(s) \/ SweepFails(s) PROVE NoticeInv'
  BY <1>6, <1>7, FaultCounts DEF SweepRead, SweepFails
<1>8. ASSUME NEW s \in Sweeps, SweepFlag(s) PROVE NoticeInv'
  BY <1>6, <1>8, FlagShape DEF SweepFlag
<1>9. ASSUME NEW s \in Sweeps, NEW t \in Tasks, SweepNotify(s, t) PROVE NoticeInv'
  <2>1. /\ task' = task /\ log' = log /\ request' = request /\ faults' = faults
        /\ notices' = [notices EXCEPT !["TASK_OVERDUE"][t] = @ + 1]
    BY <1>9 DEF SweepNotify
  <2>2. \A x \in Tasks : /\ notices'["TASK_ASSIGNED"][x] = notices["TASK_ASSIGNED"][x]
                         /\ notices'["TASK_MOVED_TO_REVIEW"][x] = notices["TASK_MOVED_TO_REVIEW"][x]
    BY <2>1, OneMore DEF TypeOK, Kinds
  <2>3. QED  BY <1>6, <2>1, <2>2
<1>10. ASSUME NEW t \in Tasks, DueDatePasses(t) PROVE NoticeInv'
  <2>1. DOMAIN task' = DOMAIN task /\ \A x \in DOMAIN task : task'[x].assignee = task[x].assignee
    BY <1>10 DEF DueDatePasses, TypeOK, TaskRow
  <2>2. QED  BY <1>6, <1>10, <2>1 DEF DueDatePasses
<1>11. CASE UNCHANGED vars
  BY <1>6, <1>11 DEF vars
<1>12. QED
  BY <1>1, <1>2, <1>3, <1>4, <1>5, <1>7, <1>8, <1>9, <1>10, <1>11
  DEF Next, RequestStep, SweepStep

LEMMA CountsInit == Init => ReviewsAreReviews /\ BroadcastInv /\ NoticeInv
<1> SUFFICES ASSUME Init PROVE ReviewsAreReviews /\ BroadcastInv /\ NoticeInv
  OBVIOUS
<1>1. \A t : Broadcasters(t) = {} /\ Assigners(t) = {} /\ Reviewers(t) = {}
  BY DEF Init, Broadcasters, Assigners, Reviewers, ToBroadcast, ToAssign, ToReview, Idle
<1>2. \A t \in Tasks : /\ log[t] = <<>> /\ emitted[t] = <<>> /\ t \notin DOMAIN task
                       /\ notices["TASK_ASSIGNED"][t] = 0 /\ notices["TASK_MOVED_TO_REVIEW"][t] = 0
  BY DEF Init, Kinds
<1>3. Reviews(<<>>) = {} /\ Cardinality({}) = 0
  BY FS_EmptySet DEF Reviews
<1>4. ReviewsAreReviews
  BY DEF Init, ReviewsAreReviews, Idle
<1>5. \A t \in Tasks : /\ Cardinality(Broadcasters(t)) = 0 /\ Cardinality(Assigners(t)) = 0
                       /\ Cardinality(Reviewers(t)) = 0 /\ Cardinality(Reviews(log[t])) = 0
                       /\ Len(log[t]) = 0 /\ Len(emitted[t]) = 0 /\ DOMAIN emitted[t] = {}
  <2>1. Len(<<>>) = 0 /\ DOMAIN <<>> = {}
    OBVIOUS
  <2>2. QED  BY <1>1, <1>2, <1>3, <2>1
<1>6. BroadcastInv /\ NoticeInv
  <2>1. BroadcastInv
    BY <1>5 DEF BroadcastInv
  <2>2. ASSUME NEW t \in Tasks
        PROVE  ToldAssigned(t) = 0 /\ ToldReviews(t) = 0 /\ DueAssigned(t) = 0 /\ DueReviews(t) = 0
    BY <1>2, <1>5 DEF ToldAssigned, ToldReviews, DueAssigned, DueReviews
  <2>3. NoticeInv
    BY <2>2 DEF NoticeInv
  <2>4. QED  BY <2>1, <2>3
<1>7. QED  BY <1>4, <1>6

LEMMA BoardAlways == Spec => []BoardInv
  BY BoardInit, BoardInvNext, TypeCorrect, PTL DEF Spec

LEMMA CountsAlways == Spec => [](ReviewsAreReviews /\ BroadcastInv /\ NoticeInv)
<1>1. TypeOK /\ BoardInv /\ ReviewsAreReviews /\ BroadcastInv /\ NoticeInv /\ [Next]_vars
        => ReviewsAreReviews' /\ BroadcastInv' /\ NoticeInv'
  BY ReviewsStay, BroadcastNext, NoticeNext
<1>2. QED  BY <1>1, CountsInit, BoardAlways, TypeCorrect, PTL DEF Spec

\* No log row is broadcast twice or before it is committed, and unless a handler was
\* cut short each is broadcast or its handler is about to, however moves race.
THEOREM BroadcastsAlwaysAccount == Spec => []BroadcastsAccountForRows
<1>1. TypeOK /\ BoardInv /\ BroadcastInv => BroadcastsAccountForRows
  <2>1. SUFFICES ASSUME TypeOK, BoardInv, BroadcastInv, NEW t \in Tasks
                 PROVE  LET pending == Cardinality(Waiting(t, {"committed"})) IN
                        /\ \A i, j \in DOMAIN emitted[t] : emitted[t][i] = emitted[t][j] => i = j
                        /\ \A i \in DOMAIN emitted[t] : emitted[t][i] \in DOMAIN log[t]
                        /\ faults = 0 => Len(emitted[t]) + pending = Len(log[t])
    BY DEF BroadcastsAccountForRows
  <2>2. Waiting(t, {"committed"}) = Broadcasters(t)
    BY DEF Waiting, Broadcasters, ToBroadcast
  <2>3. DOMAIN emitted[t] = 1..Len(emitted[t]) /\ DOMAIN log[t] = 1..Len(log[t])
    BY <2>1 DEF TypeOK
  <2>4. \A i \in DOMAIN emitted[t] : emitted[t][i] \in DOMAIN log[t]
    BY <2>1, <2>3 DEF BoardInv, RowsAreOwned
  <2>5. QED  BY <2>1, <2>2, <2>4 DEF BroadcastInv
<1>2. QED  BY <1>1, CountsAlways, BoardAlways, TypeCorrect, PTL

\* An assignee is told once of the assignment and a PM once of each move into review,
\* never more, and never less unless a handler was cut short.
THEOREM NoticesAlwaysAccount == Spec => []NoticesAccountForEvents
<1>1. TypeOK /\ NoticeInv => NoticesAccountForEvents
  <2> DEFINE assigned(t) == IF t \in DOMAIN task /\ task[t].assignee # NoUser THEN 1 ELSE 0
             reviews(t) == Cardinality({i \in DOMAIN log[t] : log[t][i].to = "IN_REVIEW"})
             due(t) == [TASK_ASSIGNED |-> assigned(t), TASK_MOVED_TO_REVIEW |-> reviews(t)]
             pending(t) ==
               [TASK_ASSIGNED |-> Cardinality(Waiting(t, {"created"})),
                TASK_MOVED_TO_REVIEW |->
                  Cardinality({r \in Waiting(t, {"committed", "review"}) : request[r].to = "IN_REVIEW"})]
  <2>1. SUFFICES ASSUME TypeOK, NoticeInv, NEW t \in Tasks
                 PROVE  \A k \in DOMAIN due(t) :
                          /\ notices[k][t] + pending(t)[k] <= due(t)[k]
                          /\ faults = 0 => notices[k][t] + pending(t)[k] = due(t)[k]
    BY Zenon DEF NoticesAccountForEvents
  <2>2. Waiting(t, {"created"}) = Assigners(t)
    BY DEF Waiting, Assigners, ToAssign
  <2>3. {r \in Waiting(t, {"committed", "review"}) : request[r].to = "IN_REVIEW"} = Reviewers(t)
    BY DEF Waiting, Reviewers, ToReview
  <2>4. /\ DOMAIN due(t) = {"TASK_ASSIGNED", "TASK_MOVED_TO_REVIEW"}
        /\ due(t)["TASK_ASSIGNED"] = DueAssigned(t)
        /\ due(t)["TASK_MOVED_TO_REVIEW"] = DueReviews(t)
    BY DEF DueAssigned, DueReviews, Reviews
  <2>5. /\ pending(t)["TASK_ASSIGNED"] = Cardinality(Assigners(t))
        /\ pending(t)["TASK_MOVED_TO_REVIEW"] = Cardinality(Reviewers(t))
    BY <2>2, <2>3
  <2> HIDE DEF due, pending
  <2>6. /\ ToldAssigned(t) <= DueAssigned(t) /\ ToldReviews(t) <= DueReviews(t)
        /\ faults = 0 => ToldAssigned(t) = DueAssigned(t) /\ ToldReviews(t) = DueReviews(t)
    BY <2>1 DEF NoticeInv
  <2>7. QED  BY <2>4, <2>5, <2>6 DEF ToldAssigned, ToldReviews
<1>2. QED  BY <1>1, CountsAlways, TypeCorrect, PTL
-------------------------------------------------------------------------------
\* Warnings.

\* The sweeps with task t on their list, and those about to warn its assignee.
Holders(t) == {s \in Sweeps : t \in sweep[s].todo}
Tellers(t) == {s \in Sweeps : sweep[s].pc = "flagged" /\ t \in sweep[s].todo}

Flagged(t) == t \in DOMAIN task /\ task[t].isOverdue

\* How many warnings of t may still come before a move resets its flag: a sweep
\* that has t on its list can warn once, and as long as the flag is down any
\* sweep can still find t.
ToCome(t) ==
    IF Flagged(t) THEN Cardinality(Holders(t))
    ELSE Cardinality(Sweeps) + Cardinality(Tellers(t))

\* Inductive: the bound holds of the warnings to come too.
WarnInv ==
    \A t \in Tasks :
        notices["TASK_OVERDUE"][t] + ToCome(t) <= Cardinality(Sweeps) * (1 + Len(log[t]))

LEMMA SweepSets ==
    /\ Cardinality(Sweeps) \in Nat
    /\ \A S \in SUBSET Sweeps :
         /\ IsFiniteSet(S) /\ Cardinality(S) \in Nat /\ Cardinality(S) <= Cardinality(Sweeps)
         /\ \A R \in SUBSET S : Cardinality(R) <= Cardinality(S)
<1>1. IsFiniteSet(Sweeps)
  BY TaskServiceAssumption
<1>2. \A S \in SUBSET Sweeps : IsFiniteSet(S) /\ Cardinality(S) <= Cardinality(Sweeps)
  BY <1>1, FS_Subset
<1>3. \A S \in SUBSET Sweeps : \A R \in SUBSET S : Cardinality(R) <= Cardinality(S)
  BY <1>2, FS_Subset
<1>4. QED  BY <1>1, <1>2, <1>3, FS_CardinalityType

LEMMA OneMoreRow ==
    ASSUME NEW k \in Nat, NEW l \in Nat
    PROVE  k * (1 + (l + 1)) = k * (1 + l) + k
  OBVIOUS

LEMMA ToComeType ==
    ASSUME NEW t
    PROVE  /\ Holders(t) \in SUBSET Sweeps /\ Tellers(t) \in SUBSET Holders(t)
           /\ Cardinality(Holders(t)) \in Nat /\ Cardinality(Tellers(t)) \in Nat /\ ToCome(t) \in Nat
           /\ Cardinality(Tellers(t)) <= Cardinality(Holders(t))
           /\ Cardinality(Holders(t)) <= Cardinality(Sweeps) /\ Cardinality(Sweeps) \in Nat
<1>1. Holders(t) \in SUBSET Sweeps /\ Tellers(t) \in SUBSET Holders(t) /\ Tellers(t) \in SUBSET Sweeps
  BY DEF Holders, Tellers
<1>2. QED  BY <1>1, SweepSets DEF ToCome

\* The flag as it was: fewer sweeps that hold the task or warn of it, fewer
\* warnings to come.
LEMMA ToComeShrinks ==
    ASSUME NEW t, Flagged(t)' <=> Flagged(t),
           Flagged(t) => Holders(t)' \subseteq Holders(t),
           ~Flagged(t) => Tellers(t)' \subseteq Tellers(t)
    PROVE  ToCome(t)' <= ToCome(t) /\ ToCome(t)' \in Nat
<1>1. /\ Holders(t) \in SUBSET Sweeps /\ Tellers(t) \in SUBSET Sweeps
      /\ Holders(t)' \in SUBSET Sweeps /\ Tellers(t)' \in SUBSET Sweeps
  BY DEF Holders, Tellers
<1>2. CASE Flagged(t)
  <2>1. ToCome(t) = Cardinality(Holders(t)) /\ ToCome(t)' = Cardinality(Holders(t)')
    BY <1>2 DEF ToCome
  <2>2. QED  BY <1>1, <1>2, <2>1, SweepSets
<1>3. CASE ~Flagged(t)
  <2>1. /\ ToCome(t) = Cardinality(Sweeps) + Cardinality(Tellers(t))
        /\ ToCome(t)' = Cardinality(Sweeps) + Cardinality(Tellers(t)')
    BY <1>3 DEF ToCome
  <2>2. Cardinality(Tellers(t)') <= Cardinality(Tellers(t)) /\ Cardinality(Tellers(t)') \in Nat
    BY <1>1, <1>3, SweepSets
  <2>3. Cardinality(Tellers(t)) \in Nat /\ Cardinality(Sweeps) \in Nat
    BY <1>1, SweepSets
  <2>4. QED  BY <2>1, <2>2, <2>3
<1>4. QED  BY <1>2, <1>3

LEMMA WarnFrame ==
    ASSUME TypeOK, WarnInv, log' = log,
           \A t \in Tasks : /\ notices'["TASK_OVERDUE"][t] = notices["TASK_OVERDUE"][t]
                            /\ ToCome(t)' <= ToCome(t) /\ ToCome(t)' \in Nat
    PROVE  WarnInv'
<1>1. SUFFICES ASSUME NEW t \in Tasks
               PROVE  notices'["TASK_OVERDUE"][t] + ToCome(t)' <= Cardinality(Sweeps) * (1 + Len(log'[t]))
  BY DEF WarnInv
<1>2. /\ notices["TASK_OVERDUE"][t] \in Nat /\ ToCome(t) \in Nat /\ Cardinality(Sweeps) \in Nat
      /\ Len(log[t]) \in Nat
  BY ToComeType DEF TypeOK, Kinds
<1> DEFINE bound == Cardinality(Sweeps) * (1 + Len(log[t]))
<1>3. bound \in Nat
  BY <1>2
<1>4. notices["TASK_OVERDUE"][t] + ToCome(t) <= bound
  BY DEF WarnInv
<1> HIDE DEF bound
<1>5. notices'["TASK_OVERDUE"][t] + ToCome(t)' <= bound
  BY <1>2, <1>3, <1>4
<1>6. QED  BY <1>5 DEF bound

LEMMA WarnCommit ==
    ASSUME TypeOK, WarnInv, NEW r \in Requests, CommitMove(r)
    PROVE  WarnInv'
<1> DEFINE q == request[r]
           K == Cardinality(Sweeps)
<1>1. sweep' = sweep /\ notices' = notices
  BY DEF CommitMove
<1>2. /\ q.task \in Tasks /\ DOMAIN task' = DOMAIN task
      /\ \A t \in DOMAIN task : t # q.task => task'[t] = task[t]
      /\ Len(log'[q.task]) = Len(log[q.task]) + 1
      /\ \A t \in Tasks : t # q.task => log'[t] = log[t]
  BY CommitShape, CommitLog
<1>3. \A t : Holders(t)' = Holders(t) /\ Tellers(t)' = Tellers(t)
  BY <1>1 DEF Holders, Tellers
<1>4. \A t \in Tasks : /\ notices["TASK_OVERDUE"][t] \in Nat /\ Len(log[t]) \in Nat
                       /\ notices["TASK_OVERDUE"][t] + ToCome(t) <= K * (1 + Len(log[t]))
  BY DEF WarnInv, TypeOK, Kinds
<1>5. K \in Nat
  BY SweepSets
<1>6. \A t \in Tasks : ToCome(t)' <= ToCome(t) + K /\ ToCome(t)' \in Nat
  <2> SUFFICES ASSUME NEW t \in Tasks
               PROVE  ToCome(t)' <= ToCome(t) + K /\ ToCome(t)' \in Nat
    OBVIOUS
  <2>1. /\ ToCome(t) \in {Cardinality(Holders(t)), K + Cardinality(Tellers(t))}
        /\ ToCome(t)' \in {Cardinality(Holders(t)), K + Cardinality(Tellers(t))}
    BY <1>3 DEF ToCome
  <2>2. /\ Cardinality(Holders(t)) \in Nat /\ Cardinality(Tellers(t)) \in Nat
        /\ Cardinality(Tellers(t)) <= Cardinality(Holders(t)) /\ Cardinality(Holders(t)) <= K
    BY ToComeType
  <2> HIDE DEF K
  <2>3. QED  BY <1>5, <2>1, <2>2
<1>7. \A t \in Tasks : t # q.task => ToCome(t)' = ToCome(t)
  BY <1>2, <1>3 DEF ToCome, Flagged
<1>8. ASSUME NEW t \in Tasks
      PROVE  notices["TASK_OVERDUE"][t] + ToCome(t)' <= K * (1 + Len(log'[t]))
  <2> DEFINE bound == K * (1 + Len(log[t]))
  <2>1. bound \in Nat /\ notices["TASK_OVERDUE"][t] + ToCome(t) <= bound /\ ToCome(t) \in Nat
    BY <1>4, <1>5, ToComeType
  <2>2. CASE t = q.task
    <3>1. K * (1 + Len(log'[t])) = bound + K
      BY <1>2, <1>4, <1>5, <2>2, OneMoreRow
    <3> HIDE DEF bound, K
    <3>2. QED  BY <1>4, <1>5, <1>6, <2>1, <3>1
  <2>3. CASE t # q.task
    <3>1. log'[t] = log[t] /\ ToCome(t)' = ToCome(t)
      BY <1>2, <1>7, <2>3
    <3>2. QED  BY <1>4, <3>1
  <2>4. QED  BY <2>2, <2>3
<1>9. QED  BY <1>1, <1>8 DEF WarnInv

LEMMA WarnRead ==
    ASSUME TypeOK, WarnInv, NEW s \in Sweeps, SweepRead(s)
    PROVE  WarnInv'
<1>1. /\ task' = task /\ log' = log /\ notices' = notices
      /\ sweep[s] = NoSweep /\ sweep'[s] = [pc |-> "found", todo |-> Unflagged]
      /\ \A x \in Sweeps : x # s => sweep'[x] = sweep[x]
  BY DEF SweepRead, TypeOK
<1>2. ASSUME NEW t \in Tasks PROVE ToCome(t)' <= ToCome(t) /\ ToCome(t)' \in Nat
  <2>1. Flagged(t)' <=> Flagged(t)
    BY <1>1 DEF Flagged
  <2>2. Flagged(t) => Holders(t)' \subseteq Holders(t)
    BY <1>1 DEF Flagged, Holders, Unflagged
  <2>3. Tellers(t)' \subseteq Tellers(t)
    BY <1>1 DEF Tellers
  <2>4. QED  BY <2>1, <2>2, <2>3, ToComeShrinks
<1>3. QED  BY <1>1, <1>2, WarnFrame

LEMMA WarnFlag ==
    ASSUME TypeOK, WarnInv, NEW s \in Sweeps, SweepFlag(s)
    PROVE  WarnInv'
<1>1. /\ log' = log /\ notices' = notices /\ sweep[s].pc = "found"
      /\ \A x \in Sweeps : x # s => sweep'[x] = sweep[x]
  BY DEF SweepFlag, TypeOK
<1>2. sweep'[s].todo \subseteq sweep[s].todo
  BY DEF SweepFlag, TypeOK, NoSweep, Assigned
<1>3. \A t \in Tasks : Flagged(t)' <=> Flagged(t) \/ t \in sweep[s].todo
  BY FlagShape DEF Flagged, TypeOK
<1>4. ASSUME NEW t \in Tasks PROVE ToCome(t)' <= ToCome(t) /\ ToCome(t)' \in Nat
  <2>1. Holders(t)' \subseteq Holders(t)
    BY <1>1, <1>2 DEF Holders
  <2>2. CASE Flagged(t) \/ t \notin sweep[s].todo
    <3>1. Flagged(t)' <=> Flagged(t)
      BY <1>3, <2>2
    <3>2. ~Flagged(t) => Tellers(t)' \subseteq Tellers(t)
      BY <1>1, <1>2, <2>2 DEF Tellers
    <3>3. QED  BY <2>1, <3>1, <3>2, ToComeShrinks
  <2>3. CASE ~Flagged(t) /\ t \in sweep[s].todo
    <3>1. /\ ToCome(t) = Cardinality(Sweeps) + Cardinality(Tellers(t))
          /\ ToCome(t)' = Cardinality(Holders(t)')
      BY <1>3, <2>3 DEF ToCome
    <3>2. Holders(t)' \in SUBSET Sweeps
      BY DEF Holders
    <3>3. QED  BY <3>1, <3>2, SweepSets, ToComeType
  <2>4. QED  BY <2>2, <2>3
<1>5. QED  BY <1>1, <1>4, WarnFrame

LEMMA WarnNotify ==
    ASSUME TypeOK, WarnInv, NEW s \in Sweeps, NEW u \in Tasks, SweepNotify(s, u)
    PROVE  WarnInv'
<1>1. /\ task' = task /\ log' = log /\ sweep[s].pc = "flagged" /\ u \in sweep[s].todo
      /\ \A x \in Sweeps : x # s => sweep'[x] = sweep[x]
      /\ notices' = [notices EXCEPT !["TASK_OVERDUE"][u] = @ + 1]
  BY DEF SweepNotify, TypeOK
<1>2. sweep'[s].todo = sweep[s].todo \ {u} /\ (sweep'[s].todo # {} => sweep'[s].pc = "flagged")
  BY DEF SweepNotify, TypeOK, NoSweep
<1>3. /\ notices'["TASK_OVERDUE"][u] = notices["TASK_OVERDUE"][u] + 1
      /\ \A t \in Tasks : t # u => notices'["TASK_OVERDUE"][t] = notices["TASK_OVERDUE"][t]
  BY <1>1, OneMore DEF TypeOK, Kinds
<1>4. \A t \in Tasks : Flagged(t)' <=> Flagged(t)
  BY <1>1 DEF Flagged
<1>5. ASSUME NEW t \in Tasks, t # u PROVE ToCome(t)' <= ToCome(t) /\ ToCome(t)' \in Nat
  <2>1. Holders(t)' \subseteq Holders(t) /\ Tellers(t)' \subseteq Tellers(t)
    BY <1>1, <1>2, <1>5 DEF Holders, Tellers
  <2>2. QED  BY <1>4, <2>1, ToComeShrinks
<1>6. ToCome(u)' = ToCome(u) - 1 /\ ToCome(u) \in Nat
  <2>1. /\ Holders(u)' = Holders(u) \ {s} /\ s \in Holders(u)
        /\ Tellers(u)' = Tellers(u) \ {s} /\ s \in Tellers(u)
    BY <1>1, <1>2 DEF Holders, Tellers
  <2>2. \A S \in SUBSET Sweeps : s \in S => Cardinality(S \ {s}) = Cardinality(S) - 1
    BY SweepSets, FS_RemoveElement
  <2>3. /\ Cardinality(Holders(u)') = Cardinality(Holders(u)) - 1
        /\ Cardinality(Tellers(u)') = Cardinality(Tellers(u)) - 1
    BY <2>1, <2>2, ToComeType
  <2>4. QED  BY <1>4, <2>3, ToComeType DEF ToCome
<1>7. SUFFICES ASSUME NEW t \in Tasks
               PROVE  notices'["TASK_OVERDUE"][t] + ToCome(t)' <= Cardinality(Sweeps) * (1 + Len(log[t]))
  BY <1>1 DEF WarnInv
<1> DEFINE bound == Cardinality(Sweeps) * (1 + Len(log[t]))
<1>8. /\ bound \in Nat /\ notices["TASK_OVERDUE"][t] \in Nat /\ ToCome(t) \in Nat
      /\ notices["TASK_OVERDUE"][t] + ToCome(t) <= bound
  <2>1. Cardinality(Sweeps) \in Nat /\ Len(log[t]) \in Nat /\ ToCome(t) \in Nat
        /\ notices["TASK_OVERDUE"][t] \in Nat
    BY SweepSets, ToComeType DEF TypeOK, Kinds
  <2>2. QED  BY <2>1 DEF WarnInv
<1> HIDE DEF bound
<1>9. notices'["TASK_OVERDUE"][t] + ToCome(t)' <= bound
  <2>1. CASE t = u
    BY <1>3, <1>6, <1>8, <2>1
  <2>2. CASE t # u
    BY <1>3, <1>5, <1>8, <2>2
  <2>3. QED  BY <2>1, <2>2
<1>10. QED  BY <1>9 DEF bound

\* Steps that neither log, nor warn, nor flag, nor put a task on a sweep's list.
LEMMA WarnSame ==
    ASSUME TypeOK, WarnInv, log' = log,
           \A t \in Tasks : /\ notices'["TASK_OVERDUE"][t] = notices["TASK_OVERDUE"][t]
                            /\ Flagged(t)' <=> Flagged(t),
           \A s \in Sweeps : sweep'[s] = sweep[s] \/ sweep'[s].todo = {}
    PROVE  WarnInv'
<1>1. ASSUME NEW t \in Tasks PROVE ToCome(t)' <= ToCome(t) /\ ToCome(t)' \in Nat
  <2>1. Holders(t)' \subseteq Holders(t) /\ Tellers(t)' \subseteq Tellers(t)
    BY DEF Holders, Tellers
  <2>2. QED  BY <2>1, ToComeShrinks
<1>2. QED  BY <1>1, WarnFrame

LEMMA WarnNext == TypeOK /\ WarnInv /\ [Next]_vars => WarnInv'
<1> SUFFICES ASSUME TypeOK, WarnInv, [Next]_vars PROVE WarnInv'
  OBVIOUS
<1>1. ASSUME NEW r \in Requests, NEW t \in Tasks, NEW p \in Projects,
             NEW a \in Users \cup {NoUser}, NEW d \in {"none", "future", "past"},
             InsertTask(r, t, p, a, d)
      PROVE  WarnInv'
  <2>1. log' = log /\ notices' = notices /\ sweep' = sweep
    BY <1>1 DEF InsertTask
  <2>2. /\ t \notin DOMAIN task /\ DOMAIN task' = DOMAIN task \cup {t}
        /\ ~task'[t].isOverdue /\ \A x \in DOMAIN task : task'[x] = task[x]
    BY <1>1 DEF InsertTask
  <2>3. \A x \in Tasks : Flagged(x)' <=> Flagged(x)
    BY <2>2 DEF Flagged
  <2>4. QED  BY <2>1, <2>3, WarnSame
<1>2. ASSUME NEW r \in Requests, CommitMove(r) PROVE WarnInv'
  BY <1>2, WarnCommit
<1>3. ASSUME UNCHANGED <<task, log, sweep>>,
             \A t \in Tasks : notices'["TASK_OVERDUE"][t] = notices["TASK_OVERDUE"][t]
      PROVE  WarnInv'
  <2>1. \A t \in Tasks : Flagged(t)' <=> Flagged(t)
    BY <1>3 DEF Flagged
  <2>2. QED  BY <1>3, <2>1, WarnSame
<1>4. ASSUME NEW r \in Requests, NotifyAssigned(r) PROVE WarnInv'
  <2>1. request[r].task \in Tasks
    BY <1>4, AssignedSlot
  <2>2. notices' = [notices EXCEPT !["TASK_ASSIGNED"][request[r].task] = @ + 1]
    BY <1>4 DEF NotifyAssigned
  <2>3. \A t \in Tasks : notices'["TASK_OVERDUE"][t] = notices["TASK_OVERDUE"][t]
    BY <2>1, <2>2, OneMore DEF TypeOK, Kinds
  <2>4. QED  BY <1>3, <1>4, <2>3 DEF NotifyAssigned
<1>5. ASSUME NEW r \in Requests, NotifyReview(r) PROVE WarnInv'
  <2>1. request[r].task \in Tasks
    <3>1. request[r].pc = "review" /\ request[r] # Idle
      BY <1>5 DEF NotifyReview, Idle
    <3>2. QED  BY <3>1, RequestKind DEF TypeOK
  <2>2. notices' = [notices EXCEPT !["TASK_MOVED_TO_REVIEW"][request[r].task] = @ + 1]
    BY <1>5 DEF NotifyReview
  <2>3. \A t \in Tasks : notices'["TASK_OVERDUE"][t] = notices["TASK_OVERDUE"][t]
    BY <2>1, <2>2, OneMore DEF TypeOK, Kinds
  <2>4. QED  BY <1>3, <1>5, <2>3 DEF NotifyReview
<1>6. ASSUME NEW r \in Requests, BroadcastMove(r) \/ RequestFails(r) PROVE WarnInv'
  BY <1>3, <1>6 DEF BroadcastMove, RequestFails
<1>7. ASSUME NEW r \in Requests, NEW u \in Users, NEW t \in Tasks,
             NEW to \in Statuses, ReadTask(r, u, t, to)
      PROVE  WarnInv'
  BY <1>3, <1>7 DEF ReadTask
<1>8. ASSUME NEW s \in Sweeps, SweepRead(s) \/ SweepFlag(s) PROVE WarnInv'
  BY <1>8, WarnRead, WarnFlag
<1>9. ASSUME NEW s \in Sweeps, NEW t \in Tasks, SweepNotify(s, t) PROVE WarnInv'
  BY <1>9, WarnNotify
<1>10. CASE Crash \/ \E s \in Sweeps : SweepFails(s)
  <2>1. \A s \in Sweeps : sweep'[s] = sweep[s] \/ sweep'[s].todo = {}
    BY <1>10 DEF Crash, SweepFails, NoSweep, TypeOK
  <2>2. task' = task /\ log' = log /\ notices' = notices
    BY <1>10 DEF Crash, SweepFails
  <2>3. \A t \in Tasks : Flagged(t)' <=> Flagged(t)
    BY <2>2 DEF Flagged
  <2>4. QED  BY <2>1, <2>2, <2>3, WarnSame
<1>11. ASSUME NEW t \in Tasks, DueDatePasses(t) PROVE WarnInv'
  <2>1. DOMAIN task' = DOMAIN task /\ \A x \in DOMAIN task : task'[x].isOverdue = task[x].isOverdue
    BY <1>11 DEF DueDatePasses, TypeOK, TaskRow
  <2>2. \A x \in Tasks : Flagged(x)' <=> Flagged(x)
    BY <2>1 DEF Flagged
  <2>3. QED  BY <1>11, <2>2, WarnSame DEF DueDatePasses
<1>12. CASE UNCHANGED vars
  BY <1>3, <1>12 DEF vars
<1>13. QED
  BY <1>1, <1>2, <1>4, <1>5, <1>6, <1>7, <1>8, <1>9, <1>10, <1>11, <1>12
  DEF Next, RequestStep, SweepStep

LEMMA WarnInit == Init => WarnInv
<1> SUFFICES ASSUME Init, NEW t \in Tasks
             PROVE  notices["TASK_OVERDUE"][t] + ToCome(t) <= Cardinality(Sweeps) * (1 + Len(log[t]))
  BY DEF WarnInv
<1>1. Tellers(t) = {} /\ ~Flagged(t) /\ log[t] = <<>> /\ notices["TASK_OVERDUE"][t] = 0
  BY DEF Init, Tellers, Flagged, NoSweep, Kinds
<1>2. ToCome(t) = Cardinality(Sweeps) + 0 /\ Len(log[t]) = 0
  BY <1>1, FS_EmptySet DEF ToCome
<1>3. QED  BY <1>1, <1>2, SweepSets

\* However moves and sweeps race, an assignee is warned of a task at most once by
\* each sweep, and once more by each for every move: a warning is only repeated
\* after some move has written the flag back.
THEOREM OverdueNoticesAlwaysBounded == Spec => []OverdueNoticesBounded
<1>1. TypeOK /\ WarnInv => OverdueNoticesBounded
  <2>1. SUFFICES ASSUME TypeOK, WarnInv, NEW t \in Tasks
                 PROVE  notices["TASK_OVERDUE"][t] <= Cardinality(Sweeps) * (1 + Len(log[t]))
    BY DEF OverdueNoticesBounded
  <2> DEFINE bound == Cardinality(Sweeps) * (1 + Len(log[t]))
  <2>2. /\ notices["TASK_OVERDUE"][t] \in Nat /\ ToCome(t) \in Nat
        /\ Cardinality(Sweeps) \in Nat /\ Len(log[t]) \in Nat
    <3>1. notices["TASK_OVERDUE"][t] \in Nat /\ log[t] \in Seq(LogRow)
      BY <2>1 DEF TypeOK, Kinds
    <3>2. QED  BY <3>1, ToComeType
  <2>3. bound \in Nat /\ notices["TASK_OVERDUE"][t] + ToCome(t) <= bound
    BY <2>1, <2>2 DEF WarnInv
  <2> HIDE DEF bound
  <2>4. notices["TASK_OVERDUE"][t] <= bound
    BY <2>2, <2>3
  <2>5. QED  BY <2>4 DEF bound
<1>2. QED  BY <1>1, WarnInit, WarnNext, TypeCorrect, PTL DEF Spec
===============================================================================
