-------------------------------- MODULE Board --------------------------------
(* What the task board promises, with no requests, no database round trips   *)
(* and no failures: a task is created in TODO; a status change and its log   *)
(* row happen together; a row is broadcast after it is written, at most once.*)
(*                                                                           *)
(* Strict is the promise of the README ("the log can never desync from the   *)
(* task's real history"): a row starts at the status the task really had,    *)
(* and rows of a task are broadcast oldest first.  Without Strict a row only *)
(* has to be a legal transition that ends in the task's new status.          *)
EXTENDS Domain, Naturals, Sequences

CONSTANTS Tasks, Strict

VARIABLES
    status,     \* created task -> its status
    log,        \* task -> the ActivityLog rows about it, in commit order
    emitted     \* task -> the numbers of the rows broadcast, in that order

boardVars == <<status, log, emitted>>

Init ==
    /\ status = [t \in {} |-> "TODO"]
    /\ log = [t \in Tasks |-> <<>>]
    /\ emitted = [t \in Tasks |-> <<>>]

Create(t) ==
    /\ t \notin DOMAIN status
    /\ status' = [x \in DOMAIN status \cup {t} |->
                    IF x = t THEN "TODO" ELSE status[x]]
    /\ UNCHANGED <<log, emitted>>

Move(t, u, from, to) ==
    /\ t \in DOMAIN status
    /\ <<from, to>> \in VALID_TRANSITIONS
    /\ Strict => from = status[t]
    /\ status' = [status EXCEPT ![t] = to]
    /\ log' = [log EXCEPT ![t] =
                 Append(@, [actor |-> u, from |-> from, to |-> to])]
    /\ UNCHANGED emitted

Broadcast(t, i) ==
    /\ i \in 1 .. Len(log[t])
    /\ \A k \in 1 .. Len(emitted[t]) :
         IF Strict THEN emitted[t][k] < i ELSE emitted[t][k] # i
    /\ emitted' = [emitted EXCEPT ![t] = Append(@, i)]
    /\ UNCHANGED <<status, log>>

Next ==
    \E t \in Tasks :
        \/ Create(t)
        \/ \E u \in Users, from, to \in Statuses : Move(t, u, from, to)
        \/ \E i \in 1 .. Len(log[t]) : Broadcast(t, i)

Spec == Init /\ [][Next]_boardVars
=============================================================================
