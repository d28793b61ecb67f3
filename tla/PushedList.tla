----------------------------- MODULE PushedList -----------------------------
(* What a page with a list of newest rows and a push for each new one promises, *)
(* the activity feed and the notification bell alike: the list is the newest    *)
(* page of the rows as they were at one moment, fetched once, and every other   *)
(* change of it is one announced row put on top.  A push may be lost, and may   *)
(* come more than once where a socket is in several rooms.                      *)
EXTENDS Naturals, Sequences

CONSTANTS
    PageSize,   \* rows of the fetched page
    MaxShown    \* entries the list keeps when a row is put on top

VARIABLES
    rows,       \* the times of the rows, in the order of their inserts
    list,       \* the numbers of the rows listed, the first one on top
    fetched,    \* the page has been fetched
    due         \* the rows whose announcement is still to come

pushedVars == <<rows, list, fetched, due>>

Shorter(m, n) == IF m < n THEN m ELSE n

\* L is the page of the newest of the first n rows.
NewestPage(L, n) ==
    /\ Len(L) = Shorter(PageSize, n)
    /\ \A k \in DOMAIN L : L[k] \in 1..n
    /\ \A k, m \in DOMAIN L : k < m => L[k] # L[m] /\ rows[L[k]] >= rows[L[m]]
    /\ \A k \in DOMAIN L, i \in 1..n :
         (\A m \in DOMAIN L : L[m] # i) => rows[L[k]] >= rows[i]

Init == rows = <<>> /\ list = <<>> /\ fetched = FALSE /\ due = {}

Insert ==
    /\ Len(rows') = Len(rows) + 1 /\ SubSeq(rows', 1, Len(rows)) = rows
    /\ due' = due \cup {Len(rows) + 1}
    /\ UNCHANGED <<list, fetched>>

Fetch ==
    /\ ~fetched /\ fetched'
    /\ \E n \in 0 .. Len(rows) : NewestPage(list', n)
    /\ UNCHANGED <<rows, due>>

Push(i) ==
    /\ list' = SubSeq(<<i>> \o list, 1, Shorter(MaxShown, Len(list) + 1))
    /\ due' \in {due, due \ {i}}
    /\ UNCHANGED <<rows, fetched>>

Drop ==
    /\ due' \subseteq due
    /\ UNCHANGED <<rows, list, fetched>>

Next == Insert \/ Fetch \/ Drop \/ \E i \in due : Push(i)

Spec == Init /\ [][Next]_pushedVars
=============================================================================
