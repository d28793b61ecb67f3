---------------------------- MODULE TaskList_proofs ----------------------------
(* What TLAPS proves of TaskList for every set of tasks, of filters, of loads,  *)
(* moves and forms under way at once and every bound.                           *)
EXTENDS TaskList, TLAPS

\* Lists of n changes at most of a table with the tasks D, and the loads that go with
\* them while those of U are under way.
ListsOf(n, D) ==
    [filter : Filters \cup {"none"}, at : 0..n, rows : UNION {[S -> Statuses] : S \in SUBSET D}]

LoadsOf(U, n, D) ==
    [pc : {"asked", "answered"}, filter : Filters, of : {{}} \cup {{m} : m \in Moves},
     before : SUBSET U, passed : BOOLEAN, list : ListsOf(n, D)]

\* The loads: which of two was begun first is never said twice, each move has one load
\* at most, an answer is of the filter it was asked with, and one that will be shown was
\* read at time o or later.
Typed(ls, n, D) == ls \in [Fetches -> {NoLoad} \cup LoadsOf(UnderWay(ls), n, D)]
Ordered(ls) == \A i, k \in UnderWay(ls) : i \in ls[k].before => k \notin ls[i].before
OneEach(ls) == \A i, k \in UnderWay(ls) : ls[i].of = ls[k].of /\ ls[i].of # {} => i = k
Answered(ls, o) ==
    \A k \in UnderWay(ls) : ls[k].pc = "answered" =>
        /\ ls[k].list.filter = ls[k].filter /\ Fits(ls[k].list)
        /\ ls[k].of = {} => ls[k].list.at >= o

WellFormed(ls, n, D, o) ==
    Typed(ls, n, D) /\ Ordered(ls) /\ OneEach(ls) /\ Answered(ls, o)

\* Move m waits for a load.
Waits(ls, m) == \E i \in UnderWay(ls) : ls[i].of = {m}

LEMMA LoadFields ==
    ASSUME NEW U, NEW n, NEW D, NEW load \in LoadsOf(U, n, D)
    PROVE  /\ load # NoLoad /\ load.pc \in {"asked", "answered"} /\ load.filter \in Filters
           /\ load.of \in {{}} \cup {{m} : m \in Moves} /\ load.before \subseteq U
           /\ load.passed \in BOOLEAN /\ load.list \in ListsOf(n, D)
  BY DEF LoadsOf, NoLoad

\* A load that is behind the loads of B, and one that has been overtaken.
Behind(load, B) == [load EXCEPT !.before = B]
Passed(load) == [load EXCEPT !.passed = TRUE]

LEMMA LoadBehind ==
    ASSUME NEW U, NEW n, NEW D, NEW load \in LoadsOf(U, n, D), NEW B
    PROVE  /\ Behind(load, B) # NoLoad
           /\ Behind(load, B).pc = load.pc /\ Behind(load, B).filter = load.filter
           /\ Behind(load, B).of = load.of /\ Behind(load, B).before = B
           /\ Behind(load, B).passed = load.passed /\ Behind(load, B).list = load.list
  BY DEF LoadsOf, NoLoad, Behind

LEMMA LoadBehindTyped ==
    ASSUME NEW U, NEW n, NEW D, NEW load \in LoadsOf(U, n, D), NEW V, NEW B \in SUBSET V
    PROVE  Behind(load, B) \in LoadsOf(V, n, D)
  BY DEF LoadsOf, Behind

LEMMA LoadPassed ==
    ASSUME NEW U, NEW n, NEW D, NEW load \in LoadsOf(U, n, D)
    PROVE  /\ Passed(load) \in LoadsOf(U, n, D) /\ Passed(load) # NoLoad
           /\ Passed(load).pc = load.pc /\ Passed(load).filter = load.filter
           /\ Passed(load).of = load.of /\ Passed(load).before = load.before
           /\ Passed(load).passed /\ Passed(load).list = load.list
  BY DEF LoadsOf, NoLoad, Passed

LEMMA UnderWayTyped ==
    ASSUME NEW ls, NEW n, NEW D, Typed(ls, n, D)
    PROVE  \A k \in UnderWay(ls) : k \in Fetches /\ ls[k] \in LoadsOf(UnderWay(ls), n, D)
  BY DEF Typed, UnderWay

\* What is left of the loads.
LEMMA LeftShape ==
    ASSUME NEW ls, NEW n, NEW D, Typed(ls, n, D), NEW S
    PROVE  /\ UnderWay(Left(ls, S)) = UnderWay(ls) \cap S
           /\ \A k \in UnderWay(ls) \cap S :
                /\ Left(ls, S)[k].pc = ls[k].pc /\ Left(ls, S)[k].filter = ls[k].filter
                /\ Left(ls, S)[k].of = ls[k].of /\ Left(ls, S)[k].before = ls[k].before \cap S
                /\ Left(ls, S)[k].passed = ls[k].passed /\ Left(ls, S)[k].list = ls[k].list
           /\ Typed(Left(ls, S), n, D)
<1> DEFINE new == Left(ls, S)
<1>1. /\ \A k \in UnderWay(ls) \cap S : new[k] = Behind(ls[k], ls[k].before \cap S)
      /\ \A k \in Fetches \ (UnderWay(ls) \cap S) : new[k] = NoLoad
      /\ new = [k \in Fetches |-> new[k]]
  BY DEF Left, UnderWay, Behind
<1> HIDE DEF new
<1>2. \A k \in UnderWay(ls) \cap S :
        /\ k \in Fetches /\ new[k] # NoLoad
        /\ new[k].pc = ls[k].pc /\ new[k].filter = ls[k].filter /\ new[k].of = ls[k].of
        /\ new[k].before = ls[k].before \cap S
        /\ new[k].passed = ls[k].passed /\ new[k].list = ls[k].list
  <2> SUFFICES ASSUME NEW k \in UnderWay(ls) \cap S
               PROVE  /\ k \in Fetches /\ new[k] # NoLoad
                      /\ new[k].pc = ls[k].pc /\ new[k].filter = ls[k].filter /\ new[k].of = ls[k].of
                      /\ new[k].before = ls[k].before \cap S
                      /\ new[k].passed = ls[k].passed /\ new[k].list = ls[k].list
    OBVIOUS
  <2>1. k \in Fetches /\ ls[k] \in LoadsOf(UnderWay(ls), n, D)
    BY UnderWayTyped
  <2>2. new[k] = Behind(ls[k], ls[k].before \cap S)
    BY <1>1
  <2>3. QED  BY <2>1, <2>2, LoadBehind
<1>3. UnderWay(new) = UnderWay(ls) \cap S
  BY <1>1, <1>2 DEF UnderWay
<1>4. ASSUME NEW k \in UnderWay(ls) \cap S PROVE new[k] \in LoadsOf(UnderWay(new), n, D)
  <2>1. ls[k] \in LoadsOf(UnderWay(ls), n, D) /\ ls[k].before \subseteq UnderWay(ls)
    BY UnderWayTyped, LoadFields
  <2>2. (ls[k].before \cap S) \in SUBSET UnderWay(new)
    BY <1>3, <2>1
  <2>3. Behind(ls[k], ls[k].before \cap S) \in LoadsOf(UnderWay(new), n, D)
    BY <2>1, <2>2, LoadBehindTyped
  <2>4. QED  BY <1>1, <2>3
<1>5. Typed(new, n, D)
  <2>1. \A k \in Fetches : new[k] \in {NoLoad} \cup LoadsOf(UnderWay(new), n, D)
    BY <1>1, <1>4
  <2>2. QED  BY <1>1, <2>1 DEF Typed
<1>6. QED  BY <1>2, <1>3, <1>5 DEF new

LEMMA LeftWellFormed ==
    ASSUME NEW ls, NEW n, NEW D, NEW o, WellFormed(ls, n, D, o), NEW S
    PROVE  WellFormed(Left(ls, S), n, D, o)
<1> DEFINE new == Left(ls, S)
<1>1. Typed(ls, n, D) /\ Ordered(ls) /\ OneEach(ls) /\ Answered(ls, o)
  BY DEF WellFormed
<1>2. /\ UnderWay(new) = UnderWay(ls) \cap S
      /\ \A k \in UnderWay(ls) \cap S :
           /\ new[k].pc = ls[k].pc /\ new[k].filter = ls[k].filter /\ new[k].of = ls[k].of
           /\ new[k].before = ls[k].before \cap S /\ new[k].passed = ls[k].passed
           /\ new[k].list = ls[k].list
      /\ Typed(new, n, D)
  BY <1>1, LeftShape
<1> HIDE DEF new
<1>3. Ordered(new)
  BY <1>1, <1>2 DEF Ordered
<1>4. OneEach(new)
  BY <1>1, <1>2 DEF OneEach
<1>5. Answered(new, o)
  BY <1>1, <1>2 DEF Answered
<1>6. QED  BY <1>2, <1>3, <1>4, <1>5 DEF WellFormed, new

\* One more load.
LEMMA BegunShape ==
    ASSUME NEW ls, NEW n \in Nat, NEW D, Typed(ls, n, D), HasRoom(ls),
           NEW filter \in Filters, NEW of \in {{}} \cup {{m} : m \in Moves}
    PROVE  \E k \in Fetches \ UnderWay(ls) :
             /\ UnderWay(Begun(ls, filter, of)) = UnderWay(ls) \cup {k}
             /\ \A j \in UnderWay(ls) : Begun(ls, filter, of)[j] = ls[j]
             /\ Begun(ls, filter, of)[k].pc = "asked" /\ Begun(ls, filter, of)[k].filter = filter
             /\ Begun(ls, filter, of)[k].of = of /\ Begun(ls, filter, of)[k].before = UnderWay(ls)
             /\ ~Begun(ls, filter, of)[k].passed
             /\ Typed(Begun(ls, filter, of), n, D)
<1> DEFINE k == Free(ls)
           load == [pc |-> "asked", filter |-> filter, of |-> of, before |-> UnderWay(ls),
                    passed |-> FALSE, list |-> NoList]
           new == Begun(ls, filter, of)
<1>1. k \in Fetches /\ ls[k] = NoLoad
  BY DEF HasRoom, Free
<1>2. NoList \in ListsOf(n, D)
  <2>1. [t \in {} |-> "TODO"] \in UNION {[S -> Statuses] : S \in SUBSET D}
    <3>1. [t \in {} |-> "TODO"] \in [{} -> Statuses]
      OBVIOUS
    <3>2. QED  BY <3>1
  <2>2. QED  BY <2>1 DEF NoList, ListsOf
<1>3. load \in LoadsOf(UnderWay(ls) \cup {k}, n, D)
  BY <1>2 DEF LoadsOf
<1>4. /\ load.pc = "asked" /\ load.filter = filter /\ load.of = of
      /\ load.before = UnderWay(ls) /\ ~load.passed
  OBVIOUS
<1>5. new = [ls EXCEPT ![k] = load]
  BY DEF Begun
<1>6. k \notin UnderWay(ls)
  BY <1>1 DEF UnderWay
<1> HIDE DEF load, k, new
<1>7. /\ ls \in [Fetches -> {NoLoad} \cup LoadsOf(UnderWay(ls), n, D)]
      /\ new \in [Fetches -> {NoLoad, load} \cup LoadsOf(UnderWay(ls), n, D)]
      /\ new[k] = load /\ \A j \in Fetches : j # k => new[j] = ls[j]
  BY <1>1, <1>5 DEF Typed
<1>8. load # NoLoad
  BY <1>3, LoadFields
<1>9. UnderWay(new) = UnderWay(ls) \cup {k} /\ \A j \in UnderWay(ls) : new[j] = ls[j]
  BY <1>1, <1>6, <1>7, <1>8 DEF UnderWay
<1>10. LoadsOf(UnderWay(ls), n, D) \subseteq LoadsOf(UnderWay(new), n, D)
  BY <1>9 DEF LoadsOf
<1>11. Typed(new, n, D)
  BY <1>3, <1>7, <1>9, <1>10 DEF Typed
<1>12. QED  BY <1>1, <1>4, <1>6, <1>7, <1>9, <1>11 DEF new

LEMMA BegunWellFormed ==
    ASSUME NEW ls, NEW n \in Nat, NEW D, NEW o, WellFormed(ls, n, D, o), HasRoom(ls),
           NEW filter \in Filters, NEW of \in {{}} \cup {{m} : m \in Moves},
           \A k \in UnderWay(ls) : of # {} => ls[k].of # of
    PROVE  WellFormed(Begun(ls, filter, of), n, D, o)
<1> DEFINE new == Begun(ls, filter, of)
<1>1. Typed(ls, n, D) /\ Ordered(ls) /\ OneEach(ls) /\ Answered(ls, o)
  BY DEF WellFormed
<1>2. PICK k \in Fetches \ UnderWay(ls) :
        /\ UnderWay(new) = UnderWay(ls) \cup {k}
        /\ \A j \in UnderWay(ls) : new[j] = ls[j]
        /\ new[k].pc = "asked" /\ new[k].filter = filter
        /\ new[k].of = of /\ new[k].before = UnderWay(ls)
        /\ ~new[k].passed
        /\ Typed(new, n, D)
  BY <1>1, BegunShape
<1> HIDE DEF new
<1>3. \A j \in UnderWay(ls) : ls[j].before \subseteq UnderWay(ls)
  BY <1>1, UnderWayTyped, LoadFields
<1>4. Ordered(new)
  BY <1>1, <1>2, <1>3 DEF Ordered
<1>5. OneEach(new)
  BY <1>1, <1>2 DEF OneEach
<1>6. Answered(new, o)
  BY <1>1, <1>2 DEF Answered
<1>7. QED  BY <1>2, <1>4, <1>5, <1>6 DEF WellFormed, new

\* Those of B are overtaken.
PassedBy(ls, B) == [k \in Fetches |-> IF k \in B THEN Passed(ls[k]) ELSE ls[k]]

LEMMA PassedShape ==
    ASSUME NEW ls, NEW n, NEW D, Typed(ls, n, D), NEW B \in SUBSET UnderWay(ls)
    PROVE  /\ UnderWay(PassedBy(ls, B)) = UnderWay(ls)
           /\ \A k \in UnderWay(ls) :
                /\ PassedBy(ls, B)[k].pc = ls[k].pc /\ PassedBy(ls, B)[k].filter = ls[k].filter
                /\ PassedBy(ls, B)[k].of = ls[k].of /\ PassedBy(ls, B)[k].before = ls[k].before
                /\ PassedBy(ls, B)[k].list = ls[k].list
                /\ k \in B => PassedBy(ls, B)[k].passed
                /\ k \notin B => PassedBy(ls, B)[k].passed = ls[k].passed
           /\ Typed(PassedBy(ls, B), n, D)
<1> DEFINE new == PassedBy(ls, B)
<1>1. /\ \A k \in B : k \in Fetches /\ new[k] = Passed(ls[k])
      /\ \A k \in Fetches \ B : new[k] = ls[k]
      /\ new = [k \in Fetches |-> new[k]]
  BY DEF PassedBy, UnderWay
<1> HIDE DEF new
<1>2. \A k \in B : /\ new[k] \in LoadsOf(UnderWay(ls), n, D) /\ new[k] # NoLoad
                   /\ new[k].pc = ls[k].pc /\ new[k].filter = ls[k].filter
                   /\ new[k].of = ls[k].of /\ new[k].before = ls[k].before
                   /\ new[k].passed /\ new[k].list = ls[k].list
  <2> SUFFICES ASSUME NEW k \in B
               PROVE  /\ new[k] \in LoadsOf(UnderWay(ls), n, D) /\ new[k] # NoLoad
                      /\ new[k].pc = ls[k].pc /\ new[k].filter = ls[k].filter
                      /\ new[k].of = ls[k].of /\ new[k].before = ls[k].before
                      /\ new[k].passed /\ new[k].list = ls[k].list
    OBVIOUS
  <2>1. ls[k] \in LoadsOf(UnderWay(ls), n, D) /\ new[k] = Passed(ls[k])
    BY <1>1, UnderWayTyped
  <2>2. QED  BY <2>1, LoadPassed
<1>3. UnderWay(new) = UnderWay(ls)
  <2>1. \A k \in Fetches : new[k] = NoLoad <=> ls[k] = NoLoad
    BY <1>1, <1>2 DEF UnderWay
  <2>2. QED  BY <2>1 DEF UnderWay
<1>4. Typed(new, n, D)
  <2>1. \A k \in Fetches : new[k] \in {NoLoad} \cup LoadsOf(UnderWay(ls), n, D)
    BY <1>1, <1>2 DEF Typed
  <2>2. QED  BY <1>1, <1>3, <2>1 DEF Typed
<1>5. \A k \in UnderWay(ls) : k \in Fetches
  BY DEF UnderWay
<1>6. QED  BY <1>1, <1>2, <1>3, <1>4, <1>5 DEF new

LEMMA PassedWellFormed ==
    ASSUME NEW ls, NEW n, NEW D, NEW o, WellFormed(ls, n, D, o), NEW B \in SUBSET UnderWay(ls)
    PROVE  WellFormed(PassedBy(ls, B), n, D, o)
<1> DEFINE new == PassedBy(ls, B)
<1>1. Typed(ls, n, D) /\ Ordered(ls) /\ OneEach(ls) /\ Answered(ls, o)
  BY DEF WellFormed
<1>2. /\ UnderWay(new) = UnderWay(ls) /\ Typed(new, n, D)
      /\ \A k \in UnderWay(ls) :
           /\ new[k].pc = ls[k].pc /\ new[k].filter = ls[k].filter /\ new[k].of = ls[k].of
           /\ new[k].before = ls[k].before /\ new[k].list = ls[k].list
  BY <1>1, PassedShape
<1> HIDE DEF new
<1>3. Ordered(new)
  BY <1>1, <1>2 DEF Ordered
<1>4. OneEach(new)
  BY <1>1, <1>2 DEF OneEach
<1>5. Answered(new, o)
  BY <1>1, <1>2 DEF Answered
<1>6. QED  BY <1>2, <1>3, <1>4, <1>5 DEF WellFormed, new

\* The answer to load i.
Served(ls, i, l) == [ls EXCEPT ![i].pc = "answered", ![i].list = l]

LEMMA ServedShape ==
    ASSUME NEW ls, NEW n, NEW D, NEW o, WellFormed(ls, n, D, o), NEW i \in UnderWay(ls),
           NEW l \in ListsOf(n, D), l.filter = ls[i].filter, Fits(l), ls[i].of = {} => l.at >= o
    PROVE  /\ UnderWay(Served(ls, i, l)) = UnderWay(ls) /\ WellFormed(Served(ls, i, l), n, D, o)
           /\ \A k \in UnderWay(ls) :
                /\ Served(ls, i, l)[k].filter = ls[k].filter /\ Served(ls, i, l)[k].of = ls[k].of
                /\ Served(ls, i, l)[k].before = ls[k].before
                /\ Served(ls, i, l)[k].passed = ls[k].passed
<1> DEFINE new == Served(ls, i, l)
<1>1. Typed(ls, n, D) /\ Ordered(ls) /\ OneEach(ls) /\ Answered(ls, o)
  BY DEF WellFormed
<1>2. i \in Fetches /\ ls[i] \in LoadsOf(UnderWay(ls), n, D) /\ ls = [k \in Fetches |-> ls[k]]
  BY <1>1, UnderWayTyped DEF Typed
<1> DEFINE load == [ls[i] EXCEPT !.pc = "answered", !.list = l]
<1>3. /\ load \in LoadsOf(UnderWay(ls), n, D)
      /\ load.pc = "answered" /\ load.list = l /\ load.filter = ls[i].filter
      /\ load.of = ls[i].of /\ load.before = ls[i].before /\ load.passed = ls[i].passed
  BY <1>2 DEF LoadsOf
<1>4. new = [ls EXCEPT ![i] = load]
  BY <1>2 DEF Served
<1> HIDE DEF load, new
<1>5. /\ new = [k \in Fetches |-> new[k]] /\ new[i] = load
      /\ \A k \in Fetches : k # i => new[k] = ls[k]
  BY <1>2, <1>4
<1>6. load # NoLoad
  BY <1>3, LoadFields
<1>7. UnderWay(new) = UnderWay(ls)
  BY <1>2, <1>5, <1>6 DEF UnderWay
<1>8. \A k \in UnderWay(ls) : /\ new[k].filter = ls[k].filter /\ new[k].of = ls[k].of
                              /\ new[k].before = ls[k].before /\ new[k].passed = ls[k].passed
  BY <1>3, <1>5 DEF UnderWay
<1>9. Typed(new, n, D)
  <2>1. \A k \in Fetches : new[k] \in {NoLoad} \cup LoadsOf(UnderWay(ls), n, D)
    BY <1>1, <1>3, <1>5 DEF Typed
  <2>2. QED  BY <1>5, <1>7, <2>1 DEF Typed
<1>10. Ordered(new)
  BY <1>1, <1>7, <1>8 DEF Ordered
<1>11. OneEach(new)
  <2>1. \A k \in UnderWay(ls) : new[k].of = ls[k].of
    BY <1>8
  <2>2. \A j, k \in UnderWay(ls) : ls[j].of = ls[k].of /\ ls[j].of # {} => j = k
    BY <1>1 DEF OneEach
  <2>3. \A j, k \in UnderWay(new) : new[j].of = new[k].of /\ new[j].of # {} => j = k
    BY <1>7, <2>1, <2>2
  <2>4. QED  BY <2>3 DEF OneEach
<1>12. Answered(new, o)
  <2>1. \A k \in UnderWay(ls) : k # i => new[k] = ls[k]
    BY <1>5 DEF UnderWay
  <2>2. /\ new[i].list.filter = new[i].filter /\ Fits(new[i].list)
        /\ new[i].of = {} => new[i].list.at >= o
    BY <1>3, <1>5
  <2>3. \A k \in UnderWay(ls) : k # i /\ new[k].pc = "answered" =>
          /\ new[k].list.filter = new[k].filter /\ Fits(new[k].list)
          /\ new[k].of = {} => new[k].list.at >= o
    <3>1. \A k \in UnderWay(ls) : ls[k].pc = "answered" =>
            /\ ls[k].list.filter = ls[k].filter /\ Fits(ls[k].list)
            /\ ls[k].of = {} => ls[k].list.at >= o
      BY <1>1 DEF Answered
    <3>2. QED  BY <2>1, <3>1
  <2>4. QED  BY <1>7, <2>2, <2>3 DEF Answered
<1>13. QED  BY <1>7, <1>8, <1>9, <1>10, <1>11, <1>12 DEF WellFormed, new

LEMMA ListsGrow ==
    ASSUME NEW n \in Nat, NEW m \in Nat, n <= m, NEW D, NEW E, D \subseteq E
    PROVE  ListsOf(n, D) \subseteq ListsOf(m, E)
<1>1. 0..n \subseteq 0..m
  OBVIOUS
<1>2. UNION {[S -> Statuses] : S \in SUBSET D} \subseteq UNION {[S -> Statuses] : S \in SUBSET E}
  OBVIOUS
<1>3. QED  BY <1>1, <1>2 DEF ListsOf

LEMMA GrownWellFormed ==
    ASSUME NEW ls, NEW o, NEW n \in Nat, NEW m \in Nat, n <= m, NEW D, NEW E, D \subseteq E,
           WellFormed(ls, n, D, o)
    PROVE  WellFormed(ls, m, E, o)
<1>1. LoadsOf(UnderWay(ls), n, D) \subseteq LoadsOf(UnderWay(ls), m, E)
  BY ListsGrow DEF LoadsOf
<1>2. Typed(ls, m, E)
  BY <1>1 DEF WellFormed, Typed
<1>3. QED  BY <1>2 DEF WellFormed
-------------------------------------------------------------------------------
\* The invariant.
Tables == DOMAIN status \subseteq Tasks /\ status \in [DOMAIN status -> Statuses] /\ clock \in 0..MaxClock

Flags == url \in Filters /\ loading \in BOOLEAN /\ missed \in BOOLEAN

Shown == list \in ListsOf(clock, DOMAIN status) /\ Fits(list) /\ (list # NoList => list.at >= own)

LoadsInv == WellFormed(loads, clock, DOMAIN status, own)

MoveRows == {NoMove} \cup Sent \cup Checked \cup Refused \cup Committed

\* A move under way is one that a button of the status it was listed with offered, and
\* is refused only if the task was found with another one.
Offered(q) == q.pc = "sent" => q.to \in NEXT_STATUS[q.listed]
Stale(q) == q.pc = "refused" => q.found # q.listed

MovesInv == moves \in [Moves -> MoveRows] /\ \A m \in Moves : Offered(moves[m]) /\ Stale(moves[m])

WaitsInv == \A m \in Moves : moves[m].pc = "loading" <=> Waits(loads, m)

Times == own \in 0..clock /\ posts \in [Posts -> 0..clock]

\* Load k will show what the URL names: it is of the list itself, none begun later has
\* been answered, and every other one of the list was begun before it.
OnItsWay(k) ==
    /\ loads[k].of = {} /\ ~loads[k].passed /\ loads[k].filter = url
    /\ \A j \in UnderWay(loads) : loads[j].of = {} /\ j # k => j \in loads[k].before

\* It is shown, and loading only while a move's load is to replace the list.
UrlIsShown ==
    /\ list.filter = url
    /\ loading => \E i \in UnderWay(loads) : loads[i].of # {} /\ Mine(loads[i])
    /\ \A i \in UnderWay(loads) : loads[i].of = {} => loads[i].passed

UrlInv == ~missed => UrlIsShown \/ \E k \in UnderWay(loads) : OnItsWay(k)

ListInv ==
    Tables /\ Flags /\ Shown /\ LoadsInv /\ MovesInv /\ WaitsInv /\ Times /\ UrlInv

LEMMA ListInvTypes == ListInv => TypeOK
<1> SUFFICES ASSUME ListInv PROVE TypeOK
  OBVIOUS
<1>1. Lists = ListsOf(clock, DOMAIN status) /\ Loads = LoadsOf(UnderWay(loads), clock, DOMAIN status)
  BY DEF Lists, ListsOf, Loads, LoadsOf
<1>2. loads \in [Fetches -> {NoLoad} \cup Loads]
  BY <1>1 DEF ListInv, LoadsInv, WellFormed, Typed
<1>3. list \in Lists /\ Fits(list)
  BY <1>1 DEF ListInv, Shown
<1>4. moves \in [Moves -> {NoMove} \cup Sent \cup Checked \cup Refused \cup Committed]
  BY DEF ListInv, MovesInv, MoveRows
<1>5. QED
  BY <1>2, <1>3, <1>4 DEF TypeOK, ListInv, Tables, Flags, WaitsInv, Waits, Times

LEMMA MovesGrow ==
    ASSUME DOMAIN status \subseteq DOMAIN status', clock \in Nat, clock' \in Nat, clock <= clock'
    PROVE  MoveRows \subseteq MoveRows'
<1>1. Sent \subseteq Sent'
  BY DEF Sent
<1>2. Checked \subseteq Checked'
  BY DEF Checked
<1>3. Committed \subseteq Committed'
  BY DEF Committed
<1>4. Refused' = Refused
  BY DEF Refused
<1>5. QED  BY <1>1, <1>2, <1>3, <1>4 DEF MoveRows

\* Steps of the server and of users that leave the loads and the list alone.
LEMMA Beside ==
    ASSUME ListInv, Tables', DOMAIN status \subseteq DOMAIN status', clock <= clock',
           UNCHANGED <<url, listVars>>, posts' \in [Posts -> 0..clock'],
           moves' = [m \in Moves |-> moves'[m]],
           \A m \in Moves : \/ moves'[m] = moves[m]
                            \/ /\ moves[m].pc # "loading" /\ moves'[m].pc # "loading"
                               /\ moves'[m] \in MoveRows' /\ Offered(moves'[m]) /\ Stale(moves'[m])
    PROVE  ListInv'
<1>1. clock \in Nat /\ clock' \in Nat
  BY DEF ListInv, Tables
<1>2. loads' = loads /\ list' = list /\ url' = url /\ own' = own
  BY DEF listVars
<1>3. Flags' /\ Times'
  BY <1>1 DEF ListInv, Flags, Times, listVars
<1>4. Shown'
  <2>1. ListsOf(clock, DOMAIN status) \subseteq ListsOf(clock', DOMAIN status')
    BY <1>1, ListsGrow
  <2>2. QED  BY <1>2, <2>1 DEF ListInv, Shown
<1>5. LoadsInv'
  <2>1. WellFormed(loads, clock', DOMAIN status', own)
    BY <1>1, GrownWellFormed DEF ListInv, LoadsInv
  <2>2. QED  BY <1>2, <2>1 DEF LoadsInv
<1>6. MovesInv'
  <2>1. MoveRows \subseteq MoveRows'
    BY <1>1, MovesGrow
  <2>2. \A m \in Moves : moves'[m] \in MoveRows' /\ Offered(moves'[m]) /\ Stale(moves'[m])
    BY <2>1 DEF ListInv, MovesInv
  <2>3. QED  BY <2>2 DEF MovesInv
<1>7. WaitsInv'
  BY <1>2 DEF ListInv, WaitsInv
<1>8. UrlInv'
  <2>1. \A m \in Moves : Waits(loads, m) => moves'[m] = moves[m]
    BY DEF ListInv, WaitsInv
  <2>2. \A i \in UnderWay(loads) : Mine(loads[i]) => Mine(loads[i])'
    <3> SUFFICES ASSUME NEW i \in UnderWay(loads), Mine(loads[i]) PROVE Mine(loads[i])'
      OBVIOUS
    <3>1. loads[i].of \in {{}} \cup {{m} : m \in Moves}
      BY UnderWayTyped, LoadFields DEF ListInv, LoadsInv, WellFormed
    <3>2. \A m \in loads[i].of : m \in Moves /\ loads[i].of = {m}
      BY <3>1
    <3>3. \A m \in loads[i].of : moves'[m] = moves[m]
      BY <2>1, <3>2 DEF Waits
    <3>4. QED  BY <1>2, <3>3 DEF Mine
  <2>3. (\E k \in UnderWay(loads) : OnItsWay(k)) => \E k \in UnderWay(loads') : OnItsWay(k)'
    BY <1>2 DEF OnItsWay
  <2>4. UrlIsShown => UrlIsShown'
    BY <1>2, <2>2 DEF UrlIsShown, listVars
  <2>5. QED  BY <2>3, <2>4 DEF ListInv, UrlInv, listVars
<1>9. QED  BY <1>3, <1>4, <1>5, <1>6, <1>7, <1>8 DEF ListInv

LEMMA WriteShape ==
    ASSUME Tables, NEW t \in Tasks, NEW st \in Statuses, Write(t, st)
    PROVE  /\ Tables' /\ DOMAIN status \subseteq DOMAIN status' /\ clock' = clock + 1
           /\ clock \in Nat /\ clock' \in Nat
  BY TaskListAssumption DEF Tables, Write

LEMMA MoveKinds ==
    ASSUME NEW q \in MoveRows
    PROVE  /\ q.pc \in {"idle", "sent", "checked", "refused", "moved", "loading"}
           /\ q.pc = "idle" => q = NoMove
           /\ q.pc = "sent" => q \in Sent
           /\ q.pc = "checked" => q \in Checked
           /\ q.pc = "refused" => q \in Refused
           /\ q.pc \in {"moved", "loading"} => q \in Committed
  BY DEF MoveRows, NoMove, Sent, Checked, Refused, Committed

\* The page's table of moves is the server's.
LEMMA ButtonsAreLegal ==
    \A a \in Statuses : NEXT_STATUS[a] \subseteq Statuses /\ \A b \in NEXT_STATUS[a] : <<a, b>> \in VALID_TRANSITIONS
  BY DEF Statuses, NEXT_STATUS, VALID_TRANSITIONS

LEMMA OthersKeep ==
    ASSUME ListInv,
           \/ \E t \in Tasks, st \in Statuses : OtherMoves(t, st)
           \/ \E t \in Tasks : OtherCreates(t)
           \/ \E q \in Posts, t \in Tasks : SubmitForm(q, t)
           \/ \E q \in Posts : FormFails(q)
    PROVE  ListInv'
<1>1. ASSUME NEW t \in Tasks, NEW st \in Statuses, OtherMoves(t, st) PROVE ListInv'
  <2>1. Tables' /\ DOMAIN status \subseteq DOMAIN status' /\ clock' = clock + 1 /\ clock \in Nat
    BY <1>1, WriteShape DEF OtherMoves, ListInv
  <2>2. posts' \in [Posts -> 0..clock'] /\ moves' = moves
    BY <1>1, <2>1 DEF OtherMoves, ListInv, Times
  <2>3. QED  BY <1>1, <2>1, <2>2, Beside DEF OtherMoves, ListInv, MovesInv
<1>2. ASSUME NEW t \in Tasks, OtherCreates(t) PROVE ListInv'
  <2>1. Tables' /\ DOMAIN status \subseteq DOMAIN status' /\ clock' = clock + 1 /\ clock \in Nat
    BY <1>2, WriteShape DEF OtherCreates, ListInv, Statuses
  <2>2. posts' \in [Posts -> 0..clock'] /\ moves' = moves
    BY <1>2, <2>1 DEF OtherCreates, ListInv, Times
  <2>3. QED  BY <1>2, <2>1, <2>2, Beside DEF OtherCreates, ListInv, MovesInv
<1>3. ASSUME NEW q \in Posts, NEW t \in Tasks, SubmitForm(q, t) PROVE ListInv'
  <2>1. /\ Tables' /\ DOMAIN status \subseteq DOMAIN status' /\ clock' = clock + 1
        /\ clock \in Nat /\ clock' \in Nat
    BY <1>3, WriteShape DEF SubmitForm, ListInv, Statuses
  <2>2. posts' \in [Posts -> 0..clock'] /\ moves' = moves
    BY <1>3, <2>1 DEF SubmitForm, ListInv, Times
  <2>3. QED  BY <1>3, <2>1, <2>2, Beside DEF SubmitForm, ListInv, MovesInv
<1>4. ASSUME NEW q \in Posts, FormFails(q) PROVE ListInv'
  <2>1. Tables' /\ status' = status /\ clock' = clock /\ clock \in Nat
    BY <1>4 DEF FormFails, ListInv, Tables, dbVars
  <2>2. posts' \in [Posts -> 0..clock'] /\ moves' = moves
    BY <1>4, <2>1 DEF FormFails, ListInv, Times
  <2>3. QED  BY <1>4, <2>1, <2>2, Beside DEF FormFails, ListInv, MovesInv
<1>5. QED  BY <1>1, <1>2, <1>3, <1>4

\* Moves at the server and in the page, until their load.
LEMMA MovesKeep ==
    ASSUME ListInv, NEW m \in Moves,
           \/ \E t \in Tasks, st \in Statuses : ClickMove(m, t, st)
           \/ ServeCheck(m) \/ ServeMove(m) \/ MoveRejected(m)
    PROVE  ListInv'
<1> DEFINE q == moves[m]
<1>1. /\ q \in MoveRows /\ Offered(q) /\ Stale(q) /\ clock \in Nat
      /\ moves = [x \in Moves |-> moves[x]] /\ posts \in [Posts -> 0..clock]
  BY DEF ListInv, MovesInv, Tables, Times
<1>2. ASSUME NEW new, moves' = [moves EXCEPT ![m] = new], q.pc # "loading", new.pc # "loading",
             new \in MoveRows', Offered(new), Stale(new),
             Tables', DOMAIN status \subseteq DOMAIN status', clock <= clock', clock' \in Nat,
             UNCHANGED <<url, listVars, posts>>
      PROVE  ListInv'
  <2>1. moves'[m] = new /\ \A x \in Moves : x # m => moves'[x] = moves[x]
    BY <1>1, <1>2
  <2>2. moves' = [x \in Moves |-> moves'[x]]
    BY <1>1, <1>2
  <2>3. posts' \in [Posts -> 0..clock']
    BY <1>1, <1>2
  <2>4. QED  BY <1>2, <2>1, <2>2, <2>3, Beside
<1>3. ASSUME NEW t \in Tasks, NEW st \in Statuses, ClickMove(m, t, st) PROVE ListInv'
  <2> DEFINE new == [pc |-> "sent", task |-> t, to |-> st, listed |-> list.rows[t],
                     filter |-> url, mine |-> TRUE]
  <2>1. t \in DOMAIN status /\ list.rows[t] \in Statuses
    <3>1. PICK S \in SUBSET DOMAIN status : list.rows \in [S -> Statuses]
      BY DEF ListInv, Shown, ListsOf
    <3>2. QED  BY <1>3, <3>1 DEF ClickMove
  <2>2. new \in Sent /\ url \in Filters
    BY <2>1 DEF Sent, ListInv, Flags
  <2>3. /\ st \in NEXT_STATUS[list.rows[t]] /\ q = NoMove /\ moves' = [moves EXCEPT ![m] = new]
        /\ UNCHANGED <<dbVars, url, listVars, posts>>
    BY <1>3 DEF ClickMove
  <2>4. new.pc = "sent" /\ new.to = st /\ new.listed = list.rows[t]
    OBVIOUS
  <2> HIDE DEF new
  <2>5. Offered(new) /\ Stale(new)
    BY <2>3, <2>4 DEF Offered, Stale
  <2>6. Sent' = Sent /\ new \in MoveRows'
    BY <2>2, <2>3 DEF Sent, MoveRows, dbVars
  <2>7. Tables' /\ status' = status /\ clock' = clock
    BY <2>3 DEF dbVars, ListInv, Tables
  <2>8. QED  BY <1>1, <1>2, <2>3, <2>4, <2>5, <2>6, <2>7 DEF NoMove
<1>4. CASE ServeCheck(m)
  <2>1. /\ q.pc = "sent" /\ q \in Sent /\ q.to \in NEXT_STATUS[q.listed]
        /\ UNCHANGED <<dbVars, url, listVars, posts>>
    BY <1>1, <1>4, MoveKinds DEF ServeCheck, Offered
  <2>2. /\ q.task \in DOMAIN status /\ q.to \in Statuses /\ q.listed \in Statuses
        /\ q.filter \in Filters /\ q.mine \in BOOLEAN /\ status[q.task] \in Statuses
    BY <2>1 DEF Sent, ListInv, Tables
  <2>3. Tables' /\ status' = status /\ clock' = clock
    BY <2>1 DEF dbVars, ListInv, Tables
  <2>4. Checked' = Checked /\ Refused' = Refused
    BY <2>3 DEF Checked, Refused
  <2>5. CASE <<status[q.task], q.to>> \in VALID_TRANSITIONS
    <3> DEFINE new == [pc |-> "checked", task |-> q.task, to |-> q.to, filter |-> q.filter, mine |-> q.mine]
    <3>1. new \in Checked /\ new.pc = "checked"
      BY <2>2 DEF Checked
    <3>2. moves' = [moves EXCEPT ![m] = new]
      BY <1>4, <2>5 DEF ServeCheck
    <3> HIDE DEF new
    <3>3. Offered(new) /\ Stale(new) /\ new \in MoveRows'
      BY <2>4, <3>1 DEF Offered, Stale, MoveRows
    <3>4. QED  BY <1>1, <1>2, <2>1, <2>3, <3>1, <3>2, <3>3
  <2>6. CASE <<status[q.task], q.to>> \notin VALID_TRANSITIONS
    <3> DEFINE new == [pc |-> "refused", listed |-> q.listed, found |-> status[q.task], mine |-> q.mine]
    <3>1. new \in Refused /\ new.pc = "refused" /\ new.found = status[q.task] /\ new.listed = q.listed
      BY <2>2 DEF Refused
    <3>2. moves' = [moves EXCEPT ![m] = new]
      BY <1>4, <2>6 DEF ServeCheck
    <3>3. status[q.task] # q.listed
      BY <2>1, <2>2, <2>6, ButtonsAreLegal
    <3> HIDE DEF new
    <3>4. Offered(new) /\ Stale(new) /\ new \in MoveRows'
      BY <2>4, <3>1, <3>3 DEF Offered, Stale, MoveRows
    <3>5. QED  BY <1>1, <1>2, <2>1, <2>3, <3>1, <3>2, <3>4
  <2>7. QED  BY <2>5, <2>6
<1>5. CASE ServeMove(m)
  <2>1. q.pc = "checked" /\ q \in Checked
    BY <1>1, <1>5, MoveKinds DEF ServeMove
  <2>2. /\ q.task \in Tasks /\ q.to \in Statuses /\ q.filter \in Filters /\ q.mine \in BOOLEAN
    BY <2>1 DEF Checked, ListInv, Tables
  <2>3. /\ Tables' /\ DOMAIN status \subseteq DOMAIN status' /\ clock' = clock + 1 /\ clock' \in Nat
        /\ UNCHANGED <<url, listVars, posts>>
    BY <1>5, <2>2, WriteShape DEF ServeMove, ListInv
  <2> DEFINE new == [pc |-> "moved", at |-> clock', filter |-> q.filter, mine |-> q.mine]
  <2>4. moves' = [moves EXCEPT ![m] = new]
    BY <1>5 DEF ServeMove
  <2>5. new \in Committed' /\ new.pc = "moved"
    BY <2>2, <2>3 DEF Committed
  <2> HIDE DEF new
  <2>6. Offered(new) /\ Stale(new) /\ new \in MoveRows'
    BY <2>5 DEF Offered, Stale, MoveRows
  <2>7. QED  BY <1>1, <1>2, <2>1, <2>3, <2>4, <2>5, <2>6
<1>6. CASE MoveRejected(m)
  <2>1. /\ q.pc # "loading" /\ moves' = [moves EXCEPT ![m] = NoMove]
        /\ UNCHANGED <<dbVars, url, listVars, posts>>
    BY <1>6 DEF MoveRejected
  <2>2. Tables' /\ status' = status /\ clock' = clock
    BY <2>1 DEF dbVars, ListInv, Tables
  <2>3. NoMove.pc = "idle" /\ Offered(NoMove) /\ Stale(NoMove) /\ NoMove \in MoveRows'
    BY DEF NoMove, Offered, Stale, MoveRows
  <2>4. QED  BY <1>1, <1>2, <2>1, <2>2, <2>3
<1>7. QED  BY <1>3, <1>4, <1>5, <1>6
-------------------------------------------------------------------------------
\* The loads.
LEMMA LoadFacts ==
    ASSUME ListInv
    PROVE  /\ clock \in Nat /\ own \in 0..clock
           /\ Typed(loads, clock, DOMAIN status) /\ Ordered(loads) /\ OneEach(loads)
           /\ Answered(loads, own)
           /\ \A k \in UnderWay(loads) :
                /\ k \in Fetches /\ loads[k] \in LoadsOf(UnderWay(loads), clock, DOMAIN status)
                /\ loads[k].of \in {{}} \cup {{m} : m \in Moves}
                /\ loads[k].before \subseteq UnderWay(loads)
                /\ loads[k].list \in ListsOf(clock, DOMAIN status) /\ loads[k].filter \in Filters
           /\ \A k \in Fetches : loads[k].pc \in {"asked", "answered"} => k \in UnderWay(loads)
<1>1. /\ Typed(loads, clock, DOMAIN status) /\ Ordered(loads) /\ OneEach(loads)
      /\ Answered(loads, own)
  BY DEF ListInv, LoadsInv, WellFormed
<1>2. clock \in Nat /\ own \in 0..clock
  BY DEF ListInv, Tables, Times
<1>3. \A k \in Fetches : loads[k].pc \in {"asked", "answered"} => k \in UnderWay(loads)
  BY DEF UnderWay, NoLoad
<1>4. QED  BY <1>1, <1>2, <1>3, UnderWayTyped, LoadFields

\* Nothing changes of the tables and of what the page holds beside its loads.
LEMMA TablesKeep ==
    ASSUME ListInv, UNCHANGED dbVars
    PROVE  Tables' /\ clock' = clock /\ status' = status /\ MoveRows' = MoveRows
  BY DEF ListInv, Tables, dbVars, MoveRows, Sent, Checked, Refused, Committed

\* Whether a load is one of the list on the page.
LEMMA MineOf ==
    /\ \A load : load.of = {} => Mine(load)
    /\ \A load, m : load.of = {m} => (Mine(load) <=> moves[m].mine)
  BY DEF Mine

LEMMA ServeLoadKeeps ==
    ASSUME ListInv, NEW i \in Fetches, ServeLoad(i)
    PROVE  ListInv'
<1> DEFINE l == [filter |-> loads[i].filter, at |-> clock,
                 rows |-> [t \in Matching(loads[i].filter) |-> status[t]]]
<1>1. i \in UnderWay(loads) /\ loads[i].filter \in Filters /\ clock \in Nat /\ own \in 0..clock
  BY LoadFacts DEF ServeLoad
<1>2. loads' = Served(loads, i, l) /\ UNCHANGED <<dbVars, url, list, loading, own, missed, moves, posts>>
  BY DEF ServeLoad, Served
<1>3. /\ l \in ListsOf(clock, DOMAIN status) /\ l.filter = loads[i].filter /\ l.at = clock
      /\ Fits(l)
  <2>1. Matching(loads[i].filter) \subseteq DOMAIN status
    BY DEF Matching
  <2>2. l.rows \in [Matching(loads[i].filter) -> Statuses]
    BY <2>1 DEF ListInv, Tables
  <2>3. l.rows \in UNION {[S -> Statuses] : S \in SUBSET DOMAIN status}
    BY <2>1, <2>2
  <2>4. l \in ListsOf(clock, DOMAIN status)
    BY <1>1, <2>3 DEF ListsOf
  <2>5. Fits(l)
    BY DEF Fits, Matching
  <2>6. QED  BY <2>4, <2>5
<1> HIDE DEF l
<1>4. LoadsInv'
  <2>1. WellFormed(loads, clock, DOMAIN status, own) /\ l.at >= own
    BY <1>1, <1>3 DEF ListInv, LoadsInv
  <2>2. WellFormed(Served(loads, i, l), clock, DOMAIN status, own)
    BY <1>1, <1>3, <2>1, ServedShape
  <2>3. QED  BY <1>2, <2>2 DEF LoadsInv, dbVars
<1>5. /\ UnderWay(loads') = UnderWay(loads)
      /\ \A k \in UnderWay(loads) :
           /\ loads'[k].filter = loads[k].filter /\ loads'[k].of = loads[k].of
           /\ loads'[k].before = loads[k].before /\ loads'[k].passed = loads[k].passed
  <2>1. WellFormed(loads, clock, DOMAIN status, own) /\ l.at >= own
    BY <1>1, <1>3 DEF ListInv, LoadsInv
  <2>2. /\ UnderWay(Served(loads, i, l)) = UnderWay(loads)
        /\ \A k \in UnderWay(loads) :
             /\ Served(loads, i, l)[k].filter = loads[k].filter
             /\ Served(loads, i, l)[k].of = loads[k].of
             /\ Served(loads, i, l)[k].before = loads[k].before
             /\ Served(loads, i, l)[k].passed = loads[k].passed
    BY <1>1, <1>3, <2>1, ServedShape
  <2>3. QED  BY <1>2, <2>2
<1>6. Tables' /\ Flags' /\ Shown' /\ MovesInv' /\ Times'
  BY <1>2, TablesKeep DEF ListInv, Flags, Shown, MovesInv, Times, dbVars
<1>7. WaitsInv'
  BY <1>2, <1>5 DEF ListInv, WaitsInv, Waits
<1>8. UrlInv'
  <2>1. ASSUME NEW k \in UnderWay(loads), OnItsWay(k) PROVE OnItsWay(k)'
    BY <1>2, <1>5, <2>1 DEF OnItsWay
  <2>2. ASSUME UrlIsShown PROVE UrlIsShown'
    <3>1. \A k \in UnderWay(loads) : Mine(loads[k]) => Mine(loads[k])'
      BY <1>2, <1>5 DEF Mine
    <3>2. QED  BY <1>2, <1>5, <2>2, <3>1 DEF UrlIsShown
  <2>3. QED  BY <1>2, <1>5, <2>1, <2>2 DEF ListInv, UrlInv
<1>9. QED  BY <1>4, <1>6, <1>7, <1>8 DEF ListInv

\* A load for the list itself, with the filter of the URL, is one that will show it.
LEMMA BegunIsOnItsWay ==
    ASSUME NEW ls, NEW f \in Filters, Typed(ls, clock, DOMAIN status), clock \in Nat, HasRoom(ls),
           loads' = Begun(ls, f, {}), url' = f
    PROVE  (\E k \in UnderWay(loads) : OnItsWay(k))'
<1>1. PICK k \in Fetches \ UnderWay(ls) :
        /\ UnderWay(Begun(ls, f, {})) = UnderWay(ls) \cup {k}
        /\ \A j \in UnderWay(ls) : Begun(ls, f, {})[j] = ls[j]
        /\ Begun(ls, f, {})[k].pc = "asked" /\ Begun(ls, f, {})[k].filter = f
        /\ Begun(ls, f, {})[k].of = {} /\ Begun(ls, f, {})[k].before = UnderWay(ls)
        /\ ~Begun(ls, f, {})[k].passed
        /\ Typed(Begun(ls, f, {}), clock, DOMAIN status)
  BY BegunShape
<1>2. OnItsWay(k)' /\ k \in UnderWay(loads')
  BY <1>1 DEF OnItsWay
<1>3. QED  BY <1>2

LEMMA BegunWaits ==
    ASSUME NEW ls, NEW n \in Nat, NEW D, Typed(ls, n, D), HasRoom(ls),
           NEW filter \in Filters, NEW of \in {{}} \cup {{m} : m \in Moves}
    PROVE  \A m : Waits(Begun(ls, filter, of), m) <=> (Waits(ls, m) \/ of = {m})
<1>1. PICK k \in Fetches \ UnderWay(ls) :
        /\ UnderWay(Begun(ls, filter, of)) = UnderWay(ls) \cup {k}
        /\ \A j \in UnderWay(ls) : Begun(ls, filter, of)[j] = ls[j]
        /\ Begun(ls, filter, of)[k].pc = "asked" /\ Begun(ls, filter, of)[k].filter = filter
        /\ Begun(ls, filter, of)[k].of = of /\ Begun(ls, filter, of)[k].before = UnderWay(ls)
        /\ ~Begun(ls, filter, of)[k].passed
        /\ Typed(Begun(ls, filter, of), n, D)
  BY BegunShape
<1>2. QED  BY <1>1 DEF Waits

LEMMA SetFilterKeeps ==
    ASSUME ListInv, NEW f \in Filters, SetFilter(f)
    PROVE  ListInv'
<1>1. /\ HasRoom(loads) /\ loads' = Begun(loads, f, {}) /\ url' = f /\ loading' = TRUE
      /\ UNCHANGED <<dbVars, list, own, missed, moves, posts>>
  BY DEF SetFilter
<1>2. LoadsInv'
  <2>1. WellFormed(Begun(loads, f, {}), clock, DOMAIN status, own)
    BY <1>1, LoadFacts, BegunWellFormed DEF ListInv, LoadsInv
  <2>2. QED  BY <1>1, <2>1 DEF LoadsInv, dbVars
<1>3. Tables' /\ Shown' /\ MovesInv' /\ Times'
  BY <1>1, TablesKeep DEF ListInv, Shown, MovesInv, Times, dbVars
<1>4. Flags'
  BY <1>1 DEF ListInv, Flags
<1>5. WaitsInv'
  <2>1. \A m \in Moves : Waits(Begun(loads, f, {}), m) <=> Waits(loads, m)
    BY <1>1, LoadFacts, BegunWaits
  <2>2. QED  BY <1>1, <2>1 DEF ListInv, WaitsInv
<1>6. UrlInv'
  BY <1>1, LoadFacts, BegunIsOnItsWay DEF UrlInv
<1>7. QED  BY <1>2, <1>3, <1>4, <1>5, <1>6 DEF ListInv

LEMMA MoveAnsweredKeeps ==
    ASSUME ListInv, NEW m \in Moves, MoveAnswered(m)
    PROVE  ListInv'
<1> DEFINE q == moves[m]
           new == [q EXCEPT !.pc = "loading"]
<1>1. /\ q.pc = "moved" /\ q \in Committed
      /\ HasRoom(loads) /\ loads' = Begun(loads, q.filter, {m})
      /\ loading' = (loading \/ q.mine)
      /\ UNCHANGED <<dbVars, url, list, own, missed, posts>>
  BY MoveKinds DEF MoveAnswered, ListInv, MovesInv
<1>2. /\ new \in Committed /\ new.pc = "loading" /\ new.mine = q.mine
      /\ q.filter \in Filters /\ q.mine \in BOOLEAN
  BY <1>1 DEF Committed
<1>3. moves' = [moves EXCEPT ![m] = new] /\ moves \in [Moves -> MoveRows]
  BY DEF MoveAnswered, ListInv, MovesInv
<1> HIDE DEF new
<1>4. moves'[m] = new /\ \A x \in Moves : x # m => moves'[x] = moves[x]
  BY <1>3
<1>5. ~Waits(loads, m)
  BY <1>1 DEF ListInv, WaitsInv
<1>6. LoadsInv'
  <2>1. \A k \in UnderWay(loads) : loads[k].of # {m}
    BY <1>5 DEF Waits
  <2>2. WellFormed(loads, clock, DOMAIN status, own)
    BY DEF ListInv, LoadsInv
  <2>3. WellFormed(Begun(loads, q.filter, {m}), clock, DOMAIN status, own)
    BY <1>1, <1>2, <2>1, <2>2, LoadFacts, BegunWellFormed
  <2>4. QED  BY <1>1, <2>3 DEF LoadsInv, dbVars
<1>7. Tables' /\ Shown' /\ Times' /\ MoveRows' = MoveRows
  BY <1>1, TablesKeep DEF ListInv, Shown, Times, dbVars
<1>8. Flags'
  <2>1. (loading \/ q.mine) \in BOOLEAN
    BY Zenon
  <2>2. QED  BY <1>1, <2>1 DEF ListInv, Flags
<1>9. MovesInv'
  <2>1. new \in MoveRows /\ Offered(new) /\ Stale(new)
    BY <1>2 DEF MoveRows, Offered, Stale
  <2>2. \A x \in Moves : moves'[x] \in MoveRows' /\ Offered(moves'[x]) /\ Stale(moves'[x])
    BY <1>4, <1>7, <2>1 DEF ListInv, MovesInv
  <2>3. moves' = [x \in Moves |-> moves'[x]]
    BY <1>3
  <2>4. QED  BY <2>2, <2>3 DEF MovesInv
<1>10. WaitsInv'
  <2>1. \A x : Waits(Begun(loads, q.filter, {m}), x) <=> (Waits(loads, x) \/ {m} = {x})
    BY <1>1, <1>2, LoadFacts, BegunWaits
  <2>2. \A x : Waits(loads', x) <=> (Waits(loads, x) \/ x = m)
    BY <1>1, <2>1
  <2>3. QED  BY <1>2, <1>4, <2>2 DEF ListInv, WaitsInv
<1>11. UrlInv'
  <2>1. PICK k \in Fetches \ UnderWay(loads) :
          /\ UnderWay(loads') = UnderWay(loads) \cup {k}
          /\ \A j \in UnderWay(loads) : loads'[j] = loads[j]
          /\ loads'[k].of = {m}
    <3>1. \E k \in Fetches \ UnderWay(loads) :
            /\ UnderWay(Begun(loads, q.filter, {m})) = UnderWay(loads) \cup {k}
            /\ \A j \in UnderWay(loads) : Begun(loads, q.filter, {m})[j] = loads[j]
            /\ Begun(loads, q.filter, {m})[k].pc = "asked"
            /\ Begun(loads, q.filter, {m})[k].filter = q.filter
            /\ Begun(loads, q.filter, {m})[k].of = {m}
            /\ Begun(loads, q.filter, {m})[k].before = UnderWay(loads)
            /\ ~Begun(loads, q.filter, {m})[k].passed
            /\ Typed(Begun(loads, q.filter, {m}), clock, DOMAIN status)
      <4>1. {m} \in {{}} \cup {{x} : x \in Moves}
        OBVIOUS
      <4>2. clock \in Nat /\ Typed(loads, clock, DOMAIN status) /\ q.filter \in Filters
        BY <1>2, LoadFacts
      <4> HIDE DEF q
      <4>3. QED  BY <1>1, <4>1, <4>2, BegunShape
    <3>2. QED  BY <1>1, <3>1
  <2>2. ASSUME NEW j \in UnderWay(loads), OnItsWay(j) PROVE OnItsWay(j)'
    BY <1>1, <2>1, <2>2 DEF OnItsWay
  <2>3. ASSUME NEW j \in UnderWay(loads), loads[j].of # {}, Mine(loads[j]) PROVE Mine(loads[j])'
    <3>1. PICK x \in Moves : loads[j].of = {x}
      BY <2>3, LoadFacts
    <3>2. x # m
      BY <1>5, <3>1 DEF Waits
    <3>3. QED  BY <1>4, <2>1, <2>3, <3>1, <3>2 DEF Mine
  <2>4. ASSUME q.mine PROVE Mine(loads[k])'
    BY <1>2, <1>4, <2>1, <2>4 DEF Mine
  <2>5. ASSUME UrlIsShown PROVE UrlIsShown'
    BY <1>1, <2>1, <2>3, <2>4, <2>5 DEF UrlIsShown
  <2>6. QED  BY <1>1, <2>1, <2>2, <2>5 DEF ListInv, UrlInv
<1>12. QED  BY <1>6, <1>7, <1>8, <1>9, <1>10, <1>11 DEF ListInv

LEMMA LoadArrivesKeeps ==
    ASSUME ListInv, NEW i \in Fetches, LoadArrives(i)
    PROVE  ListInv'
<1> DEFINE B == loads[i].before
           P == PassedBy(loads, B)
<1>1. /\ loads[i].pc = "answered" /\ loads[i].of = {} /\ i \in UnderWay(loads)
      /\ list' = loads[i].list /\ loading' = FALSE
      /\ missed' = (missed \/ loads[i].passed)
      /\ UNCHANGED <<own, dbVars, url, moves, posts>>
  BY LoadFacts DEF LoadArrives, Show
<1>2. loads' = Left(P, Fetches \ {i})
  BY DEF LoadArrives, Show, PassedBy, Passed
<1>3. B \in SUBSET UnderWay(loads)
  BY <1>1, LoadFacts
<1>4. WellFormed(P, clock, DOMAIN status, own) /\ Typed(P, clock, DOMAIN status)
  <2>1. WellFormed(loads, clock, DOMAIN status, own)
    BY DEF ListInv, LoadsInv
  <2>2. WellFormed(P, clock, DOMAIN status, own)
    BY <1>3, <2>1, PassedWellFormed
  <2>3. QED  BY <2>2 DEF WellFormed
<1>5. /\ UnderWay(P) = UnderWay(loads)
      /\ \A k \in UnderWay(loads) :
           /\ P[k].filter = loads[k].filter /\ P[k].of = loads[k].of /\ P[k].before = loads[k].before
           /\ k \in B => P[k].passed
           /\ k \notin B => P[k].passed = loads[k].passed
  BY <1>3, LoadFacts, PassedShape
<1> HIDE DEF P
<1>6. /\ UnderWay(loads') = UnderWay(loads) \ {i}
      /\ \A k \in UnderWay(loads) \ {i} :
           /\ loads'[k].filter = loads[k].filter /\ loads'[k].of = loads[k].of
           /\ loads'[k].before = loads[k].before \cap (Fetches \ {i})
           /\ k \in B => loads'[k].passed
           /\ k \notin B => loads'[k].passed = loads[k].passed
  <2>1. UnderWay(loads) \subseteq Fetches
    BY DEF UnderWay
  <2>2. /\ UnderWay(loads') = UnderWay(P) \cap (Fetches \ {i})
        /\ \A k \in UnderWay(P) \cap (Fetches \ {i}) :
             /\ loads'[k].filter = P[k].filter /\ loads'[k].of = P[k].of
             /\ loads'[k].before = P[k].before \cap (Fetches \ {i})
             /\ loads'[k].passed = P[k].passed
    BY <1>2, <1>4, LeftShape
  <2>3. QED  BY <1>5, <2>1, <2>2
<1>7. LoadsInv'
  <2>1. WellFormed(loads', clock, DOMAIN status, own)
    BY <1>2, <1>4, LeftWellFormed
  <2>2. QED  BY <1>1, <2>1 DEF LoadsInv, dbVars
<1>8. Tables' /\ MovesInv' /\ Times'
  BY <1>1, TablesKeep DEF ListInv, MovesInv, Times, dbVars
<1>9. Flags'
  <2>1. (missed \/ loads[i].passed) \in BOOLEAN
    BY Zenon
  <2>2. QED  BY <1>1, <2>1 DEF ListInv, Flags
<1>10. Shown' /\ list'.filter = loads[i].filter
  <2>1. /\ loads[i].list.filter = loads[i].filter /\ Fits(loads[i].list) /\ loads[i].list.at >= own
        /\ loads[i].list \in ListsOf(clock, DOMAIN status)
    BY <1>1, LoadFacts DEF Answered
  <2>2. QED  BY <1>1, <2>1 DEF Shown, dbVars
<1>11. WaitsInv'
  <2>1. \A m : Waits(loads', m) <=> Waits(loads, m)
    BY <1>1, <1>6 DEF Waits
  <2>2. QED  BY <1>1, <2>1 DEF ListInv, WaitsInv
<1>12. UrlInv'
  <2>1. SUFFICES ASSUME ~missed'
                 PROVE  UrlIsShown' \/ (\E k \in UnderWay(loads) : OnItsWay(k))'
    BY DEF UrlInv
  <2>2. ~missed /\ ~loads[i].passed
    BY <1>1, <2>1
  <2>3. PICK k \in UnderWay(loads) : OnItsWay(k)
    BY <1>1, <2>2 DEF ListInv, UrlInv, UrlIsShown
  <2>4. CASE k = i
    <3>1. list'.filter = url' /\ ~loading'
      BY <1>1, <1>10, <2>3, <2>4 DEF OnItsWay
    <3>2. \A j \in UnderWay(loads) \ {i} : loads[j].of = {} => j \in B
      BY <2>3, <2>4 DEF OnItsWay
    <3>3. \A j \in UnderWay(loads') : loads'[j].of = {} => loads'[j].passed
      BY <1>6, <3>2
    <3>4. QED  BY <3>1, <3>3 DEF UrlIsShown
  <2>5. CASE k # i
    <3>1. i \in loads[k].before /\ k \notin B
      BY <1>1, <2>3, <2>5, LoadFacts DEF OnItsWay, Ordered
    <3>2. k \in UnderWay(loads') /\ loads'[k].of = {} /\ ~loads'[k].passed /\ loads'[k].filter = url'
      BY <1>1, <1>6, <2>3, <2>5, <3>1 DEF OnItsWay
    <3>3. \A j \in UnderWay(loads') : loads'[j].of = {} /\ j # k => j \in loads'[k].before
      <4>1. \A j \in UnderWay(loads) : loads[j].of = {} /\ j # k => j \in loads[k].before
        BY <2>3 DEF OnItsWay
      <4>2. loads'[k].before = loads[k].before \cap (Fetches \ {i})
        BY <1>6, <2>5
      <4>3. \A j \in UnderWay(loads') : j \in UnderWay(loads) /\ j # i /\ j \in Fetches /\ loads'[j].of = loads[j].of
        BY <1>6 DEF UnderWay
      <4>4. QED  BY <4>1, <4>2, <4>3
    <3>4. QED  BY <3>2, <3>3 DEF OnItsWay
  <2>6. QED  BY <2>4, <2>5
<1>13. QED  BY <1>7, <1>8, <1>9, <1>10, <1>11, <1>12 DEF ListInv

\* What is left when load i ends otherwise.
LEMMA WithoutShape ==
    ASSUME ListInv, NEW i \in Fetches
    PROVE  /\ UnderWay(Left(loads, Fetches \ {i})) = UnderWay(loads) \ {i}
           /\ \A k \in UnderWay(loads) \ {i} :
                /\ Left(loads, Fetches \ {i})[k].filter = loads[k].filter
                /\ Left(loads, Fetches \ {i})[k].of = loads[k].of
                /\ Left(loads, Fetches \ {i})[k].before = loads[k].before \cap (Fetches \ {i})
                /\ Left(loads, Fetches \ {i})[k].passed = loads[k].passed
           /\ WellFormed(Left(loads, Fetches \ {i}), clock, DOMAIN status, own)
<1>1. WellFormed(loads, clock, DOMAIN status, own) /\ Typed(loads, clock, DOMAIN status)
  BY DEF ListInv, LoadsInv, WellFormed
<1>2. UnderWay(loads) \cap (Fetches \ {i}) = UnderWay(loads) \ {i}
  BY DEF UnderWay
<1>3. WellFormed(Left(loads, Fetches \ {i}), clock, DOMAIN status, own)
  BY <1>1, LeftWellFormed
<1>4. /\ UnderWay(Left(loads, Fetches \ {i})) = UnderWay(loads) \cap (Fetches \ {i})
      /\ \A k \in UnderWay(loads) \cap (Fetches \ {i}) :
           /\ Left(loads, Fetches \ {i})[k].filter = loads[k].filter
           /\ Left(loads, Fetches \ {i})[k].of = loads[k].of
           /\ Left(loads, Fetches \ {i})[k].before = loads[k].before \cap (Fetches \ {i})
           /\ Left(loads, Fetches \ {i})[k].passed = loads[k].passed
  BY <1>1, LeftShape
<1>5. QED  BY <1>2, <1>3, <1>4

\* The move a load belongs to ends with it, and no other.
LEMMA EndsOne ==
    ASSUME ListInv, NEW i \in UnderWay(loads), NEW m \in Moves
    PROVE  Waits(Left(loads, Fetches \ {i}), m) <=> Waits(loads, m) /\ m \notin loads[i].of
<1>1. i \in Fetches /\ loads[i].of \in {{}} \cup {{x} : x \in Moves} /\ OneEach(loads)
  BY LoadFacts
<1> DEFINE new == Left(loads, Fetches \ {i})
<1>2. /\ UnderWay(new) = UnderWay(loads) \ {i}
      /\ \A k \in UnderWay(loads) \ {i} : new[k].of = loads[k].of
  BY <1>1, WithoutShape
<1> HIDE DEF new
<1>3. m \in loads[i].of <=> loads[i].of = {m}
  BY <1>1
<1>4. ASSUME Waits(loads, m), m \notin loads[i].of PROVE Waits(new, m)
  BY <1>2, <1>3, <1>4 DEF Waits
<1>5. ASSUME Waits(new, m) PROVE Waits(loads, m) /\ m \notin loads[i].of
  <2>1. PICK k \in UnderWay(loads) \ {i} : loads[k].of = {m}
    BY <1>2, <1>5 DEF Waits
  <2>2. loads[i].of # {m}
    BY <1>1, <2>1 DEF OneEach
  <2>3. QED  BY <1>3, <2>1, <2>2 DEF Waits
<1>6. QED  BY <1>4, <1>5 DEF new

LEMMA LoadFailsKeeps ==
    ASSUME ListInv, NEW i \in Fetches, LoadFails(i)
    PROVE  ListInv'
<1>1. /\ i \in UnderWay(loads) /\ loads' = Left(loads, Fetches \ {i})
      /\ loading' = IF Mine(loads[i]) THEN FALSE ELSE loading
      /\ missed' = (missed \/ Mine(loads[i]))
      /\ moves' = [m \in Moves |-> IF m \in loads[i].of THEN NoMove ELSE moves[m]]
      /\ UNCHANGED <<dbVars, url, list, own, posts>>
  BY DEF LoadFails, UnderWay, LoadingAfterFailure
<1>2. /\ UnderWay(loads') = UnderWay(loads) \ {i}
      /\ \A k \in UnderWay(loads) \ {i} :
           /\ loads'[k].filter = loads[k].filter /\ loads'[k].of = loads[k].of
           /\ loads'[k].before = loads[k].before \cap (Fetches \ {i})
           /\ loads'[k].passed = loads[k].passed
      /\ WellFormed(loads', clock, DOMAIN status, own)
  BY <1>1, WithoutShape
<1>3. LoadsInv'
  BY <1>1, <1>2 DEF LoadsInv, dbVars
<1>4. Tables' /\ Shown' /\ Times' /\ MoveRows' = MoveRows
  BY <1>1, TablesKeep DEF ListInv, Shown, Times, dbVars
<1>5. Flags'
  <2>1. (missed \/ Mine(loads[i])) \in BOOLEAN
    BY Zenon
  <2>2. loading' \in BOOLEAN
    BY <1>1 DEF ListInv, Flags
  <2>3. QED  BY <1>1, <2>1, <2>2 DEF ListInv, Flags
<1>6. MovesInv'
  <2>1. NoMove \in MoveRows /\ Offered(NoMove) /\ Stale(NoMove)
    BY DEF MoveRows, NoMove, Offered, Stale
  <2>2. QED  BY <1>1, <1>4, <2>1 DEF ListInv, MovesInv
<1>7. WaitsInv'
  <2>1. \A m \in Moves : Waits(loads', m) <=> Waits(loads, m) /\ m \notin loads[i].of
    BY <1>1, EndsOne
  <2>2. NoMove.pc # "loading"
    BY DEF NoMove
  <2>3. QED  BY <1>1, <2>1, <2>2 DEF ListInv, WaitsInv
<1>8. UrlInv'
  <2>1. SUFFICES ASSUME ~missed'
                 PROVE  UrlIsShown' \/ (\E k \in UnderWay(loads) : OnItsWay(k))'
    BY DEF UrlInv
  <2>2. ~missed /\ ~Mine(loads[i]) /\ loading' = loading
    BY <1>1, <2>1
  <2>3. loads[i].of # {}
    BY <2>2, MineOf
  <2>4. ASSUME NEW k \in UnderWay(loads), OnItsWay(k) PROVE k \in UnderWay(loads') /\ OnItsWay(k)'
    <3>1. k # i
      BY <2>3, <2>4 DEF OnItsWay
    <3>2. k \in UnderWay(loads') /\ loads'[k].of = {} /\ ~loads'[k].passed /\ loads'[k].filter = url'
      BY <1>1, <1>2, <2>4, <3>1 DEF OnItsWay
    <3>3. \A j \in UnderWay(loads') : loads'[j].of = {} /\ j # k => j \in loads'[k].before
      <4>1. \A j \in UnderWay(loads) : loads[j].of = {} /\ j # k => j \in loads[k].before
        BY <2>4 DEF OnItsWay
      <4>2. loads'[k].before = loads[k].before \cap (Fetches \ {i})
        BY <1>2, <3>1
      <4>3. \A j \in UnderWay(loads') : j \in UnderWay(loads) /\ j # i /\ j \in Fetches /\ loads'[j].of = loads[j].of
        BY <1>2 DEF UnderWay
      <4>4. QED  BY <4>1, <4>2, <4>3
    <3>4. QED  BY <3>2, <3>3 DEF OnItsWay
  <2>5. ASSUME UrlIsShown PROVE UrlIsShown'
    <3>1. ASSUME NEW j \in UnderWay(loads), loads[j].of # {}, Mine(loads[j])
          PROVE  j \in UnderWay(loads') /\ loads'[j].of # {} /\ Mine(loads[j])'
      <4>1. j # i
        BY <2>2, <3>1
      <4>2. PICK x \in Moves : loads[j].of = {x}
        BY <3>1, LoadFacts
      <4>3. x \notin loads[i].of
        <5>1. loads[i].of = {} \/ \E y \in Moves : loads[i].of = {y}
          BY <1>1, LoadFacts
        <5>2. loads[i].of # loads[j].of
          BY <1>1, <2>3, <4>1, LoadFacts DEF OneEach
        <5>3. QED  BY <4>2, <5>1, <5>2
      <4>4. moves'[x] = moves[x]
        BY <1>1, <4>3
      <4>5. QED  BY <1>2, <3>1, <4>1, <4>2, <4>4 DEF Mine
    <3>2. \A j \in UnderWay(loads') : loads'[j].of = {} => loads'[j].passed
      BY <1>2, <2>5 DEF UrlIsShown
    <3>3. list'.filter = url'
      BY <1>1, <2>5 DEF UrlIsShown
    <3>4. loading' => \E j \in UnderWay(loads') : loads'[j].of # {} /\ Mine(loads[j])'
      BY <2>2, <2>5, <3>1 DEF UrlIsShown
    <3>5. QED  BY <3>2, <3>3, <3>4 DEF UrlIsShown
  <2>6. QED  BY <2>2, <2>4, <2>5 DEF ListInv, UrlInv
<1>9. QED  BY <1>3, <1>4, <1>5, <1>6, <1>7, <1>8 DEF ListInv
-------------------------------------------------------------------------------
LEMMA NoListTyped ==
    ASSUME NEW n \in Nat, NEW D
    PROVE  NoList \in ListsOf(n, D) /\ Fits(NoList)
<1>1. NoList.filter = "none" /\ NoList.at = 0 /\ NoList.rows = [t \in {} |-> "TODO"]
  BY DEF NoList
<1>2. [t \in {} |-> "TODO"] \in UNION {[R -> Statuses] : R \in SUBSET D}
  <2>1. [t \in {} |-> "TODO"] \in [{} -> Statuses]
    OBVIOUS
  <2>2. QED  BY <2>1
<1>3. 0 \in 0..n
  OBVIOUS
<1>4. NoList \in ListsOf(n, D)
  BY <1>2, <1>3 DEF NoList, ListsOf
<1>5. Fits(NoList)
  <2>1. DOMAIN NoList.rows = {}
    BY <1>1
  <2>2. QED  BY <2>1 DEF Fits
<1>6. QED  BY <1>4, <1>5

\* A new instance of the list: none of the loads that go on is its own but the first.
LEMMA RemountKeeps ==
    ASSUME ListInv, NEW others, WellFormed(others, clock, DOMAIN status, own),
           NEW at \in 0..clock, Remount(others, at), UNCHANGED <<dbVars, url>>
    PROVE  /\ LoadsInv' /\ Flags' /\ Shown' /\ UrlInv' /\ own' \in 0..clock'
           /\ \A m : Waits(loads', m) <=> Waits(others, m)
<1> DEFINE left == Unmounted(others)
           S == {k \in UnderWay(others) : others[k].of # {}}
<1>1. /\ HasRoom(left) /\ loads' = Begun(left, url, {}) /\ list' = NoList /\ loading' = TRUE
      /\ own' = (IF at > own THEN at ELSE own) /\ missed' = FALSE
      /\ url' = url /\ status' = status /\ clock' = clock /\ url \in Filters
  BY DEF Remount, dbVars, ListInv, Flags
<1>2. clock \in Nat /\ own \in 0..clock /\ own' \in 0..clock
  BY <1>1, LoadFacts
<1>3. /\ Typed(others, clock, DOMAIN status) /\ left = Left(others, S)
      /\ WellFormed(left, clock, DOMAIN status, own)
  BY LeftWellFormed DEF WellFormed, Unmounted
<1>4. /\ UnderWay(left) = UnderWay(others) \cap S
      /\ \A k \in UnderWay(others) \cap S : left[k].of = others[k].of
  BY <1>3, LeftShape
<1> HIDE DEF left
<1>5. UnderWay(left) = S /\ \A k \in UnderWay(left) : left[k].of = others[k].of /\ left[k].of # {}
  BY <1>4
<1>6. WellFormed(left, clock, DOMAIN status, own')
  <2>1. Answered(left, own')
    BY <1>3, <1>5 DEF WellFormed, Answered
  <2>2. QED  BY <1>3, <2>1 DEF WellFormed
<1>7. LoadsInv'
  <2>1. WellFormed(Begun(left, url, {}), clock, DOMAIN status, own')
    BY <1>1, <1>2, <1>6, BegunWellFormed
  <2>2. QED  BY <1>1, <2>1 DEF LoadsInv
<1>8. Typed(left, clock, DOMAIN status)
  BY <1>6 DEF WellFormed
<1>9. UrlInv'
  <2>1. (\E k \in UnderWay(loads) : OnItsWay(k))'
    BY <1>1, <1>2, <1>8, BegunIsOnItsWay
  <2>2. QED  BY <2>1 DEF UrlInv
<1>10. \A m : Waits(loads', m) <=> Waits(others, m)
  <2>1. \A m : Waits(loads', m) <=> Waits(left, m)
    BY <1>1, <1>2, <1>8, BegunWaits
  <2>2. \A m : Waits(left, m) <=> Waits(others, m)
    BY <1>5 DEF Waits
  <2>3. QED  BY <2>1, <2>2
<1>11. Flags'
  BY <1>1 DEF Flags
<1>12. Shown'
  <2>1. NoList \in ListsOf(clock, DOMAIN status) /\ Fits(NoList)
    BY <1>2, NoListTyped
  <2>2. QED  BY <1>1, <2>1 DEF Shown
<1>13. QED  BY <1>1, <1>2, <1>7, <1>9, <1>10, <1>11, <1>12

LEMMA DisownedShape ==
    ASSUME NEW ms \in [Moves -> MoveRows], \A m \in Moves : Offered(ms[m]) /\ Stale(ms[m])
    PROVE  /\ Disowned(ms) \in [Moves -> MoveRows]
           /\ \A m \in Moves : /\ Offered(Disowned(ms)[m]) /\ Stale(Disowned(ms)[m])
                               /\ Disowned(ms)[m].pc = ms[m].pc
<1>1. ASSUME NEW m \in Moves
      PROVE  /\ Disowned(ms)[m] \in MoveRows /\ Offered(Disowned(ms)[m]) /\ Stale(Disowned(ms)[m])
             /\ Disowned(ms)[m].pc = ms[m].pc
  <2> DEFINE q == ms[m]
             new == [q EXCEPT !.mine = FALSE]
  <2>1. q \in MoveRows /\ Offered(q) /\ Stale(q)
    OBVIOUS
  <2>2. Disowned(ms)[m] = IF q = NoMove THEN NoMove ELSE new
    BY DEF Disowned
  <2>3. CASE q \in Sent
    <3>1. q # NoMove
      BY <2>3 DEF Sent, NoMove
    <3>2. new \in Sent /\ new.pc = q.pc /\ new.to = q.to /\ new.listed = q.listed
      BY <2>3 DEF Sent
    <3> HIDE DEF new
    <3>3. Offered(new)
      BY <2>1, <2>3, <3>2 DEF Offered, Sent
    <3>4. Stale(new)
      BY <2>1, <2>3, <3>2 DEF Stale, Sent
    <3>5. QED  BY <2>2, <3>1, <3>2, <3>3, <3>4 DEF MoveRows
  <2>4. CASE q \in Checked
    <3>1. q # NoMove
      BY <2>4 DEF Checked, NoMove
    <3>2. new \in Checked /\ new.pc = q.pc
      BY <2>4 DEF Checked
    <3> HIDE DEF new
    <3>3. Offered(new)
      BY <2>1, <2>4, <3>2 DEF Offered, Checked
    <3>4. Stale(new)
      BY <2>1, <2>4, <3>2 DEF Stale, Checked
    <3>5. QED  BY <2>2, <3>1, <3>2, <3>3, <3>4 DEF MoveRows
  <2>5. CASE q \in Refused
    <3>1. q # NoMove
      BY <2>5 DEF Refused, NoMove
    <3>2. new \in Refused /\ new.pc = q.pc /\ new.found = q.found /\ new.listed = q.listed
      BY <2>5 DEF Refused
    <3> HIDE DEF new
    <3>3. Offered(new)
      BY <2>1, <2>5, <3>2 DEF Offered, Refused
    <3>4. Stale(new)
      BY <2>1, <2>5, <3>2 DEF Stale, Refused
    <3>5. QED  BY <2>2, <3>1, <3>2, <3>3, <3>4 DEF MoveRows
  <2>6. CASE q \in Committed
    <3>1. q # NoMove
      BY <2>6 DEF Committed, NoMove
    <3>2. new \in Committed /\ new.pc = q.pc
      BY <2>6 DEF Committed
    <3> HIDE DEF new
    <3>3. Offered(new)
      BY <2>1, <2>6, <3>2 DEF Offered, Committed
    <3>4. Stale(new)
      BY <2>1, <2>6, <3>2 DEF Stale, Committed
    <3>5. QED  BY <2>2, <3>1, <3>2, <3>3, <3>4 DEF MoveRows
  <2>7. CASE q = NoMove
    BY <2>1, <2>2, <2>7
  <2>8. QED  BY <2>1, <2>3, <2>4, <2>5, <2>6, <2>7 DEF MoveRows
<1>2. QED  BY <1>1 DEF Disowned

LEMMA MoveEndsKeeps ==
    ASSUME ListInv, NEW i \in Fetches, NEW m \in Moves, MoveEnds(i, m)
    PROVE  ListInv'
<1> DEFINE others == Left(loads, Fetches \ {i})
           ms == [moves EXCEPT ![m] = NoMove]
<1>1. /\ i \in UnderWay(loads) /\ loads[i].of = {m}
      /\ Remount(others, moves[m].at) /\ moves' = Disowned(ms)
      /\ UNCHANGED <<dbVars, url, posts>>
  BY LoadFacts DEF MoveEnds, Updated
<1>2. WellFormed(others, clock, DOMAIN status, own)
  BY WithoutShape
<1>3. moves[m].at \in 0..clock
  <2>1. moves[m].pc = "loading" /\ moves[m] \in MoveRows
    BY <1>1 DEF ListInv, WaitsInv, MovesInv, Waits
  <2>2. QED  BY <2>1, MoveKinds DEF Committed
<1>4. /\ LoadsInv' /\ Flags' /\ Shown' /\ UrlInv' /\ own' \in 0..clock'
      /\ \A x : Waits(loads', x) <=> Waits(others, x)
  BY <1>1, <1>2, <1>3, RemountKeeps
<1>5. Tables' /\ MoveRows' = MoveRows /\ clock' = clock /\ posts' = posts
  BY <1>1, TablesKeep
<1>6. /\ ms \in [Moves -> MoveRows] /\ \A x \in Moves : Offered(ms[x]) /\ Stale(ms[x])
      /\ ms[m].pc # "loading" /\ \A x \in Moves : x # m => ms[x] = moves[x]
  <2>1. NoMove \in MoveRows /\ Offered(NoMove) /\ Stale(NoMove) /\ NoMove.pc # "loading"
    BY DEF MoveRows, NoMove, Offered, Stale
  <2>2. QED  BY <2>1 DEF ListInv, MovesInv
<1> HIDE DEF ms
<1>7. MovesInv' /\ \A x \in Moves : moves'[x].pc = ms[x].pc
  BY <1>1, <1>5, <1>6, DisownedShape DEF MovesInv
<1>8. Times'
  BY <1>4, <1>5 DEF ListInv, Times
<1>9. WaitsInv'
  <2>1. \A x \in Moves : Waits(others, x) <=> Waits(loads, x) /\ x # m
    BY <1>1, EndsOne
  <2>2. QED  BY <1>4, <1>6, <1>7, <2>1 DEF ListInv, WaitsInv
<1>10. QED  BY <1>4, <1>5, <1>7, <1>8, <1>9 DEF ListInv

LEMMA FormAnsweredKeeps ==
    ASSUME ListInv, NEW q \in Posts, FormAnswered(q)
    PROVE  ListInv'
<1>1. /\ Remount(loads, posts[q]) /\ moves' = Disowned(moves) /\ UNCHANGED <<dbVars, url>>
      /\ posts' = [posts EXCEPT ![q] = 0]
  BY DEF FormAnswered
<1>2. WellFormed(loads, clock, DOMAIN status, own) /\ posts[q] \in 0..clock
  BY DEF ListInv, LoadsInv, Times
<1>3. /\ LoadsInv' /\ Flags' /\ Shown' /\ UrlInv' /\ own' \in 0..clock'
      /\ \A x : Waits(loads', x) <=> Waits(loads, x)
  BY <1>1, <1>2, RemountKeeps
<1>4. Tables' /\ MoveRows' = MoveRows /\ clock' = clock /\ clock \in Nat
  BY <1>1, TablesKeep, LoadFacts
<1>5. MovesInv' /\ \A x \in Moves : moves'[x].pc = moves[x].pc
  BY <1>1, <1>4, DisownedShape DEF ListInv, MovesInv
<1>6. Times'
  BY <1>1, <1>3, <1>4 DEF ListInv, Times
<1>7. WaitsInv'
  BY <1>3, <1>5 DEF ListInv, WaitsInv
<1>8. QED  BY <1>3, <1>4, <1>5, <1>6, <1>7 DEF ListInv
-------------------------------------------------------------------------------
LEMMA ListInit == Init => ListInv
<1> SUFFICES ASSUME Init PROVE ListInv
  OBVIOUS
<1> DEFINE none == [k \in Fetches |-> NoLoad]
<1>1. /\ clock = 0 /\ url \in Filters /\ loads = Begun(none, url, {}) /\ list = NoList
      /\ loading = TRUE /\ moves = [m \in Moves |-> NoMove] /\ posts = [q \in Posts |-> 0]
      /\ own = 0 /\ missed = FALSE
  BY DEF Init
<1>2. Tables
  BY TaskListAssumption DEF Init, Tables
<1>3. UnderWay(none) = {} /\ HasRoom(none)
  BY TaskListAssumption DEF UnderWay, HasRoom
<1>4. WellFormed(none, 0, DOMAIN status, 0) /\ Typed(none, 0, DOMAIN status)
  <2>1. Typed(none, 0, DOMAIN status)
    BY DEF Typed
  <2>2. QED  BY <1>3, <2>1 DEF WellFormed, Ordered, OneEach, Answered
<1> HIDE DEF none
<1>5. LoadsInv
  BY <1>1, <1>3, <1>4, BegunWellFormed DEF LoadsInv
<1>6. \A m : ~Waits(loads, m)
  <2>1. \A m : Waits(Begun(none, url, {}), m) <=> (Waits(none, m) \/ {} = {m})
    BY <1>1, <1>3, <1>4, BegunWaits
  <2>2. QED  BY <1>1, <1>3, <2>1 DEF Waits
<1>7. MovesInv /\ WaitsInv
  BY <1>1, <1>6 DEF MovesInv, WaitsInv, MoveRows, NoMove, Offered, Stale
<1>8. Times /\ Flags
  <2>1. Times
    BY <1>1 DEF Times
  <2>2. missed \in BOOLEAN /\ loading \in BOOLEAN
    BY <1>1
  <2>3. QED  BY <1>1, <2>1, <2>2 DEF Flags
<1>9. Shown
  <2>1. 0 \in Nat /\ NoList \in ListsOf(0, DOMAIN status) /\ Fits(NoList)
    BY NoListTyped
  <2>2. QED  BY <1>1, <2>1 DEF Shown
<1>10. UrlInv
  <2>1. PICK k \in Fetches \ UnderWay(none) :
          /\ UnderWay(Begun(none, url, {})) = UnderWay(none) \cup {k}
          /\ \A j \in UnderWay(none) : Begun(none, url, {})[j] = none[j]
          /\ Begun(none, url, {})[k].pc = "asked" /\ Begun(none, url, {})[k].filter = url
          /\ Begun(none, url, {})[k].of = {} /\ Begun(none, url, {})[k].before = UnderWay(none)
          /\ ~Begun(none, url, {})[k].passed
          /\ Typed(Begun(none, url, {}), 0, DOMAIN status)
    BY <1>1, <1>3, <1>4, BegunShape
  <2>2. k \in UnderWay(loads) /\ OnItsWay(k)
    BY <1>1, <1>3, <2>1 DEF OnItsWay
  <2>3. QED  BY <2>2 DEF UrlInv
<1>11. QED  BY <1>2, <1>5, <1>7, <1>8, <1>9, <1>10 DEF ListInv

LEMMA ListNext == ListInv /\ [Next]_vars => ListInv'
<1> SUFFICES ASSUME ListInv, [Next]_vars PROVE ListInv'
  OBVIOUS
<1>1. CASE LoadStep
  BY <1>1, ServeLoadKeeps, LoadArrivesKeeps, MoveEndsKeeps, LoadFailsKeeps DEF LoadStep
<1>2. CASE \/ \E t \in Tasks, st \in Statuses : OtherMoves(t, st)
           \/ \E t \in Tasks : OtherCreates(t)
           \/ \E q \in Posts : (\E t \in Tasks : SubmitForm(q, t)) \/ FormFails(q)
  BY <1>2, OthersKeep
<1>3. CASE \E f \in Filters : SetFilter(f)
  BY <1>3, SetFilterKeeps
<1>4. CASE \E m \in Moves : \/ \E t \in Tasks, st \in Statuses : ClickMove(m, t, st)
                            \/ ServeCheck(m) \/ ServeMove(m) \/ MoveRejected(m)
  BY <1>4, MovesKeep
<1>5. CASE \E m \in Moves : MoveAnswered(m)
  BY <1>5, MoveAnsweredKeeps
<1>6. CASE \E q \in Posts : FormAnswered(q)
  BY <1>6, FormAnsweredKeeps
<1>7. CASE UNCHANGED vars
  <2>1. /\ UNCHANGED <<dbVars, url, listVars, moves, posts>>
    BY <1>7 DEF vars
  <2>2. Tables' /\ clock' = clock /\ status' = status /\ clock \in Nat
    BY <2>1, TablesKeep, LoadFacts
  <2>3. QED  BY <2>1, <2>2, Beside DEF ListInv, MovesInv, Times
<1>8. QED  BY <1>1, <1>2, <1>3, <1>4, <1>5, <1>6, <1>7 DEF Next

LEMMA ListAlways == Spec => []ListInv
  BY ListInit, ListNext, PTL DEF Spec

\* Every variable has its type, and just the moves that wait for a load have one under
\* way, for any number of loads, moves and forms at once.
THEOREM TypeCorrect == Spec => []TypeOK
  BY ListAlways, ListInvTypes, PTL

\* When the list of the page has no load of its own any more and none of them failed or
\* was overtaken, it shows what the URL names and does not say that it is loading,
\* although a move loads with the filter of its click.
THEOREM ListAlwaysOfUrl == Spec => []ListIsOfUrl
<1>1. ListInv => ListIsOfUrl
  <2> SUFFICES ASSUME ListInv, \A i \in UnderWay(loads) : ~Mine(loads[i]), ~missed
               PROVE  ~loading /\ list.filter = url
    BY DEF ListIsOfUrl
  <2>1. \A i \in UnderWay(loads) : loads[i].of # {}
    BY MineOf
  <2>2. UrlIsShown
    BY <2>1 DEF ListInv, UrlInv, OnItsWay
  <2>3. QED  BY <2>2 DEF UrlIsShown
<1>2. QED  BY <1>1, ListAlways, PTL

\* A page never goes back to a list read before a change of its own that has ended,
\* however its loads overtake each other.
THEOREM OwnChangesAlwaysShown == Spec => []OwnChangesShown
<1>1. ListInv => OwnChangesShown
  BY DEF ListInv, Shown, OwnChangesShown
<1>2. QED  BY <1>1, ListAlways, PTL

\* The server refuses what a button offered only when the task has changed since the
\* list with that button was read.
THEOREM RefusalAlwaysMeansStale == Spec => []RefusalMeansStale
<1>1. ListInv => RefusalMeansStale
  BY DEF ListInv, MovesInv, Stale, RefusalMeansStale
<1>2. QED  BY <1>1, ListAlways, PTL
=============================================================================
