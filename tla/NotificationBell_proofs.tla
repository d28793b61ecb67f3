----------------------- MODULE NotificationBell_proofs -----------------------
(* What TLAPS proves of NotificationBell for every page size, every number of *)
(* notifications and of marks under way, and whatever may be lost.            *)
EXTENDS NotificationBell, FiniteSetTheorems, SequenceTheorems, TLAPS

Note == [read : {"no", "here", "elsewhere"}, early : BOOLEAN, late : BOOLEAN,
         stage : {"asked", "between", "settled"}]

Mark == [pc : {"idle", "sent", "answered"}, all : BOOLEAN, id : 0..MaxNotes]

\* What a mark under way is about exists, and what it was served for is read.
Marked(c) ==
    /\ click[c].pc # "idle" /\ ~click[c].all => click[c].id \in Ids
    /\ click[c].pc = "answered" =>
         \A i \in Ids : Touches(click[c], i) => notes[i].read # "no" \/ notes[i].late

\* Nothing is listed, or about to be, as read that is not.
ReadIsRead ==
    /\ \A c \in Clicks : Marked(c)
    /\ \A k \in DOMAIN fetch.list : fetch.list[k].read => notes[fetch.list[k].id].read # "no"
    /\ NothingHidden

WireHas(i) == \E k \in DOMAIN wire : wire[k] = i
ListHas(i) == \E k \in DOMAIN list : list[k].id = i

\* A notification waits in its handler, or in the wire, or is listed, and once.
Once(i) ==
    /\ i \in unsent => ~WireHas(i) /\ ~ListHas(i)
    /\ WireHas(i) => ~ListHas(i)
    /\ i \in unsent \/ WireHas(i) \/ ListHas(i)
    /\ \A k, m \in DOMAIN wire : wire[k] = i /\ wire[m] = i => k = m
    /\ \A k, m \in DOMAIN list : list[k].id = i /\ list[m].id = i => k = m

\* So does each that is inserted once the bell is up.
Settled ==
    /\ (\E i \in Ids : notes[i].stage = "settled") => fetch.pc = "done" /\ (~lost => connected)
    /\ ~lost => \A i \in Ids : notes[i].stage = "settled" => Once(i)

\* A delivered one that was marked as read here is listed as read, or the answer that
\* will mark it is on its way.
Seen ==
    /\ \A i \in Ids : notes[i].read = "here" /\ ~notes[i].early => i \notin unsent /\ ~WireHas(i)
    /\ ~lost => \A k \in DOMAIN list :
         LET note == notes[list[k].id] IN
         ~list[k].read /\ note.stage = "settled" /\ note.read = "here" /\ ~note.early =>
             \E c \in Clicks : click[c].pc = "answered" /\ Touches(click[c], list[k].id)

\* The notifications there were before the answer was read are the first n.
Earlier(n) ==
    /\ n \in 0..Len(notes)
    /\ \A i \in Ids : notes[i].stage = "asked" <=> i <= n

\* The answer is the page of the newest of them, and stays listed.
Fetched ==
    /\ fetch.pc = "asked" => \A i \in Ids : notes[i].stage = "asked"
    /\ fetch.pc = "answered" => \E n \in Nat :
         /\ Earlier(n)
         /\ Len(fetch.list) = (IF n <= PageSize THEN n ELSE PageSize)
         /\ \A k \in 1..Len(fetch.list) : fetch.list[k].id = n + 1 - k
    /\ fetch.pc = "done" => \E n \in Nat :
         /\ Earlier(n)
         /\ \A i \in 1..n : i > n - PageSize => ListHas(i)

\* The list is never cut: what can still be put on it fits.
Fits ==
    /\ IsFiniteSet(unsent)
    /\ Len(notes) <= MaxNotes
    /\ Len(list) + Len(wire) + Cardinality(unsent)
         <= Len(notes) + (IF fetch.pc = "done" THEN PageSize ELSE 0)

BellInv == TypeOK /\ ReadIsRead /\ Settled /\ Seen /\ Fetched /\ Fits
-------------------------------------------------------------------------------
\* Sequences.

LEMMA Shapes ==
    ASSUME TypeOK
    PROVE  /\ notes \in Seq(Note) /\ Len(notes) \in Nat /\ Ids = 1..Len(notes)
           /\ \A i \in Ids : notes[i] \in Note
           /\ Len(wire) \in Nat /\ DOMAIN wire = 1..Len(wire) /\ \A k \in DOMAIN wire : wire[k] \in Ids
           /\ Len(list) \in Nat /\ DOMAIN list = 1..Len(list)
           /\ \A k \in DOMAIN list : list[k] \in Entries
           /\ Len(fetch.list) \in Nat /\ DOMAIN fetch.list = 1..Len(fetch.list)
           /\ \A k \in DOMAIN fetch.list : fetch.list[k] \in Entries
           /\ \A c \in Clicks : click[c] \in Mark
<1>1. notes \in Seq(Note) /\ wire \in Seq(Ids) /\ list \in Seq(Entries) /\ fetch.list \in Seq(Entries)
  BY DEF TypeOK, Note
<1>2. Len(notes) \in Nat /\ DOMAIN notes = 1..Len(notes)
  BY <1>1, LenProperties
<1>3. \A i \in Ids : notes[i] \in Note
  BY <1>1, <1>2, ElementOfSeq DEF Ids
<1>4. /\ Len(wire) \in Nat /\ DOMAIN wire = 1..Len(wire) /\ \A k \in DOMAIN wire : wire[k] \in Ids
  BY <1>1, LenProperties, ElementOfSeq
<1>5. /\ Len(list) \in Nat /\ DOMAIN list = 1..Len(list)
      /\ \A k \in DOMAIN list : list[k] \in Entries
  BY <1>1, LenProperties, ElementOfSeq
<1>6. /\ Len(fetch.list) \in Nat /\ DOMAIN fetch.list = 1..Len(fetch.list)
      /\ \A k \in DOMAIN fetch.list : fetch.list[k] \in Entries
  BY <1>1, LenProperties, ElementOfSeq
<1>7. \A c \in Clicks : click[c] \in Mark
  BY DEF TypeOK, Mark
<1>8. QED  BY <1>1, <1>2, <1>3, <1>4, <1>5, <1>6, <1>7 DEF Ids

\* A function on 1..n is a sequence of that length.
LEMMA FunctionIsSeq ==
    ASSUME NEW S, NEW n \in Nat, NEW f \in [1..n -> S]
    PROVE  f \in Seq(S) /\ Len(f) = n
<1>1. f \in Seq(S)
  BY SeqDef
<1>2. DOMAIN f = 1..n /\ DOMAIN f = 1..Len(f) /\ Len(f) \in Nat
  BY <1>1, LenProperties
<1>3. QED  BY <1>2

\* What holds of entries and of the wire stays so when rows are only added.
LEMMA EntriesStay ==
    ASSUME TypeOK, Ids \subseteq Ids'
    PROVE  /\ Entries \subseteq Entries'
           /\ \A q : q \in Seq(Entries) => q \in Seq(Entries)'
           /\ \A q : q \in Seq(Ids) => q \in Seq(Ids)'
<1>1. Entries \subseteq Entries'
  BY DEF Entries
<1>2. QED  BY <1>1, SeqMonotonic

LEMMA CreateShape ==
    ASSUME TypeOK, CreateNotification
    PROVE  /\ notes' \in Seq(Note) /\ Len(notes') = Len(notes) + 1
           /\ Ids' = Ids \cup {Len(notes) + 1} /\ Len(notes) + 1 \notin Ids
           /\ \A i \in Ids : notes'[i] = notes[i]
           /\ LET note == notes'[Len(notes) + 1] IN
              /\ note.read = "no" /\ note.stage = Stage /\ ~note.early
              /\ note.late = (\E c \in Clicks : click[c].pc = "answered" /\ click[c].all)
<1> DEFINE n == Len(notes)
           late == \E c \in Clicks : click[c].pc = "answered" /\ click[c].all
           new == [read |-> "no", stage |-> Stage, early |-> FALSE, late |-> late]
<1>1. notes \in Seq(Note) /\ n \in Nat /\ Ids = 1..n
  BY Shapes
<1>2. late \in BOOLEAN
  OBVIOUS
<1>3. new \in Note
  BY <1>2 DEF Note, Stage
<1>4. notes' = Append(notes, new)
  BY DEF CreateNotification
<1>5. /\ new.read = "no" /\ new.stage = Stage /\ ~new.early
      /\ new.late = late
  OBVIOUS
<1> HIDE DEF new
<1>6. /\ notes' \in Seq(Note) /\ Len(notes') = n + 1
      /\ \A i \in 1..n : notes'[i] = notes[i]
      /\ notes'[n + 1] = new
  BY <1>1, <1>3, <1>4, AppendProperties
<1>7. Ids' = 1..n + 1
  BY <1>1, <1>6, LenProperties DEF Ids
<1>8. Ids' = Ids \cup {n + 1} /\ n + 1 \notin Ids
  BY <1>1, <1>7
<1>9. /\ notes' \in Seq(Note) /\ Len(notes') = n + 1
      /\ \A i \in Ids : notes'[i] = notes[i]
  BY <1>1, <1>6
<1> HIDE DEF late
<1>10. LET note == notes'[n + 1] IN
       note.read = "no" /\ note.stage = Stage /\ ~note.early /\ note.late = late
  BY <1>5, <1>6
<1>11. QED  BY <1>8, <1>9, <1>10 DEF late

LEMMA MarkServedShape ==
    ASSUME TypeOK, NEW c \in Clicks, MarkServed(c)
    PROVE  /\ notes' \in Seq(Note) /\ Ids' = Ids /\ Len(notes') = Len(notes)
           /\ \A i \in Ids :
                /\ notes'[i].stage = notes[i].stage /\ notes'[i].late = notes[i].late
                /\ IF notes[i].read = "no" /\ Touches(click[c], i)
                   THEN notes'[i].read = "here" /\ notes'[i].early = ~Delivered(i)
                   ELSE notes'[i] = notes[i]
<1>1. /\ Len(notes) \in Nat /\ Ids = 1..Len(notes) /\ \A i \in Ids : notes[i] \in Note
  BY Shapes
<1> DEFINE new(i) == [notes[i] EXCEPT !.read = "here", !.early = ~Delivered(i)]
<1>2. \A i \in Ids : Delivered(i) \in BOOLEAN
  BY DEF Delivered, Contains
<1>3. \A i \in Ids : /\ new(i) \in Note /\ new(i).read = "here" /\ new(i).early = ~Delivered(i)
                     /\ new(i).stage = notes[i].stage /\ new(i).late = notes[i].late
  BY <1>1, <1>2 DEF Note
<1>4. notes' = [i \in Ids |-> IF notes[i].read = "no" /\ Touches(click[c], i) THEN new(i) ELSE notes[i]]
  BY DEF MarkServed, Touches
<1> HIDE DEF new
<1>5. notes' \in [1..Len(notes) -> Note]
  BY <1>1, <1>3, <1>4
<1>6. notes' \in Seq(Note) /\ Len(notes') = Len(notes) /\ Ids' = Ids
  BY <1>1, <1>5, FunctionIsSeq DEF Ids
<1>7. QED  BY <1>3, <1>4, <1>6

LEMMA ElsewhereShape ==
    ASSUME TypeOK, NEW i \in Ids, MarkedElsewhere(i)
    PROVE  /\ notes' \in Seq(Note) /\ Ids' = Ids /\ Len(notes') = Len(notes)
           /\ notes'[i].read = "elsewhere"
           /\ notes'[i].stage = notes[i].stage /\ notes'[i].late = notes[i].late
           /\ \A j \in Ids : j # i => notes'[j] = notes[j]
<1>1. /\ notes \in Seq(Note) /\ Len(notes) \in Nat /\ Ids = 1..Len(notes) /\ notes[i] \in Note
  BY Shapes
<1> DEFINE new == [notes[i] EXCEPT !.read = "elsewhere"]
<1>2. new \in Note /\ new.read = "elsewhere" /\ new.stage = notes[i].stage /\ new.late = notes[i].late
  BY <1>1 DEF Note
<1>3. notes' = [notes EXCEPT ![i] = new]
  BY DEF MarkedElsewhere
<1> HIDE DEF new
<1>4. /\ notes' \in Seq(Note) /\ Len(notes') = Len(notes)
      /\ \A j \in 1..Len(notes) : notes'[j] = IF j = i THEN new ELSE notes[j]
  BY <1>1, <1>2, <1>3, ExceptSeq
<1>5. Ids' = Ids
  BY <1>1, <1>4, LenProperties DEF Ids
<1>6. QED  BY <1>1, <1>2, <1>4, <1>5

LEMMA EmitShape ==
    ASSUME TypeOK, NEW i \in unsent, EmitNotification(i)
    PROVE  /\ wire' \in Seq(Ids)
           /\ ~connected => wire' = wire
           /\ connected => /\ Len(wire') = Len(wire) + 1 /\ wire'[Len(wire) + 1] = i
                           /\ DOMAIN wire' = 1..Len(wire) + 1
                           /\ \A k \in DOMAIN wire : wire'[k] = wire[k]
<1>1. wire \in Seq(Ids) /\ i \in Ids /\ DOMAIN wire = 1..Len(wire)
  BY Shapes DEF TypeOK
<1>2. connected => wire' = Append(wire, i)
  BY DEF EmitNotification
<1>3. ~connected => wire' = wire
  BY DEF EmitNotification
<1>4. CASE connected
  <2>1. /\ wire' \in Seq(Ids) /\ Len(wire') = Len(wire) + 1 /\ wire'[Len(wire) + 1] = i
        /\ \A k \in 1..Len(wire) : wire'[k] = wire[k]
    BY <1>1, <1>2, <1>4, AppendProperties
  <2>2. DOMAIN wire' = 1..Len(wire')
    BY <2>1, LenProperties
  <2>3. QED  BY <1>1, <1>4, <2>1, <2>2
<1>5. QED  BY <1>1, <1>3, <1>4

LEMMA PushShape ==
    ASSUME TypeOK, HandlePush
    PROVE  /\ Len(wire) # 0 /\ Head(wire) = wire[1] /\ Head(wire) \in Ids
           /\ wire' \in Seq(Ids) /\ Len(wire') = Len(wire) - 1 /\ DOMAIN wire' = 1..Len(wire) - 1
           /\ \A k \in DOMAIN wire' : wire'[k] = wire[k + 1]
           /\ list' \in Seq(Entries) /\ Len(list') = Len(list) + 1 /\ DOMAIN list' = 1..Len(list) + 1
           /\ list'[1] = [id |-> Head(wire), read |-> FALSE]
           /\ \A k \in 1..Len(list) : list'[k + 1] = list[k]
           /\ \A k \in DOMAIN list' : k # 1 => k - 1 \in DOMAIN list /\ list'[k] = list[k - 1]
<1> DEFINE n == Len(list)
           e == [id |-> Head(wire), read |-> FALSE]
<1>1. /\ wire \in Seq(Ids) /\ wire # <<>> /\ wire' = Tail(wire)
      /\ list \in Seq(Entries) /\ list' = <<e>> \o list
      /\ n \in Nat /\ DOMAIN list = 1..n
  BY Shapes DEF TypeOK, HandlePush, WithPush
<1>2. /\ Head(wire) \in Ids /\ wire' \in Seq(Ids) /\ Len(wire') = Len(wire) - 1
      /\ \A k \in 1..Len(wire') : wire'[k] = wire[k + 1]
      /\ Len(wire) \in Nat \ {0} /\ Head(wire) = wire[1]
  BY <1>1, HeadTailProperties, EmptySeq
<1>3. DOMAIN wire' = 1..Len(wire')
  BY <1>2, LenProperties
<1>4. e \in Entries
  BY <1>2 DEF Entries
<1> HIDE DEF e
<1>5. <<e>> \in Seq(Entries) /\ Len(<<e>>) = 1 /\ <<e>>[1] = e
  BY <1>4
<1>6. /\ list' \in Seq(Entries) /\ Len(list') = 1 + n
      /\ \A k \in 1..1 + n : list'[k] = IF k <= 1 THEN <<e>>[k] ELSE list[k - 1]
  BY <1>1, <1>5, ConcatProperties
<1>7. DOMAIN list' = 1..1 + n
  BY <1>6, LenProperties
<1>8. list'[1] = e /\ \A k \in 1..n : list'[k + 1] = list[k]
  <2>1. list'[1] = e
    BY <1>1, <1>5, <1>6
  <2>2. ASSUME NEW k \in 1..n PROVE list'[k + 1] = list[k]
    <3>1. k + 1 \in 1..1 + n /\ ~(k + 1 <= 1) /\ (k + 1) - 1 = k
      BY <1>1
    <3>2. QED  BY <1>6, <3>1
  <2>3. QED  BY <2>1, <2>2
<1>9. \A k \in DOMAIN list' : k # 1 => k - 1 \in DOMAIN list /\ list'[k] = list[k - 1]
  BY <1>1, <1>6, <1>7
<1>10. QED  BY <1>1, <1>2, <1>3, <1>6, <1>7, <1>8, <1>9 DEF e

LEMMA AnsweredShape ==
    ASSUME TypeOK, NEW c \in Clicks, MarkAnswered(c)
    PROVE  /\ list' \in Seq(Entries) /\ Len(list') = Len(list) /\ DOMAIN list' = DOMAIN list
           /\ \A k \in DOMAIN list :
                /\ list'[k].id = list[k].id
                /\ list'[k].read = (list[k].read \/ Touches(click[c], list[k].id))
<1>1. Len(list) \in Nat /\ DOMAIN list = 1..Len(list) /\ \A k \in DOMAIN list : list[k] \in Entries
  BY Shapes
<1> DEFINE new(k) == [list[k] EXCEPT !.read = list[k].read \/ Touches(click[c], list[k].id)]
<1>2. \A k \in DOMAIN list : (list[k].read \/ Touches(click[c], list[k].id)) \in BOOLEAN
  OBVIOUS
<1>3. \A k \in DOMAIN list :
        /\ new(k) \in Entries /\ new(k).id = list[k].id
        /\ new(k).read = (list[k].read \/ Touches(click[c], list[k].id))
  BY <1>1, <1>2 DEF Entries
<1>4. list' = [k \in DOMAIN list |-> new(k)]
  BY DEF MarkAnswered
<1> HIDE DEF new
<1>5. list' \in [1..Len(list) -> Entries]
  BY <1>1, <1>3, <1>4
<1>6. list' \in Seq(Entries) /\ Len(list') = Len(list) /\ DOMAIN list' = DOMAIN list
  BY <1>1, <1>5, FunctionIsSeq
<1>7. QED  BY <1>3, <1>4, <1>6

LEMMA NewestShape ==
    ASSUME TypeOK
    PROVE  LET n == Len(notes)
               m == IF n <= PageSize THEN n ELSE PageSize IN
           /\ Newest \in Seq(Entries) /\ Len(Newest) = m /\ DOMAIN Newest = 1..m
           /\ \A k \in 1..m : /\ n + 1 - k \in Ids /\ Newest[k].id = n + 1 - k
                              /\ Newest[k].read = (notes[n + 1 - k].read # "no")
<1> DEFINE n == Len(notes)
           m == IF n <= PageSize THEN n ELSE PageSize
<1>1. n \in Nat /\ Ids = 1..n /\ PageSize \in Nat /\ m \in Nat /\ m <= n
  BY Shapes, BellAssumption
<1> DEFINE entry(k) == [id |-> n + 1 - k, read |-> notes[n + 1 - k].read # "no"]
<1>2. Newest = [k \in 1..m |-> entry(k)]
  BY DEF Newest
<1>3. \A k \in 1..m : n + 1 - k \in Ids
  BY <1>1
<1>4. \A k \in 1..m : entry(k) \in Entries
  BY <1>3 DEF Entries
<1>5. \A k \in 1..m : entry(k).id = n + 1 - k /\ entry(k).read = (notes[n + 1 - k].read # "no")
  OBVIOUS
<1> HIDE DEF entry, n, m
<1>6. Newest \in [1..m -> Entries]
  BY <1>2, <1>4
<1>7. Newest \in Seq(Entries) /\ Len(Newest) = m /\ DOMAIN Newest = 1..m
  BY <1>1, <1>6, FunctionIsSeq
<1>8. QED  BY <1>2, <1>3, <1>5, <1>7 DEF m, n
-------------------------------------------------------------------------------
\* What no step undoes: a notification stays, with its history, and stays read.
LEMMA RowsStay ==
    ASSUME TypeOK, [Next]_vars
    PROVE  /\ Ids \subseteq Ids' /\ (Ids' = Ids \/ CreateNotification)
           /\ \A i \in Ids : /\ notes[i].read # "no" => notes'[i].read # "no"
                             /\ notes'[i].late = notes[i].late
                             /\ notes'[i].stage = notes[i].stage
<1>1. CASE CreateNotification
  BY <1>1, CreateShape
<1>2. ASSUME NEW c \in Clicks, MarkServed(c)
      PROVE  /\ Ids \subseteq Ids' /\ (Ids' = Ids \/ CreateNotification)
             /\ \A i \in Ids : /\ notes[i].read # "no" => notes'[i].read # "no"
                               /\ notes'[i].late = notes[i].late
                               /\ notes'[i].stage = notes[i].stage
  BY <1>2, MarkServedShape
<1>3. ASSUME NEW i \in Ids, MarkedElsewhere(i)
      PROVE  /\ Ids \subseteq Ids' /\ (Ids' = Ids \/ CreateNotification)
             /\ \A j \in Ids : /\ notes[j].read # "no" => notes'[j].read # "no"
                               /\ notes'[j].late = notes[j].late
                               /\ notes'[j].stage = notes[j].stage
  <2>1. \A j \in Ids : j = i \/ notes'[j] = notes[j]
    BY <1>3, ElsewhereShape
  <2>2. QED  BY <1>3, <2>1, ElsewhereShape
<1>4. CASE UNCHANGED notes
  BY <1>4 DEF Ids
<1>5. QED
  BY <1>1, <1>2, <1>3, <1>4
  DEF Next, vars, EmitNotification, EmitFails, ListNotifications, ListArrives, FetchFails,
      HandlePush, ClickOne, ClickAll, MarkAnswered, MarkFails, Lose, Connect

\* A request keeps what it is about until its answer has been handled.
LEMMA MarksStay ==
    ASSUME TypeOK, Fits, [Next]_vars
    PROVE  /\ click' \in [Clicks -> Mark]
           /\ \A c \in Clicks :
                \/ click'[c] = click[c]
                \/ /\ click[c].pc = "idle" /\ click'[c].pc = "sent"
                   /\ ~click'[c].all => click'[c].id \in Ids
                \/ /\ MarkServed(c) /\ click'[c].pc = "answered"
                   /\ click'[c].all = click[c].all /\ click'[c].id = click[c].id
                \/ (MarkAnswered(c) \/ MarkFails(c)) /\ click'[c].pc = "idle"
           /\ \A c \in Clicks : MarkServed(c) =>
                click'[c].pc = "answered" /\ click'[c].all = click[c].all /\ click'[c].id = click[c].id
<1>1. click \in [Clicks -> Mark] /\ Ids \subseteq 0..MaxNotes
  <2>1. Len(notes) \in Nat /\ Ids = 1..Len(notes) /\ Len(notes) <= MaxNotes /\ MaxNotes \in Nat
    BY Shapes, BellAssumption DEF Fits
  <2>2. QED  BY <2>1 DEF TypeOK, Mark
<1>2. NoClick \in Mark /\ NoClick.pc = "idle"
  BY <1>1, BellAssumption DEF NoClick, Mark
<1>3. ASSUME NEW c \in Clicks, MarkServed(c)
      PROVE  /\ click' \in [Clicks -> Mark] /\ click'[c].pc = "answered"
             /\ click'[c].all = click[c].all /\ click'[c].id = click[c].id
             /\ \A b \in Clicks : b # c => click'[b] = click[b]
  <2> DEFINE new == [click[c] EXCEPT !.pc = "answered"]
  <2>1. new \in Mark /\ new.pc = "answered" /\ new.all = click[c].all /\ new.id = click[c].id
    BY <1>1 DEF Mark
  <2>2. click' = [click EXCEPT ![c] = new]
    BY <1>3 DEF MarkServed
  <2> HIDE DEF new
  <2>3. QED  BY <1>1, <2>1, <2>2
<1>4. ASSUME NEW c \in Clicks, NEW i \in Ids, ClickOne(c, i)
      PROVE  /\ click' \in [Clicks -> Mark] /\ click[c].pc = "idle" /\ click'[c].pc = "sent"
             /\ click'[c].id \in Ids
             /\ \A b \in Clicks : b # c => click'[b] = click[b]
  <2> DEFINE new == [pc |-> "sent", all |-> FALSE, id |-> i]
  <2>1. new \in Mark /\ new.pc = "sent" /\ new.id \in Ids
    BY <1>1 DEF Mark
  <2>2. click' = [click EXCEPT ![c] = new] /\ click[c].pc = "idle"
    BY <1>4 DEF ClickOne
  <2> HIDE DEF new
  <2>3. QED  BY <1>1, <2>1, <2>2
<1>5. ASSUME NEW c \in Clicks, ClickAll(c)
      PROVE  /\ click' \in [Clicks -> Mark] /\ click[c].pc = "idle" /\ click'[c].pc = "sent"
             /\ click'[c].all
             /\ \A b \in Clicks : b # c => click'[b] = click[b]
  <2> DEFINE new == [pc |-> "sent", all |-> TRUE, id |-> 0]
  <2>1. new \in Mark /\ new.pc = "sent" /\ new.all
    BY BellAssumption DEF Mark
  <2>2. click' = [click EXCEPT ![c] = new] /\ click[c].pc = "idle"
    BY <1>5 DEF ClickAll
  <2> HIDE DEF new
  <2>3. QED  BY <1>1, <2>1, <2>2
<1>6. ASSUME NEW c \in Clicks, MarkAnswered(c) \/ MarkFails(c)
      PROVE  /\ click' \in [Clicks -> Mark] /\ click'[c].pc = "idle"
             /\ \A b \in Clicks : b # c => click'[b] = click[b]
  <2>1. click' = [click EXCEPT ![c] = NoClick]
    BY <1>6 DEF MarkAnswered, MarkFails
  <2>2. QED  BY <1>1, <1>2, <2>1
<1>7. /\ click' \in [Clicks -> Mark]
      /\ \A c \in Clicks :
                \/ click'[c] = click[c]
                \/ /\ click[c].pc = "idle" /\ click'[c].pc = "sent"
                   /\ ~click'[c].all => click'[c].id \in Ids
                \/ /\ MarkServed(c) /\ click'[c].pc = "answered"
                   /\ click'[c].all = click[c].all /\ click'[c].id = click[c].id
                \/ (MarkAnswered(c) \/ MarkFails(c)) /\ click'[c].pc = "idle"
  <2>1. CASE UNCHANGED click
    BY <1>1, <2>1
  <2>2. CASE \E c \in Clicks : MarkServed(c)
    BY <2>2, <1>3
  <2>3. CASE \E c \in Clicks, i \in Ids : ClickOne(c, i)
    BY <2>3, <1>4
  <2>4. CASE \E c \in Clicks : ClickAll(c)
    BY <2>4, <1>5
  <2>5. CASE \E c \in Clicks : MarkAnswered(c) \/ MarkFails(c)
    BY <2>5, <1>6
  <2>6. QED
    BY <2>1, <2>2, <2>3, <2>4, <2>5
    DEF Next, vars, CreateNotification, EmitNotification, EmitFails, ListNotifications,
        MarkedElsewhere, ListArrives, FetchFails, HandlePush, Lose, Connect
<1>8. QED  BY <1>3, <1>7

LEMMA TypedStep ==
    ASSUME TypeOK, Fits, [Next]_vars
    PROVE  TypeOK'
<1>1. /\ Ids \subseteq Ids' /\ Entries \subseteq Entries'
      /\ \A q : q \in Seq(Entries) => q \in Seq(Entries)'
      /\ \A q : q \in Seq(Ids) => q \in Seq(Ids)'
  BY RowsStay, EntriesStay
<1>2. click' \in [Clicks -> [pc : {"idle", "sent", "answered"}, all : BOOLEAN, id : 0..MaxNotes]]
  BY MarksStay DEF Mark
<1>3. notes' \in Seq([read : {"no", "here", "elsewhere"}, early : BOOLEAN, late : BOOLEAN,
                      stage : {"asked", "between", "settled"}])
  <2>1. notes \in Seq(Note)
    BY Shapes
  <2>2. CASE CreateNotification
    BY <2>2, CreateShape DEF Note
  <2>3. ASSUME NEW c \in Clicks, MarkServed(c) PROVE notes' \in Seq(Note)
    BY <2>3, MarkServedShape
  <2>4. ASSUME NEW i \in Ids, MarkedElsewhere(i) PROVE notes' \in Seq(Note)
    BY <2>4, ElsewhereShape
  <2>5. CASE UNCHANGED notes
    BY <2>1, <2>5 DEF Note
  <2>6. QED
    BY <2>2, <2>3, <2>4, <2>5
    DEF Note, Next, vars, EmitNotification, EmitFails, ListNotifications, ListArrives, FetchFails,
        HandlePush, ClickOne, ClickAll, MarkAnswered, MarkFails, Lose, Connect
<1>4. unsent' \subseteq Ids'
  <2>1. unsent \subseteq Ids
    BY DEF TypeOK
  <2>2. CASE CreateNotification
    BY <2>1, <2>2, CreateShape DEF CreateNotification
  <2>3. CASE unsent' \subseteq unsent
    BY <1>1, <2>1, <2>3
  <2>4. QED
    BY <2>2, <2>3
    DEF Next, vars, EmitNotification, EmitFails, ListNotifications, ListArrives, FetchFails,
        HandlePush, ClickOne, ClickAll, MarkAnswered, MarkFails, Lose, Connect, MarkServed, MarkedElsewhere
<1>5. wire' \in Seq(Ids')
  <2>1. wire \in Seq(Ids)
    BY DEF TypeOK
  <2>2. ASSUME NEW i \in unsent, EmitNotification(i) PROVE wire' \in Seq(Ids')
    BY <1>1, <2>2, EmitShape
  <2>3. CASE HandlePush
    BY <1>1, <2>3, PushShape
  <2>4. CASE wire' = wire
    BY <1>1, <2>1, <2>4
  <2>5. CASE wire' = <<>>
    BY <2>5
  <2>6. QED
    BY <2>2, <2>3, <2>4, <2>5
    DEF Next, vars, CreateNotification, EmitFails, ListNotifications, ListArrives, FetchFails,
        ClickOne, ClickAll, MarkAnswered, MarkFails, Lose, Connect, MarkServed, MarkedElsewhere
<1>6. /\ fetch'.pc \in {"asked", "answered", "done", "failed"}
      /\ fetch'.list \in Seq(Entries)' /\ Len(fetch'.list) <= PageSize
  <2>1. /\ fetch.pc \in {"asked", "answered", "done", "failed"}
        /\ fetch.list \in Seq(Entries)' /\ Len(fetch.list) <= PageSize
    BY <1>1 DEF TypeOK
  <2>2. CASE ListNotifications
    <3>1. Newest \in Seq(Entries)' /\ Len(Newest) <= PageSize
      BY <1>1, NewestShape, Shapes, BellAssumption
    <3>2. QED  BY <2>2, <3>1 DEF ListNotifications
  <2>3. CASE ListArrives \/ FetchFails
    <3>1. fetch'.pc \in {"done", "failed"} /\ fetch'.list = <<>>
      BY <2>3 DEF ListArrives, FetchFails
    <3>2. QED  BY <3>1, BellAssumption
  <2>4. CASE UNCHANGED fetch
    BY <2>1, <2>4
  <2>5. QED
    BY <2>2, <2>3, <2>4
    DEF Next, vars, CreateNotification, EmitNotification, EmitFails, HandlePush,
        ClickOne, ClickAll, MarkAnswered, MarkFails, Lose, Connect, MarkServed, MarkedElsewhere
<1>7. list' \in Seq(Entries)'
  <2>1. list \in Seq(Entries)' /\ fetch.list \in Seq(Entries)'
    BY <1>1 DEF TypeOK
  <2>2. CASE HandlePush
    BY <1>1, <2>2, PushShape
  <2>3. ASSUME NEW c \in Clicks, MarkAnswered(c) PROVE list' \in Seq(Entries)'
    BY <1>1, <2>3, AnsweredShape
  <2>4. CASE ListArrives
    BY <2>1, <2>4 DEF ListArrives
  <2>5. CASE UNCHANGED list
    BY <2>1, <2>5
  <2>6. QED
    BY <2>2, <2>3, <2>4, <2>5
    DEF Next, vars, CreateNotification, EmitNotification, EmitFails, ListNotifications, FetchFails,
        ClickOne, ClickAll, MarkFails, Lose, Connect, MarkServed, MarkedElsewhere
<1>8. connected' \in BOOLEAN /\ lost' \in BOOLEAN
  BY DEF TypeOK, Next, vars, CreateNotification, EmitNotification, EmitFails, ListNotifications, FetchFails,
         ListArrives, HandlePush,
         ClickOne, ClickAll, MarkAnswered, MarkFails, Lose, Connect, MarkServed, MarkedElsewhere
<1>9. QED
  BY <1>2, <1>3, <1>4, <1>5, <1>6, <1>7, <1>8 DEF TypeOK
-------------------------------------------------------------------------------
\* Where entries of the list come from.
LEMMA ListSteps ==
    ASSUME [Next]_vars
    PROVE  \/ UNCHANGED list
           \/ ListArrives
           \/ HandlePush
           \/ \E c \in Clicks : MarkAnswered(c)
BY DEF Next, vars, CreateNotification, EmitNotification, EmitFails, ListNotifications, FetchFails,
       ClickOne, ClickAll, MarkFails, Lose, Connect, MarkServed, MarkedElsewhere

LEMMA ReadStep ==
    ASSUME TypeOK, Fits, ReadIsRead, [Next]_vars
    PROVE  ReadIsRead'
<1>1. ASSUME NEW c \in Clicks PROVE Marked(c)'
  <2>1. Marked(c) /\ click' \in [Clicks -> Mark]
    BY MarksStay DEF ReadIsRead
  <2>2. click'[c].pc # "idle" /\ ~click'[c].all => click'[c].id \in Ids'
    <3>1. MarkServed(c) => click[c].pc # "idle"
      BY DEF MarkServed
    <3>2. QED  BY <2>1, <3>1, MarksStay, RowsStay DEF Marked
  <2>3. ASSUME click'[c].pc = "answered", NEW i \in Ids', Touches(click'[c], i)
        PROVE  notes'[i].read # "no" \/ notes'[i].late
    <3>1. CASE i \in Ids /\ click'[c] = click[c]
      <4>1. notes[i].read # "no" \/ notes[i].late
        BY <2>1, <2>3, <3>1 DEF Marked
      <4>2. QED  BY <3>1, <4>1, RowsStay
    <3>2. CASE i \in Ids /\ MarkServed(c) /\ click'[c].all = click[c].all /\ click'[c].id = click[c].id
      <4>1. Touches(click[c], i)
        BY <2>3, <3>2 DEF Touches
      <4>2. QED  BY <3>2, <4>1, MarkServedShape
    <3>3. CASE i \notin Ids
      <4>1. CreateNotification /\ click' = click
        BY <3>3, RowsStay DEF CreateNotification
      <4>2. click[c].all
        BY <2>1, <2>3, <3>3, <4>1 DEF Marked, Touches
      <4>3. i = Len(notes) + 1
        BY <3>3, <4>1, CreateShape
      <4>4. \E b \in Clicks : click[b].pc = "answered" /\ click[b].all
        BY <2>3, <4>1, <4>2
      <4>5. QED  BY <4>1, <4>3, <4>4, CreateShape
    <3>4. QED  BY <2>3, <3>1, <3>2, <3>3, MarksStay
  <2>4. QED  BY <2>2, <2>3 DEF Marked
<1>2. ASSUME NEW k \in DOMAIN fetch'.list, fetch'.list[k].read
      PROVE  notes'[fetch'.list[k].id].read # "no"
  <2>1. CASE UNCHANGED fetch
    <3>1. fetch.list[k].id \in Ids /\ notes[fetch.list[k].id].read # "no"
      BY <1>2, <2>1, Shapes DEF ReadIsRead, Entries
    <3>2. QED  BY <2>1, <3>1, RowsStay
  <2>2. CASE ListNotifications
    <3>1. fetch'.list = Newest /\ notes' = notes
      BY <2>2 DEF ListNotifications
    <3>2. QED  BY <1>2, <3>1, NewestShape
  <2>3. CASE ListArrives \/ FetchFails
    <3>1. fetch'.list = <<>>
      BY <2>3 DEF ListArrives, FetchFails
    <3>2. QED  BY <1>2, <3>1
  <2>4. QED
    BY <2>1, <2>2, <2>3
    DEF Next, vars, CreateNotification, EmitNotification, EmitFails, HandlePush,
        ClickOne, ClickAll, MarkAnswered, MarkFails, Lose, Connect, MarkServed, MarkedElsewhere
<1>3. ASSUME NEW k \in DOMAIN list', list'[k].read
      PROVE  notes'[list'[k].id].read # "no" \/ notes'[list'[k].id].late
  <2>1. CASE UNCHANGED list
    <3>1. list[k].id \in Ids /\ (notes[list[k].id].read # "no" \/ notes[list[k].id].late)
      BY <1>3, <2>1, Shapes DEF ReadIsRead, NothingHidden, Entries
    <3>2. QED  BY <2>1, <3>1, RowsStay
  <2>2. CASE ListArrives
    <3>1. list' = fetch.list /\ notes' = notes
      BY <2>2 DEF ListArrives
    <3>2. QED  BY <1>3, <3>1 DEF ReadIsRead
  <2>3. CASE HandlePush
    <3>1. k # 1 /\ k - 1 \in DOMAIN list /\ list'[k] = list[k - 1]
      BY <1>3, <2>3, PushShape
    <3>2. notes' = notes
      BY <2>3 DEF HandlePush
    <3>3. QED  BY <1>3, <3>1, <3>2 DEF ReadIsRead, NothingHidden
  <2>4. ASSUME NEW c \in Clicks, MarkAnswered(c)
        PROVE  notes'[list'[k].id].read # "no" \/ notes'[list'[k].id].late
    <3>1. /\ k \in DOMAIN list /\ list'[k].id = list[k].id /\ list[k].id \in Ids
          /\ list[k].read \/ Touches(click[c], list[k].id)
      BY <1>3, <2>4, AnsweredShape, Shapes DEF Entries
    <3>2. click[c].pc = "answered" /\ notes' = notes
      BY <2>4 DEF MarkAnswered
    <3>3. QED  BY <3>1, <3>2 DEF ReadIsRead, NothingHidden, Marked
  <2>5. QED  BY <2>1, <2>2, <2>3, <2>4, ListSteps
<1>4. QED  BY <1>1, <1>2, <1>3 DEF ReadIsRead, NothingHidden
-------------------------------------------------------------------------------
\* What moves a notification that is in its handler, in the wire or in the list.
LEMMA PlaceSteps ==
    ASSUME TypeOK, ~lost', [Next]_vars
    PROVE  /\ ~lost
           /\ \/ CreateNotification
              \/ \E i \in unsent : EmitNotification(i)
              \/ ListArrives
              \/ HandlePush
              \/ \E c \in Clicks : MarkAnswered(c)
              \/ UNCHANGED <<unsent, wire, list>>
BY DEF TypeOK, Next, vars, CreateNotification, EmitNotification, EmitFails, ListNotifications, FetchFails,
       ListArrives, HandlePush, MarkAnswered,
       ClickOne, ClickAll, MarkFails, Lose, Connect, MarkServed, MarkedElsewhere

LEMMA EmitKeepsOnce ==
    ASSUME TypeOK, NEW i \in Ids, Once(i), connected, NEW j \in unsent, EmitNotification(j)
    PROVE  Once(i)'
<1>1. /\ unsent' = unsent \ {j} /\ list' = list /\ DOMAIN wire = 1..Len(wire) /\ Len(wire) \in Nat
      /\ DOMAIN wire' = 1..Len(wire) + 1 /\ wire'[Len(wire) + 1] = j
      /\ \A k \in DOMAIN wire : wire'[k] = wire[k]
  BY EmitShape, Shapes DEF EmitNotification
<1>2. DOMAIN wire' = DOMAIN wire \cup {Len(wire) + 1}
  BY <1>1
<1>3. ListHas(i)' <=> ListHas(i)
  BY <1>1 DEF ListHas
<1>4. WireHas(i)' <=> WireHas(i) \/ j = i
  BY <1>1, <1>2 DEF WireHas
<1>5. \A k, m \in DOMAIN wire' : wire'[k] = i /\ wire'[m] = i => k = m
  <2>1. j = i => \A k \in DOMAIN wire : wire[k] # i
    BY DEF Once, WireHas
  <2>2. QED  BY <1>1, <1>2, <2>1 DEF Once
<1>6. QED
  BY <1>1, <1>3, <1>4, <1>5 DEF Once

LEMMA PushKeepsOnce ==
    ASSUME TypeOK, NEW i \in Ids, Once(i), HandlePush
    PROVE  Once(i)'
<1>0. /\ Len(wire) \in Nat /\ DOMAIN wire = 1..Len(wire) /\ Len(list) \in Nat /\ DOMAIN list = 1..Len(list)
  BY Shapes
<1>1. /\ unsent' = unsent
      /\ Len(wire) # 0 /\ DOMAIN wire' = 1..Len(wire) - 1
      /\ \A k \in DOMAIN wire' : wire'[k] = wire[k + 1]
      /\ DOMAIN list' = 1..Len(list) + 1
      /\ list'[1].id = wire[1]
      /\ \A k \in DOMAIN list' : k # 1 => k - 1 \in DOMAIN list /\ list'[k] = list[k - 1]
      /\ \A k \in 1..Len(list) : list'[k + 1] = list[k]
  <2>1. unsent' = unsent
    BY DEF HandlePush
  <2>2. list'[1].id = wire[1]
    BY PushShape
  <2>3. QED  BY <2>1, <2>2, PushShape
<1>2. \A k \in DOMAIN wire' : k + 1 \in DOMAIN wire
  BY <1>0, <1>1
<1>3. \A k \in DOMAIN list : k + 1 \in DOMAIN list'
  BY <1>0, <1>1
<1>4. 1 \in DOMAIN wire /\ 1 \in DOMAIN list'
  BY <1>0, <1>1
<1>5. ListHas(i)' <=> ListHas(i) \/ wire[1] = i
  <2>1. ListHas(i) => ListHas(i)'
    <3>1. SUFFICES ASSUME NEW k \in DOMAIN list, list[k].id = i PROVE list'[k + 1].id = i /\ k + 1 \in DOMAIN list'
      BY DEF ListHas
    <3>2. QED  BY <1>0, <1>1, <1>3, <3>1
  <2>2. QED  BY <1>0, <1>1, <1>4, <2>1 DEF ListHas
<1>6. WireHas(i) <=> WireHas(i)' \/ wire[1] = i
  <2>1. \A k \in DOMAIN wire : k = 1 \/ (k - 1 \in DOMAIN wire' /\ wire'[k - 1] = wire[k])
    BY <1>0, <1>1
  <2>2. QED  BY <1>0, <1>1, <1>2, <1>4, <2>1 DEF WireHas
<1>7. wire[1] = i => ~WireHas(i)'
  <2>1. \A k \in DOMAIN wire' : k + 1 # 1
    BY <1>0, <1>1
  <2>2. QED  BY <1>0, <1>1, <1>2, <1>4, <2>1 DEF Once, WireHas
<1>8. \A k, m \in DOMAIN wire' : wire'[k] = i /\ wire'[m] = i => k = m
  <2>1. SUFFICES ASSUME NEW k \in DOMAIN wire', NEW m \in DOMAIN wire', wire'[k] = i, wire'[m] = i
                 PROVE  k = m
    OBVIOUS
  <2>2. k + 1 = m + 1
    BY <1>0, <1>1, <1>2, <2>1 DEF Once
  <2>3. QED  BY <1>0, <1>1, <2>2
<1>9. \A k, m \in DOMAIN list' : list'[k].id = i /\ list'[m].id = i => k = m
  <2>1. SUFFICES ASSUME NEW k \in DOMAIN list', NEW m \in DOMAIN list', list'[k].id = i, list'[m].id = i
                 PROVE  k = m
    OBVIOUS
  <2>2. ASSUME wire[1] = i PROVE k = 1 /\ m = 1
    <3>1. \A n \in DOMAIN list : list[n].id # i
      BY <1>4, <2>2 DEF Once, WireHas, ListHas
    <3>2. QED  BY <1>1, <2>1, <3>1
  <2>3. ASSUME wire[1] # i PROVE k - 1 = m - 1
    <3>1. k # 1 /\ m # 1
      BY <1>1, <2>1, <2>3
    <3>2. /\ k - 1 \in DOMAIN list /\ list[k - 1].id = i
          /\ m - 1 \in DOMAIN list /\ list[m - 1].id = i
      BY <1>1, <2>1, <3>1
    <3>3. QED  BY <3>2 DEF Once
  <2>4. QED  BY <1>0, <1>1, <2>2, <2>3
<1>10. QED
  BY <1>0, <1>1, <1>5, <1>6, <1>7, <1>8, <1>9 DEF Once

LEMMA SettledStep ==
    ASSUME TypeOK, Settled, [Next]_vars
    PROVE  Settled'
<1>1. ASSUME NEW i \in Ids', notes'[i].stage = "settled"
      PROVE  fetch'.pc = "done" /\ (~lost' => connected')
  <2>1. CASE i \in Ids
    <3>1. fetch.pc = "done" /\ (~lost => connected)
      BY <1>1, <2>1, RowsStay DEF Settled
    <3>2. QED
      BY <3>1 DEF TypeOK, Next, vars, CreateNotification, EmitNotification, EmitFails, ListNotifications,
         FetchFails, ListArrives, HandlePush, MarkAnswered,
         ClickOne, ClickAll, MarkFails, Lose, Connect, MarkServed, MarkedElsewhere
  <2>2. CASE i \notin Ids
    <3>1. CreateNotification /\ Stage = "settled"
      BY <1>1, <2>2, RowsStay, CreateShape
    <3>2. QED  BY <3>1 DEF CreateNotification, Stage
  <2>3. QED  BY <2>1, <2>2
<1>2. ASSUME ~lost', NEW i \in Ids', notes'[i].stage = "settled"
      PROVE  Once(i)'
  <2>1. CASE i \in Ids
    <3>1. Once(i) /\ connected /\ fetch.pc = "done"
      BY <1>2, <2>1, RowsStay, PlaceSteps DEF Settled
    <3>2. CASE CreateNotification
      <4>1. i # Len(notes) + 1 /\ unsent' = unsent \cup {Len(notes) + 1} /\ wire' = wire /\ list' = list
        BY <2>1, <3>2, CreateShape DEF CreateNotification
      <4>2. (i \in unsent' <=> i \in unsent) /\ (WireHas(i)' <=> WireHas(i)) /\ (ListHas(i)' <=> ListHas(i))
        BY <4>1 DEF WireHas, ListHas
      <4>3. QED  BY <3>1, <4>1, <4>2 DEF Once
    <3>3. ASSUME NEW j \in unsent, EmitNotification(j) PROVE Once(i)'
      BY <2>1, <3>1, <3>3, EmitKeepsOnce
    <3>4. CASE HandlePush
      BY <2>1, <3>1, <3>4, PushKeepsOnce
    <3>5. ASSUME NEW c \in Clicks, MarkAnswered(c) PROVE Once(i)'
      <4>1. unsent' = unsent /\ wire' = wire
        BY <3>5 DEF MarkAnswered
      <4>2. DOMAIN list' = DOMAIN list /\ \A k \in DOMAIN list : list'[k].id = list[k].id
        BY <3>5, AnsweredShape
      <4>3. (WireHas(i)' <=> WireHas(i)) /\ (ListHas(i)' <=> ListHas(i))
        BY <4>1, <4>2 DEF WireHas, ListHas
      <4>4. QED  BY <3>1, <4>1, <4>2, <4>3 DEF Once
    <3>6. CASE UNCHANGED <<unsent, wire, list>>
      BY <3>1, <3>6 DEF Once, WireHas, ListHas
    <3>7. ~ListArrives
      BY <3>1 DEF ListArrives
    <3>8. QED  BY <1>2, <3>2, <3>3, <3>4, <3>5, <3>6, <3>7, PlaceSteps
  <2>2. CASE i \notin Ids
    <3>1. CreateNotification
      BY <2>2, RowsStay
    <3>2. i \in unsent' /\ wire' = wire /\ list' = list
      BY <2>2, <3>1, CreateShape DEF CreateNotification
    <3>3. ~WireHas(i)' /\ ~ListHas(i)'
      BY <2>2, <3>2, Shapes DEF WireHas, ListHas, Entries
    <3>4. (\A k \in DOMAIN wire' : wire'[k] # i) /\ (\A k \in DOMAIN list' : list'[k].id # i)
      BY <3>3 DEF WireHas, ListHas
    <3>5. QED  BY <3>2, <3>3, <3>4 DEF Once
  <2>3. QED  BY <2>1, <2>2
<1>3. QED  BY <1>1, <1>2 DEF Settled
-------------------------------------------------------------------------------
LEMMA DeliveredStay ==
    ASSUME TypeOK, Seen, [Next]_vars, NEW i \in Ids',
           notes'[i].read = "here", ~notes'[i].early
    PROVE  i \notin unsent' /\ ~WireHas(i)'
<1>1. i \in Ids
  BY RowsStay, CreateShape
<1>2. ASSUME NEW c \in Clicks, MarkServed(c) PROVE i \notin unsent' /\ ~WireHas(i)'
  <2>1. unsent' = unsent /\ (WireHas(i)' <=> WireHas(i))
    BY <1>2 DEF MarkServed, WireHas
  <2>2. CASE notes[i].read = "no" /\ Touches(click[c], i)
    <3>1. Delivered(i)
      BY <1>1, <1>2, <2>2, MarkServedShape
    <3>2. QED  BY <2>1, <3>1, Shapes DEF Delivered, Contains, WireHas
  <2>3. CASE ~(notes[i].read = "no" /\ Touches(click[c], i))
    <3>1. notes'[i] = notes[i]
      BY <1>1, <1>2, <2>3, MarkServedShape
    <3>2. QED  BY <1>1, <2>1, <3>1 DEF Seen
  <2>4. QED  BY <2>2, <2>3
<1>3. ASSUME NEW j \in Ids, MarkedElsewhere(j) PROVE i \notin unsent' /\ ~WireHas(i)'
  <2>1. unsent' = unsent /\ (WireHas(i)' <=> WireHas(i))
    BY <1>3 DEF MarkedElsewhere, WireHas
  <2>2. i # j /\ notes'[i] = notes[i]
    BY <1>1, <1>3, ElsewhereShape
  <2>3. QED  BY <1>1, <2>1, <2>2 DEF Seen
<1>4. ASSUME ~\E c \in Clicks : MarkServed(c), ~\E j \in Ids : MarkedElsewhere(j)
      PROVE  i \notin unsent' /\ ~WireHas(i)'
  <2>1. notes'[i] = notes[i]
    <3>1. CASE CreateNotification
      BY <1>1, <3>1, CreateShape
    <3>2. CASE ~CreateNotification
      BY <1>4, <3>2 DEF Next, vars, EmitNotification, EmitFails, ListNotifications, FetchFails,
         ListArrives, HandlePush, MarkAnswered, ClickOne, ClickAll, MarkFails, Lose, Connect
    <3>3. QED  BY <3>1, <3>2
  <2>2. i \notin unsent /\ ~WireHas(i)
    BY <1>1, <2>1 DEF Seen
  <2>3. CASE CreateNotification
    <3>1. i # Len(notes) + 1 /\ unsent' = unsent \cup {Len(notes) + 1} /\ wire' = wire
      BY <1>1, <2>3, CreateShape DEF CreateNotification
    <3>2. QED  BY <2>2, <3>1 DEF WireHas
  <2>4. ASSUME NEW j \in unsent, EmitNotification(j) PROVE i \notin unsent' /\ ~WireHas(i)'
    <3>1. j # i /\ unsent' = unsent \ {j}
      BY <2>2, <2>4 DEF EmitNotification
    <3>2. CASE connected
      <4>1. /\ DOMAIN wire' = 1..Len(wire) + 1 /\ wire'[Len(wire) + 1] = j
            /\ \A k \in DOMAIN wire : wire'[k] = wire[k]
        BY <2>4, <3>2, EmitShape
      <4>2. Len(wire) \in Nat /\ DOMAIN wire = 1..Len(wire)
        BY Shapes
      <4>3. DOMAIN wire' = DOMAIN wire \cup {Len(wire) + 1}
        BY <4>1, <4>2
      <4>4. QED  BY <2>2, <3>1, <4>1, <4>3 DEF WireHas
    <3>3. CASE ~connected
      BY <2>2, <2>4, <3>1, <3>3, EmitShape DEF WireHas
    <3>4. QED  BY <3>2, <3>3
  <2>5. CASE HandlePush
    <3>1. /\ unsent' = unsent /\ \A k \in DOMAIN wire' : wire'[k] = wire[k + 1] /\ k + 1 \in DOMAIN wire
      BY <2>5, PushShape, Shapes DEF HandlePush
    <3>2. QED  BY <2>2, <3>1 DEF WireHas
  <2>6. CASE unsent' \subseteq unsent /\ (wire' = wire \/ wire' = <<>>)
    BY <2>2, <2>6 DEF WireHas
  <2>7. QED
    BY <1>4, <2>3, <2>4, <2>5, <2>6
    DEF Next, vars, EmitFails, ListNotifications, FetchFails,
        ListArrives, MarkAnswered, ClickOne, ClickAll, MarkFails, Lose, Connect
<1>5. QED  BY <1>2, <1>3, <1>4

\* A notification read here after a step was so before it, or a mark that touches it
\* was served in that step.
LEMMA NewlyRead ==
    ASSUME TypeOK, [Next]_vars, NEW i \in Ids, notes'[i].read = "here", ~notes'[i].early
    PROVE  \/ notes[i].read = "here" /\ ~notes[i].early
           \/ \E c \in Clicks : MarkServed(c) /\ Touches(click[c], i)
<1>1. ASSUME NEW c \in Clicks, MarkServed(c), ~Touches(click[c], i) PROVE notes'[i] = notes[i]
  BY <1>1, MarkServedShape
<1>2. ASSUME NEW c \in Clicks, MarkServed(c), notes[i].read # "no" PROVE notes'[i] = notes[i]
  BY <1>2, MarkServedShape
<1>3. ASSUME NEW j \in Ids, MarkedElsewhere(j) PROVE notes'[i] = notes[i]
  BY <1>3, ElsewhereShape
<1>4. CASE CreateNotification
  BY <1>4, CreateShape
<1>5. QED
  BY <1>1, <1>2, <1>3, <1>4
  DEF Next, vars, EmitNotification, EmitFails, ListNotifications, FetchFails,
      ListArrives, HandlePush, MarkAnswered, ClickOne, ClickAll, MarkFails, Lose, Connect

LEMMA SeenStep ==
    ASSUME TypeOK, Fits, Settled, Seen, [Next]_vars
    PROVE  Seen'
<1>1. ASSUME NEW i \in Ids', notes'[i].read = "here", ~notes'[i].early
      PROVE  i \notin unsent' /\ ~WireHas(i)'
  BY <1>1, DeliveredStay
<1>2. ASSUME ~lost', NEW k \in DOMAIN list', ~list'[k].read,
             notes'[list'[k].id].stage = "settled", notes'[list'[k].id].read = "here",
             ~notes'[list'[k].id].early
      PROVE  \E c \in Clicks : click'[c].pc = "answered" /\ Touches(click'[c], list'[k].id)
  <2> DEFINE i == list'[k].id
  <2>1. ~lost /\ ~lost' /\ \A c \in Clicks : ~MarkFails(c)
    BY <1>2, PlaceSteps DEF MarkFails
  <2>2. ASSUME NEW m \in DOMAIN list, list[m].id = i, ~list[m].read,
               \A c \in Clicks : MarkAnswered(c) => ~Touches(click[c], i)
        PROVE  \E c \in Clicks : click'[c].pc = "answered" /\ Touches(click'[c], i)
    <3>1. i \in Ids /\ notes[i].stage = "settled"
      BY <1>2, <2>2, Shapes, RowsStay DEF Entries
    <3>2. CASE notes[i].read = "here" /\ ~notes[i].early
      <4>1. PICK c \in Clicks : click[c].pc = "answered" /\ Touches(click[c], i)
        BY <2>1, <2>2, <3>1, <3>2 DEF Seen
      <4>2. click'[c] = click[c]
        BY <2>1, <2>2, <4>1, MarksStay DEF MarkServed
      <4>3. QED  BY <4>1, <4>2
    <3>3. ASSUME NEW c \in Clicks, MarkServed(c), Touches(click[c], i)
          PROVE  click'[c].pc = "answered" /\ Touches(click'[c], i)
      BY <3>3, MarksStay DEF Touches
    <3>4. QED  BY <1>2, <3>1, <3>2, <3>3, NewlyRead
  <2>3. CASE UNCHANGED list
    <3>1. k \in DOMAIN list /\ list[k].id = i /\ ~list[k].read
      BY <1>2, <2>3
    <3>2. \A c \in Clicks : MarkAnswered(c) => ~Touches(click[c], i)
      BY <1>2, <2>3, AnsweredShape
    <3>3. QED  BY <2>2, <3>1, <3>2
  <2>4. ASSUME NEW b \in Clicks, MarkAnswered(b)
        PROVE  \E c \in Clicks : click'[c].pc = "answered" /\ Touches(click'[c], i)
    <3>1. k \in DOMAIN list /\ list[k].id = i /\ ~list[k].read
      BY <1>2, <2>4, AnsweredShape
    <3>2. \A c \in Clicks : MarkAnswered(c) => ~Touches(click[c], i)
      BY <1>2, <3>1, AnsweredShape
    <3>3. QED  BY <2>2, <3>1, <3>2
  <2>5. ~ListArrives
    <3>1. SUFFICES ASSUME ListArrives PROVE FALSE
      OBVIOUS
    <3>2. i \in Ids /\ fetch.pc = "answered" /\ notes' = notes
      BY <1>2, <3>1, Shapes DEF ListArrives, Entries
    <3>3. QED  BY <1>2, <3>2 DEF Settled
  <2>6. CASE HandlePush
    <3>1. notes' = notes
      BY <2>6 DEF HandlePush
    <3>2. k # 1
      <4>1. SUFFICES ASSUME k = 1 PROVE FALSE
        OBVIOUS
      <4>2. i \in Ids /\ WireHas(i)
        <5>1. i = wire[1] /\ wire[1] \in Ids /\ Len(wire) # 0
          BY <2>6, <4>1, PushShape
        <5>2. 1 \in DOMAIN wire
          BY <5>1, Shapes
        <5>3. QED  BY <5>1, <5>2 DEF WireHas
      <4>3. QED  BY <1>2, <3>1, <4>2 DEF Seen
    <3>3. k - 1 \in DOMAIN list /\ list[k - 1].id = i /\ ~list[k - 1].read
      BY <1>2, <2>6, <3>2, PushShape
    <3>4. \A c \in Clicks : ~MarkAnswered(c)
      <4>1. Len(wire') = Len(wire) - 1 /\ Len(wire) \in Nat
        BY <2>6, PushShape, Shapes
      <4>2. wire' # wire
        BY <4>1
      <4>3. QED  BY <4>2 DEF MarkAnswered
    <3>5. QED  BY <2>2, <3>3, <3>4
  <2>7. QED  BY <2>3, <2>4, <2>5, <2>6, ListSteps
<1>3. QED  BY <1>1, <1>2 DEF Seen
-------------------------------------------------------------------------------
LEMMA EarlierStay ==
    ASSUME TypeOK, [Next]_vars, fetch.pc # "asked", NEW n \in Nat, Earlier(n)
    PROVE  Earlier(n)'
<1>1. CASE CreateNotification
  <2>1. Len(notes) \in Nat /\ Ids = 1..Len(notes)
    BY Shapes
  <2>2. Len(notes') = Len(notes) + 1 /\ Ids' = Ids \cup {Len(notes) + 1}
    BY <1>1, CreateShape
  <2>3. \A i \in Ids : notes'[i].stage = "asked" <=> i <= n
    BY <1>1, CreateShape DEF Earlier
  <2>4. notes'[Len(notes) + 1].stage # "asked"
    <3>1. Stage # "asked"
      BY DEF Stage
    <3>2. QED  BY <1>1, <3>1, CreateShape
  <2>5. ~(Len(notes) + 1 <= n)
    BY <2>1 DEF Earlier
  <2>6. n \in 0..Len(notes')
    BY <2>1, <2>2 DEF Earlier
  <2>7. QED  BY <2>2, <2>3, <2>4, <2>5, <2>6 DEF Earlier
<1>2. CASE ~CreateNotification
  <2>1. Len(notes') = Len(notes)
    <3>1. CASE \E c \in Clicks : MarkServed(c)
      BY <3>1, MarkServedShape
    <3>2. CASE \E i \in Ids : MarkedElsewhere(i)
      BY <3>2, ElsewhereShape
    <3>3. QED
      BY <1>2, <3>1, <3>2
      DEF Next, vars, EmitNotification, EmitFails, ListNotifications, FetchFails,
          ListArrives, HandlePush, MarkAnswered, ClickOne, ClickAll, MarkFails, Lose, Connect
  <2>2. QED  BY <1>2, <2>1, RowsStay DEF Earlier
<1>3. QED  BY <1>1, <1>2

\* Nothing leaves the list once it was fetched.
LEMMA ListedStay ==
    ASSUME TypeOK, [Next]_vars, fetch.pc = "done", NEW i \in Ids, ListHas(i)
    PROVE  ListHas(i)'
<1>1. PICK k \in DOMAIN list : list[k].id = i
  BY DEF ListHas
<1>2. ~ListArrives
  BY DEF ListArrives
<1>3. CASE HandlePush
  <2>1. /\ Len(list) \in Nat /\ DOMAIN list = 1..Len(list) /\ DOMAIN list' = 1..Len(list) + 1
        /\ \A m \in 1..Len(list) : list'[m + 1] = list[m]
    BY <1>3, PushShape, Shapes
  <2>2. k + 1 \in DOMAIN list' /\ list'[k + 1].id = i
    BY <1>1, <2>1
  <2>3. QED  BY <2>2 DEF ListHas
<1>4. ASSUME NEW c \in Clicks, MarkAnswered(c) PROVE ListHas(i)'
  BY <1>1, <1>4, AnsweredShape DEF ListHas
<1>5. CASE UNCHANGED list
  BY <1>1, <1>5 DEF ListHas
<1>6. QED  BY <1>2, <1>3, <1>4, <1>5, ListSteps

LEMMA FetchSteps ==
    ASSUME [Next]_vars
    PROVE  \/ UNCHANGED fetch
           \/ ListNotifications /\ fetch'.pc = "answered" /\ fetch'.list = Newest
           \/ ListArrives /\ fetch'.pc = "done" /\ fetch'.list = <<>>
           \/ FetchFails /\ fetch'.pc = "failed" /\ fetch'.list = <<>>
<1>1. UNCHANGED fetch \/ ListNotifications \/ ListArrives \/ FetchFails
  BY DEF Next, vars, CreateNotification, EmitNotification, EmitFails, HandlePush,
         ClickOne, ClickAll, MarkAnswered, MarkFails, Lose, Connect, MarkServed, MarkedElsewhere
<1>2. ListNotifications => fetch'.pc = "answered" /\ fetch'.list = Newest
  BY DEF ListNotifications
<1>3. ListArrives => fetch'.pc = "done" /\ fetch'.list = <<>>
  BY DEF ListArrives
<1>4. FetchFails => fetch'.pc = "failed" /\ fetch'.list = <<>>
  BY DEF FetchFails
<1>5. QED  BY <1>1, <1>2, <1>3, <1>4

LEMMA FetchedStep ==
    ASSUME TypeOK, Fetched, [Next]_vars
    PROVE  Fetched'
<1>1. ASSUME fetch'.pc = "asked", NEW i \in Ids' PROVE notes'[i].stage = "asked"
  <2>1. fetch.pc = "asked"
    BY <1>1, FetchSteps
  <2>2. CASE i \in Ids
    BY <2>1, <2>2, RowsStay DEF Fetched
  <2>3. CASE i \notin Ids
    <3>1. CreateNotification /\ Stage = "asked"
      BY <2>1, <2>3, RowsStay DEF Stage
    <3>2. i = Len(notes) + 1
      BY <2>3, <3>1, CreateShape
    <3>3. QED  BY <3>1, <3>2, CreateShape
  <2>4. QED  BY <2>2, <2>3
<1>2. ASSUME fetch'.pc = "answered"
      PROVE  \E n \in Nat :
               /\ Earlier(n)'
               /\ Len(fetch'.list) = (IF n <= PageSize THEN n ELSE PageSize)
               /\ \A k \in 1..Len(fetch'.list) : fetch'.list[k].id = n + 1 - k
  <2>1. CASE UNCHANGED fetch
    <3>1. PICK n \in Nat :
            /\ Earlier(n)
            /\ Len(fetch.list) = (IF n <= PageSize THEN n ELSE PageSize)
            /\ \A k \in 1..Len(fetch.list) : fetch.list[k].id = n + 1 - k
      BY <1>2, <2>1 DEF Fetched
    <3>2. Earlier(n)'
      BY <1>2, <2>1, <3>1, EarlierStay
    <3>3. QED  BY <2>1, <3>1, <3>2
  <2>2. CASE ListNotifications /\ fetch'.list = Newest
    <3> DEFINE n == Len(notes)
    <3>1. n \in Nat /\ Ids = 1..n /\ notes' = notes /\ fetch.pc = "asked"
      BY <2>2, Shapes DEF ListNotifications
    <3>2. /\ Len(Newest) = (IF n <= PageSize THEN n ELSE PageSize)
          /\ \A k \in 1..Len(Newest) : Newest[k].id = n + 1 - k
      BY NewestShape
    <3>3. Earlier(n)'
      BY <3>1 DEF Earlier, Fetched, Ids
    <3>4. QED  BY <2>2, <3>1, <3>2, <3>3
  <2>3. QED  BY <1>2, <2>1, <2>2, FetchSteps
<1>3. ASSUME fetch'.pc = "done"
      PROVE  \E n \in Nat : Earlier(n)' /\ \A i \in 1..n : i > n - PageSize => ListHas(i)'
  <2>1. CASE UNCHANGED fetch
    <3>1. PICK n \in Nat : Earlier(n) /\ \A i \in 1..n : i > n - PageSize => ListHas(i)
      BY <1>3, <2>1 DEF Fetched
    <3>2. Earlier(n)'
      BY <1>3, <2>1, <3>1, EarlierStay
    <3>3. \A i \in 1..n : i \in Ids
      BY <3>1, Shapes DEF Earlier
    <3>4. \A i \in 1..n : i > n - PageSize => ListHas(i)'
      BY <1>3, <2>1, <3>1, <3>3, ListedStay
    <3>5. QED  BY <3>2, <3>4
  <2>2. CASE ListArrives
    <3>1. fetch.pc = "answered" /\ list' = fetch.list
      BY <2>2 DEF ListArrives
    <3>2. PICK n \in Nat :
            /\ Earlier(n)
            /\ Len(fetch.list) = (IF n <= PageSize THEN n ELSE PageSize)
            /\ \A k \in 1..Len(fetch.list) : fetch.list[k].id = n + 1 - k
      BY <3>1 DEF Fetched
    <3>3. Earlier(n)'
      BY <3>1, <3>2, EarlierStay
    <3>4. ASSUME NEW i \in 1..n, i > n - PageSize PROVE ListHas(i)'
      <4>1. PageSize \in Nat /\ DOMAIN fetch.list = 1..Len(fetch.list)
        BY Shapes, BellAssumption
      <4>2. n + 1 - i \in 1..Len(fetch.list)
        BY <3>2, <3>4, <4>1
      <4>3. fetch.list[n + 1 - i].id = i
        BY <3>2, <3>4, <4>2
      <4>4. QED  BY <3>1, <4>1, <4>2, <4>3 DEF ListHas
    <3>5. QED  BY <3>3, <3>4
  <2>3. QED  BY <1>3, <2>1, <2>2, FetchSteps
<1>4. QED  BY <1>1, <1>2, <1>3 DEF Fetched
-------------------------------------------------------------------------------
LEMMA FitsStep ==
    ASSUME TypeOK, Fits, [Next]_vars
    PROVE  Fits'
<1> DEFINE room == IF fetch.pc = "done" THEN PageSize ELSE 0
           waiting == Cardinality(unsent)
<1>1. /\ IsFiniteSet(unsent) /\ waiting \in Nat /\ PageSize \in Nat /\ room \in Nat /\ MaxNotes \in Nat
      /\ Len(notes) \in Nat /\ Len(wire) \in Nat /\ Len(list) \in Nat
      /\ Len(notes) <= MaxNotes /\ Len(list) + Len(wire) + waiting <= Len(notes) + room
  BY Shapes, BellAssumption, FS_CardinalityType DEF Fits
<1>2. CASE CreateNotification
  <2>1. Len(notes) + 1 \notin unsent /\ unsent' = unsent \cup {Len(notes) + 1}
    BY <1>2, CreateShape DEF CreateNotification, TypeOK
  <2>2. IsFiniteSet(unsent') /\ Cardinality(unsent') = waiting + 1
    BY <1>1, <2>1, FS_AddElement
  <2>3. /\ Len(notes') = Len(notes) + 1 /\ Len(notes) < MaxNotes
        /\ wire' = wire /\ list' = list /\ fetch' = fetch
    BY <1>2, CreateShape DEF CreateNotification
  <2>4. QED  BY <1>1, <2>2, <2>3 DEF Fits
<1>3. ASSUME NEW i \in unsent, EmitNotification(i) PROVE Fits'
  <2>1. IsFiniteSet(unsent') /\ Cardinality(unsent') = waiting - 1
    BY <1>1, <1>3, FS_RemoveElement DEF EmitNotification
  <2>2. notes' = notes /\ list' = list /\ fetch' = fetch
    BY <1>3 DEF EmitNotification
  <2>3. Len(wire') = Len(wire) \/ Len(wire') = Len(wire) + 1
    BY <1>3, EmitShape
  <2>4. QED  BY <1>1, <2>1, <2>2, <2>3 DEF Fits
<1>4. ASSUME NEW i \in unsent, EmitFails(i) PROVE Fits'
  <2>1. IsFiniteSet(unsent') /\ Cardinality(unsent') = waiting - 1
    BY <1>1, <1>4, FS_RemoveElement DEF EmitFails
  <2>2. notes' = notes /\ list' = list /\ wire' = wire /\ fetch' = fetch
    BY <1>4 DEF EmitFails
  <2>3. QED  BY <1>1, <2>1, <2>2 DEF Fits
<1>5. CASE ListArrives
  <2>1. /\ notes' = notes /\ unsent' = unsent /\ wire' = wire /\ list' = fetch.list
        /\ fetch'.pc = "done" /\ room = 0
    BY <1>5 DEF ListArrives
  <2>2. Len(fetch.list) \in Nat /\ Len(fetch.list) <= PageSize
    BY Shapes DEF TypeOK
  <2>3. QED  BY <1>1, <2>1, <2>2 DEF Fits
<1>6. CASE ListNotifications \/ FetchFails
  <2>1. /\ notes' = notes /\ unsent' = unsent /\ wire' = wire /\ list' = list
        /\ room = 0 /\ fetch'.pc # "done"
    BY <1>6 DEF ListNotifications, FetchFails
  <2>2. QED  BY <1>1, <2>1 DEF Fits
<1>7. CASE HandlePush
  <2>1. notes' = notes /\ unsent' = unsent /\ fetch' = fetch
    BY <1>7 DEF HandlePush
  <2>2. Len(wire') = Len(wire) - 1 /\ Len(list') = Len(list) + 1
    BY <1>7, PushShape
  <2>3. QED  BY <1>1, <2>1, <2>2 DEF Fits
<1>8. CASE Lose
  <2>1. notes' = notes /\ unsent' = unsent /\ list' = list /\ fetch' = fetch /\ Len(wire') = 0
    BY <1>8 DEF Lose
  <2>2. QED  BY <1>1, <2>1 DEF Fits
<1>9. ASSUME Len(notes') = Len(notes), Len(list') = Len(list), UNCHANGED <<unsent, wire, fetch>>
      PROVE  Fits'
  BY <1>1, <1>9 DEF Fits
<1>10. ASSUME NEW c \in Clicks, MarkServed(c) PROVE Fits'
  BY <1>9, <1>10, MarkServedShape DEF MarkServed
<1>11. ASSUME NEW i \in Ids, MarkedElsewhere(i) PROVE Fits'
  BY <1>9, <1>11, ElsewhereShape DEF MarkedElsewhere
<1>12. ASSUME NEW c \in Clicks, MarkAnswered(c) PROVE Fits'
  BY <1>9, <1>12, AnsweredShape DEF MarkAnswered
<1>13. CASE UNCHANGED <<notes, unsent, wire, fetch, list>>
  BY <1>9, <1>13
<1>14. QED
  BY <1>2, <1>3, <1>4, <1>5, <1>6, <1>7, <1>8, <1>10, <1>11, <1>12, <1>13
  DEF Next, vars, ClickOne, ClickAll, MarkFails, Connect

LEMMA BellInit == Init => BellInv
<1> SUFFICES ASSUME Init PROVE BellInv
  OBVIOUS
<1>1. /\ notes = <<>> /\ unsent = {} /\ wire = <<>> /\ list = <<>> /\ ~lost
      /\ connected \in BOOLEAN /\ fetch.pc = "asked" /\ fetch.list = <<>> /\ lost \in BOOLEAN
  BY DEF Init
<1>2. Ids = {} /\ Len(notes) = 0 /\ Len(wire) = 0 /\ Len(list) = 0 /\ Len(fetch.list) = 0
      /\ DOMAIN wire = {} /\ DOMAIN list = {} /\ DOMAIN fetch.list = {}
  BY <1>1 DEF Ids
<1>3. NoClick \in Mark /\ NoClick.pc = "idle"
  BY BellAssumption DEF NoClick, Mark
<1>4. click \in [Clicks -> Mark] /\ \A c \in Clicks : click[c].pc = "idle"
  BY <1>3 DEF Init
<1>5. TypeOK
  BY <1>1, <1>2, <1>4, BellAssumption DEF TypeOK, Mark
<1>6. ReadIsRead
  BY <1>2, <1>4 DEF ReadIsRead, Marked, NothingHidden
<1>7. Settled /\ Seen
  BY <1>1, <1>2 DEF Settled, Seen
<1>8. Fetched
  BY <1>1, <1>2 DEF Fetched
<1>9. Fits
  BY <1>1, <1>2, FS_EmptySet, BellAssumption DEF Fits
<1>10. QED  BY <1>5, <1>6, <1>7, <1>8, <1>9 DEF BellInv

LEMMA BellInvariant == Spec => []BellInv
<1>1. BellInv /\ [Next]_vars => BellInv'
  BY TypedStep, ReadStep, SettledStep, SeenStep, FetchedStep, FitsStep DEF BellInv
<1>2. QED  BY <1>1, BellInit, PTL DEF Spec
-------------------------------------------------------------------------------
\* Every variable of the bell has its type, whatever is pushed, marked and lost.
THEOREM TypeCorrect == Spec => []TypeOK
BY BellInvariant, PTL DEF BellInv

\* The bell never shows as read what the database holds unread, whatever is lost, but
\* for what was inserted after a read-all was served and listed before its answer.
THEOREM NothingEverHidden == Spec => []NothingHidden
<1>1. BellInv => NothingHidden
  BY DEF BellInv, ReadIsRead
<1>2. QED  BY <1>1, BellInvariant, PTL

\* With nothing lost and nothing under way, what was inserted once the bell was up and
\* marked here is shown as read, unless a read-all overtook its push.
THEOREM ReadAlwaysSeen == Spec => []ReadIsSeen
<1>1. BellInv => ReadIsSeen
  <2>1. SUFFICES ASSUME BellInv, ~lost, Quiet, NEW k \in DOMAIN list,
                        ~list[k].read, notes[list[k].id].stage = "settled",
                        notes[list[k].id].read = "here", ~notes[list[k].id].early
                 PROVE  FALSE
    BY DEF ReadIsSeen
  <2>2. \E c \in Clicks : click[c].pc = "answered"
    BY <2>1 DEF BellInv, Seen
  <2>3. QED  BY <2>1, <2>2 DEF Quiet
<1>2. QED  BY <1>1, BellInvariant, PTL

LEMMA ListedCount ==
    ASSUME TypeOK, NEW i
    PROVE  LET places == {k \in DOMAIN list : list[k].id = i} IN
           /\ ListHas(i) => Cardinality(places) > 0
           /\ (ListHas(i) /\ \A k, m \in DOMAIN list : list[k].id = i /\ list[m].id = i => k = m)
                => Cardinality(places) = 1
<1> DEFINE places == {k \in DOMAIN list : list[k].id = i}
<1>1. IsFiniteSet(places) /\ Cardinality(places) \in Nat
  <2>1. IsFiniteSet(1..Len(list))
    BY Shapes, FS_Interval
  <2>2. places \in SUBSET (1..Len(list))
    BY Shapes
  <2>3. IsFiniteSet(places)
    BY <2>1, <2>2, FS_Subset
  <2>4. QED  BY <2>3, FS_CardinalityType
<1>2. ListHas(i) => places # {}
  BY DEF ListHas
<1>3. ListHas(i) => Cardinality(places) > 0
  BY <1>1, <1>2, FS_EmptySet
<1>4. ASSUME ListHas(i), \A k, m \in DOMAIN list : list[k].id = i /\ list[m].id = i => k = m
      PROVE  Cardinality(places) = 1
  <2>1. PICK k \in DOMAIN list : list[k].id = i
    BY <1>4 DEF ListHas
  <2>2. places = {k}
    BY <1>4, <2>1
  <2>3. QED  BY <2>2, FS_Singleton
<1>5. QED  BY <1>3, <1>4

\* With nothing lost, what is inserted once the bell is up is listed exactly once when
\* its push is handled; of what there was before the answer was read a whole page is
\* listed, or all.
THEOREM NothingEverMissed == Spec => []NothingMissed
<1>1. BellInv => NothingMissed
  <2>1. SUFFICES ASSUME BellInv, ~lost, fetch.pc = "done" PROVE NothingMissed
    BY DEF NothingMissed
  <2> DEFINE entries(i) == Cardinality({k \in DOMAIN list : list[k].id = i})
             earlier == {i \in Ids : notes[i].stage = "asked"}
             listed == {i \in earlier : entries(i) > 0}
  <2>2. TypeOK
    BY <2>1 DEF BellInv
  <2>3. \A i \in Ids : notes[i].stage = "settled" /\ Delivered(i) => entries(i) = 1
    <3>1. SUFFICES ASSUME NEW i \in Ids, notes[i].stage = "settled", Delivered(i)
                   PROVE  entries(i) = 1
      OBVIOUS
    <3>2. Once(i)
      BY <2>1, <3>1 DEF BellInv, Settled
    <3>3. ~WireHas(i) /\ i \notin unsent
      BY <2>2, <3>1, Shapes DEF Delivered, Contains, WireHas
    <3>4. QED  BY <2>2, <3>2, <3>3, ListedCount DEF Once
  <2>4. PICK n \in Nat : Earlier(n) /\ \A i \in 1..n : i > n - PageSize => ListHas(i)
    BY <2>1 DEF BellInv, Fetched
  <2>5. \A i : ListHas(i) => entries(i) > 0
    BY <2>2, ListedCount
  <2> HIDE DEF entries
  <2>6. /\ Len(notes) \in Nat /\ Ids = 1..Len(notes) /\ PageSize \in Nat
    BY <2>2, Shapes, BellAssumption
  <2>7. earlier = 1..n
    BY <2>4, <2>6 DEF Earlier
  <2>8. CASE n <= PageSize
    <3>1. \A i \in 1..n : i > n - PageSize
      BY <2>6, <2>8
    <3>2. listed = earlier
      BY <2>4, <2>5, <2>7, <3>1
    <3>3. QED  BY <2>3, <3>2 DEF NothingMissed, entries
  <2>9. CASE n > PageSize
    <3>1. (n - PageSize + 1)..n \subseteq 1..n /\ \A i \in (n - PageSize + 1)..n : i > n - PageSize
      BY <2>6, <2>9
    <3>2. (n - PageSize + 1)..n \subseteq listed
      BY <2>4, <2>5, <2>7, <3>1
    <3>3. Cardinality((n - PageSize + 1)..n) = PageSize
      BY <2>6, <2>9, FS_Interval
    <3>4. IsFiniteSet(listed)
      <4>1. IsFiniteSet(1..n)
        BY FS_Interval
      <4>2. listed \in SUBSET (1..n)
        BY <2>7
      <4>3. QED  BY <4>1, <4>2, FS_Subset
    <3>5. Cardinality(listed) >= PageSize
      <4>1. Cardinality((n - PageSize + 1)..n) <= Cardinality(listed)
        BY <3>2, <3>4, FS_Subset
      <4>2. Cardinality(listed) \in Nat
        BY <3>4, FS_CardinalityType
      <4>3. QED  BY <2>6, <3>3, <4>1, <4>2
    <3>6. QED  BY <2>3, <3>5 DEF NothingMissed, entries
  <2>10. QED  BY <2>6, <2>8, <2>9
<1>2. QED  BY <1>1, BellInvariant, PTL
-------------------------------------------------------------------------------
\* What PushedList sees of the bell.
Rows == [i \in Ids |-> i]
Shown == [k \in DOMAIN list |-> list[k].id]
Due == unsent \cup ToSet(wire)

LEMMA Mapped ==
    ASSUME TypeOK
    PROVE  /\ Rows \in Seq(Ids) /\ Len(Rows) = Len(notes)
           /\ Shown \in Seq(Ids) /\ Len(Shown) = Len(list)
           /\ \A i : i \in Due <=> i \in unsent \/ WireHas(i)
<1>1. Len(notes) \in Nat /\ Ids = 1..Len(notes) /\ Rows \in [1..Len(notes) -> Ids]
  BY Shapes DEF Rows
<1>2. Len(list) \in Nat /\ DOMAIN list = 1..Len(list) /\ \A k \in DOMAIN list : list[k].id \in Ids
  BY Shapes DEF Entries
<1>3. Shown \in [1..Len(list) -> Ids]
  BY <1>2 DEF Shown
<1>4. \A i : i \in ToSet(wire) <=> WireHas(i)
  BY DEF ToSet, WireHas
<1>5. QED
  BY <1>1, <1>2, <1>3, <1>4, FunctionIsSeq DEF Due

LEMMA InsertsMapped ==
    ASSUME TypeOK, CreateNotification
    PROVE  PL!Insert
<1> DEFINE n == Len(notes)
<1>1. n \in Nat /\ Ids = 1..n
  BY Shapes
<1>2. /\ Len(notes') = n + 1 /\ Ids' = Ids \cup {n + 1}
      /\ unsent' = unsent \cup {n + 1} /\ wire' = wire /\ list' = list /\ fetch' = fetch
  BY CreateShape DEF CreateNotification
<1>3. Len(Rows') = Len(Rows) + 1 /\ Len(Rows) = n
  <2>1. Rows' \in [1..n + 1 -> Ids'] /\ n + 1 \in Nat
    BY <1>1, <1>2 DEF Rows
  <2>2. QED  BY <2>1, FunctionIsSeq, Mapped
<1>4. SubSeq(Rows', 1, Len(Rows)) = Rows
  <2>1. \A i \in 1..n : Rows'[i] = i /\ Rows[i] = i
    BY <1>1, <1>2 DEF Rows
  <2>2. /\ SubSeq(Rows', 1, n) \in Seq(Ids) /\ Len(SubSeq(Rows', 1, n)) = n
        /\ \A i \in 1..n : SubSeq(Rows', 1, n)[i] = Rows'[i]
    <3>1. \A i \in 1..n : Rows'[i] \in Ids
      BY <1>1, <2>1
    <3>2. /\ SubSeq(Rows', 1, n) \in Seq(Ids)
          /\ Len(SubSeq(Rows', 1, n)) = IF 1 <= n THEN n - 1 + 1 ELSE 0
          /\ \A i \in 1..n - 1 + 1 : SubSeq(Rows', 1, n)[i] = Rows'[1 + i - 1]
      BY <1>1, <3>1, SubSeqProperties
    <3>3. QED  BY <1>1, <3>2
  <2>3. Rows \in Seq(Ids) /\ Len(Rows) = n
    BY Mapped
  <2>4. QED  BY <1>3, <2>1, <2>2, <2>3, SeqEqual
<1>5. Due' = Due \cup {Len(Rows) + 1}
  BY <1>2, <1>3 DEF Due
<1>6. UNCHANGED <<Shown, fetch.pc = "done">>
  BY <1>2 DEF Shown
<1>7. QED  BY <1>3, <1>4, <1>5, <1>6 DEF PL!Insert, Rows, Due, Shown
LEMMA FetchMapped ==
    ASSUME TypeOK, Fetched, ListArrives
    PROVE  PL!Fetch
<1>1. /\ fetch.pc = "answered" /\ fetch'.pc = "done" /\ list' = fetch.list
      /\ notes' = notes /\ unsent' = unsent /\ wire' = wire
  BY DEF ListArrives
<1>2. PICK n \in Nat :
        /\ Earlier(n)
        /\ Len(fetch.list) = (IF n <= PageSize THEN n ELSE PageSize)
        /\ \A k \in 1..Len(fetch.list) : fetch.list[k].id = n + 1 - k
  BY <1>1 DEF Fetched
<1> DEFINE m == IF n <= PageSize THEN n ELSE PageSize
<1>3. /\ PageSize \in Nat /\ m \in Nat /\ m <= n /\ n <= Len(notes) /\ Len(notes) \in Nat
      /\ Ids = 1..Len(notes) /\ Len(Rows) = Len(notes)
  BY <1>2, BellAssumption, Shapes, Mapped DEF Earlier
<1>4. DOMAIN Shown' = 1..m /\ \A k \in 1..m : Shown'[k] = n + 1 - k
  BY <1>1, <1>2, Shapes DEF Shown
<1>5. Len(Shown') = m
  BY <1>3, <1>4
<1>6. \A i \in 1..n : Rows[i] = i
  BY <1>3 DEF Rows
<1> DEFINE L == Shown'
<1> HIDE DEF m, L
<1>7. DOMAIN L = 1..m /\ Len(L) = m /\ \A k \in 1..m : L[k] = n + 1 - k
  BY <1>4, <1>5 DEF L
<1>8. \A k \in 1..m : L[k] \in 1..n /\ Rows[L[k]] = n + 1 - k
  BY <1>3, <1>6, <1>7
<1>9. \A k, j \in 1..m : k < j => L[k] # L[j] /\ Rows[L[k]] >= Rows[L[j]]
  BY <1>3, <1>7, <1>8
<1>10. \A k \in 1..m, i \in 1..n : (\A j \in 1..m : L[j] # i) => Rows[L[k]] >= Rows[i]
  <2>1. SUFFICES ASSUME NEW k \in 1..m, NEW i \in 1..n, \A j \in 1..m : L[j] # i
                 PROVE  n + 1 - k >= i
    BY <1>6, <1>8
  <2>2. n + 1 - i \notin 1..m
    BY <1>3, <1>7, <2>1
  <2>3. QED  BY <1>3, <2>1, <2>2
<1>11. PL!NewestPage(L, n)
  <2>1. Len(L) = PL!Shorter(PageSize, n)
    BY <1>3, <1>7 DEF PL!Shorter, m
  <2>2. QED  BY <1>7, <1>8, <1>9, <1>10, <2>1 DEF PL!NewestPage, Rows
<1>12. n \in 0..Len(Rows)
  BY <1>3
<1>13. UNCHANGED <<Rows, Due>> /\ ~(fetch.pc = "done") /\ fetch'.pc = "done"
  BY <1>1 DEF Rows, Due, Ids
<1>14. QED  BY <1>11, <1>12, <1>13 DEF PL!Fetch, L, Rows, Due, Shown

LEMMA PushMapped ==
    ASSUME TypeOK, Fits, HandlePush
    PROVE  \E i \in Due : PL!Push(i)
<1> DEFINE i == Head(wire)
           n == Len(list)
<1>1. i \in Due
  <2>1. 1 \in DOMAIN wire /\ wire[1] = i
    BY PushShape, Shapes
  <2>2. QED  BY <2>1, Mapped DEF WireHas
<1>2. UNCHANGED <<Rows, fetch.pc = "done">>
  BY DEF HandlePush, Rows, Ids
<1>3. /\ n \in Nat /\ DOMAIN list = 1..n /\ Shown \in Seq(Ids) /\ Len(Shown) = n /\ i \in Ids
      /\ \A k \in 1..n : Shown[k] = list[k].id
  BY Shapes, Mapped, PushShape DEF Shown
<1>4. <<i>> \in Seq(Ids) /\ Len(<<i>>) = 1 /\ <<i>>[1] = i
  BY <1>3
<1> HIDE DEF i
<1>5. /\ <<i>> \o Shown \in Seq(Ids) /\ Len(<<i>> \o Shown) = 1 + n
      /\ \A k \in 1..1 + n : (<<i>> \o Shown)[k] = IF k <= 1 THEN <<i>>[k] ELSE Shown[k - 1]
  BY <1>3, <1>4, ConcatProperties
<1>6. Shown' = <<i>> \o Shown
  <2>1. /\ DOMAIN list' = 1..n + 1 /\ list'[1].id = i
        /\ \A k \in DOMAIN list' : k # 1 => k - 1 \in DOMAIN list /\ list'[k] = list[k - 1]
    BY PushShape DEF i
  <2>2. \A k \in 1..n + 1 : list'[k].id \in Ids
    BY <1>3, <2>1, Shapes DEF Entries
  <2>3. Shown' = [k \in 1..n + 1 |-> list'[k].id]
    BY <2>1 DEF Shown
  <2>4. Shown' \in Seq(Ids) /\ Len(Shown') = n + 1
    <3>1. Shown' \in [1..n + 1 -> Ids] /\ n + 1 \in Nat
      BY <1>3, <2>2, <2>3
    <3>2. QED  BY <3>1, FunctionIsSeq
  <2>5. \A k \in 1..n + 1 : Shown'[k] = (<<i>> \o Shown)[k]
    <3>1. SUFFICES ASSUME NEW k \in 1..n + 1 PROVE Shown'[k] = (<<i>> \o Shown)[k]
      OBVIOUS
    <3>2. CASE k = 1
      BY <1>3, <1>4, <1>5, <2>1, <2>3, <3>2
    <3>3. CASE k # 1
      <4>1. k - 1 \in 1..n /\ Shown'[k] = list[k - 1].id
        BY <1>3, <2>1, <2>3, <3>3
      <4>2. k \in 1..1 + n /\ ~(k <= 1)
        BY <1>3, <3>3
      <4>3. QED  BY <1>3, <1>5, <4>1, <4>2
    <3>4. QED  BY <3>2, <3>3
  <2>6. QED  BY <1>3, <1>5, <2>4, <2>5, SeqEqual
<1>7. PL!Shorter(MaxNotes + PageSize, Len(Shown) + 1) = n + 1
  <2>1. /\ Len(wire) \in Nat /\ Len(wire) # 0 /\ Len(notes) \in Nat /\ Cardinality(unsent) \in Nat
        /\ PageSize \in Nat /\ MaxNotes \in Nat
    BY Shapes, PushShape, BellAssumption, FS_CardinalityType DEF Fits
  <2>2. n + 1 <= MaxNotes + PageSize
    <3>1. n + Len(wire) + Cardinality(unsent) <= Len(notes) + PageSize /\ Len(notes) <= MaxNotes
      <4>1. n + Len(wire) + Cardinality(unsent) <= Len(notes) + (IF fetch.pc = "done" THEN PageSize ELSE 0)
        BY DEF Fits
      <4>2. QED  BY <1>3, <2>1, <4>1 DEF Fits
    <3>2. QED  BY <1>3, <2>1, <3>1
  <2>3. QED  BY <1>3, <2>1, <2>2 DEF PL!Shorter
<1>8. SubSeq(<<i>> \o Shown, 1, n + 1) = <<i>> \o Shown
  BY <1>3, <1>5, SubSeqFull
<1>9. Due' \in {Due, Due \ {i}}
  <2>1. unsent' = unsent
    BY DEF HandlePush
  <2>2. ToSet(wire) = ToSet(wire') \cup {i}
    <3>1. /\ Len(wire) \in Nat /\ Len(wire) # 0 /\ DOMAIN wire = 1..Len(wire)
          /\ wire[1] = i /\ DOMAIN wire' = 1..Len(wire) - 1
          /\ \A k \in DOMAIN wire' : wire'[k] = wire[k + 1]
      BY PushShape, Shapes DEF i
    <3>2. \A j : j \in ToSet(wire) => j \in ToSet(wire') \cup {i}
      <4>1. \A k \in DOMAIN wire : k = 1 \/ (k - 1 \in DOMAIN wire' /\ wire'[k - 1] = wire[k])
        BY <3>1
      <4>2. QED  BY <3>1, <4>1 DEF ToSet
    <3>3. \A j : j \in ToSet(wire') \cup {i} => j \in ToSet(wire)
      <4>1. 1 \in DOMAIN wire /\ \A k \in DOMAIN wire' : k + 1 \in DOMAIN wire
        BY <3>1
      <4>2. QED  BY <3>1, <4>1 DEF ToSet
    <3>4. QED  BY <3>2, <3>3
  <2>3. CASE i \in Due'
    BY <2>1, <2>2, <2>3 DEF Due
  <2>4. CASE i \notin Due'
    BY <2>1, <2>2, <2>4 DEF Due
  <2>5. QED  BY <2>3, <2>4
<1>10. Shown' = SubSeq(<<i>> \o Shown, 1, PL!Shorter(MaxNotes + PageSize, Len(Shown) + 1))
  BY <1>6, <1>7, <1>8
<1>11. \E j \in Due :
         /\ Shown' = SubSeq(<<j>> \o Shown, 1, PL!Shorter(MaxNotes + PageSize, Len(Shown) + 1))
         /\ Due' \in {Due, Due \ {j}}
  BY <1>1, <1>9, <1>10
<1>12. QED  BY <1>2, <1>11 DEF PL!Push, Rows, Due, Shown

\* The rest moves nothing that PushedList sees, or gives up or delivers what was due.
LEMMA DropsMapped ==
    ASSUME TypeOK, [Next]_vars, ~CreateNotification, ~ListArrives, ~HandlePush
    PROVE  PL!Drop
<1>1. Rows' = Rows
  BY RowsStay DEF Rows
<1>2. Shown' = Shown
  <2>1. ASSUME NEW c \in Clicks, MarkAnswered(c) PROVE Shown' = Shown
    <3>1. DOMAIN list' = DOMAIN list /\ \A k \in DOMAIN list : list'[k].id = list[k].id
      BY <2>1, AnsweredShape
    <3>2. QED  BY <3>1 DEF Shown
  <2>2. CASE UNCHANGED list
    BY <2>2 DEF Shown
  <2>3. QED  BY <2>1, <2>2, ListSteps
<1>3. (fetch'.pc = "done") = (fetch.pc = "done")
  BY FetchSteps DEF ListNotifications, FetchFails
<1>4. Due' \subseteq Due
  <2>1. ASSUME NEW i \in unsent, EmitNotification(i) PROVE Due' \subseteq Due
    <3>1. unsent' \subseteq unsent
      BY <2>1 DEF EmitNotification
    <3>2. CASE connected
      <4>1. /\ DOMAIN wire' = 1..Len(wire) + 1 /\ wire'[Len(wire) + 1] = i
            /\ \A k \in DOMAIN wire : wire'[k] = wire[k]
        BY <2>1, <3>2, EmitShape
      <4>2. DOMAIN wire' = DOMAIN wire \cup {Len(wire) + 1}
        BY <4>1, Shapes
      <4>3. \A j \in ToSet(wire') : j \in ToSet(wire) \cup {i}
        BY <4>1, <4>2 DEF ToSet
      <4>4. QED  BY <2>1, <3>1, <4>3 DEF Due
    <3>3. CASE ~connected
      BY <2>1, <3>1, <3>3, EmitShape DEF Due
    <3>4. QED  BY <3>2, <3>3
  <2>2. CASE unsent' \subseteq unsent /\ (wire' = wire \/ wire' = <<>>)
    <3>1. ToSet(wire') \subseteq ToSet(wire)
      BY <2>2 DEF ToSet
    <3>2. QED  BY <2>2, <3>1 DEF Due
  <2>3. QED
    BY <2>1, <2>2
    DEF Next, vars, EmitFails, ListNotifications, FetchFails, MarkServed, MarkedElsewhere,
        MarkAnswered, ClickOne, ClickAll, MarkFails, Lose, Connect
<1>5. QED  BY <1>1, <1>2, <1>3, <1>4 DEF PL!Drop, Rows, Due, Shown

\* Every behaviour of the bell is one of PushedList: the newest page fetched once, and
\* one pushed notification on top at a time, never cut; marking moves no entry.
THEOREM PushedListImplemented == Spec => ImplementsPushedList
<1>1. Init => PL!Init
  <2>1. SUFFICES ASSUME Init PROVE PL!Init
    OBVIOUS
  <2>2. /\ Ids = {} /\ DOMAIN list = {} /\ unsent = {} /\ ToSet(wire) = {} /\ fetch.pc = "asked"
    BY <2>1 DEF Init, Ids, ToSet
  <2>3. QED  BY <2>2 DEF PL!Init
<1>2. BellInv /\ [Next]_vars => [PL!Next]_PL!pushedVars
  <2>1. SUFFICES ASSUME BellInv, [Next]_vars PROVE PL!Next
    OBVIOUS
  <2>2. TypeOK /\ Fetched /\ Fits
    BY <2>1 DEF BellInv
  <2>3. CASE CreateNotification
    BY <2>2, <2>3, InsertsMapped DEF PL!Next
  <2>4. CASE ListArrives
    BY <2>2, <2>4, FetchMapped DEF PL!Next
  <2>5. CASE HandlePush
    BY <2>2, <2>5, PushMapped DEF PL!Next, Due
  <2>6. CASE ~CreateNotification /\ ~ListArrives /\ ~HandlePush
    BY <2>1, <2>2, <2>6, DropsMapped DEF PL!Next
  <2>7. QED  BY <2>3, <2>4, <2>5, <2>6
<1>3. QED  BY <1>1, <1>2, BellInvariant, PTL DEF Spec, ImplementsPushedList, PL!Spec
===============================================================================
