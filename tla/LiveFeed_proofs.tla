--------------------------- MODULE LiveFeed_proofs ---------------------------
(* What TLAPS proves of LiveFeed for every page size, every length of the     *)
(* list, every number of rows, and whatever may be lost.                      *)
EXTENDS LiveFeed, FiniteSetTheorems, SequenceTheorems, TLAPS

Row == [at : 1..MaxRows, own : BOOLEAN, stage : {"asked", "between", "settled", "offline"}]

Distinct == \A i, k \in Ids : i # k => rows[i].at # rows[k].at

\* Every row of a role's feed is announced to the room of the role; the pager has no
\* page.
OfRole ==
    /\ page = "role" => \A i \in Ids : rows[i].own
    /\ page = "pager" => fetch.pc = "failed"

\* A row committed once the page was settled is on its way to a list with room for it,
\* or on it, and the page is settled still.
Reached ==
    losses = {} =>
        /\ (\E i \in Ids : rows[i].stage = "settled") => Settled
        /\ Len(shown) < MaxShown =>
             \A i \in Ids : rows[i].stage = "settled" => i \in unsent \cup ToSet(wire) \cup ToSet(shown)

\* The rows there were before the answer was read are the first n.
Earlier(n) ==
    /\ n \in 0..Len(rows)
    /\ \A i \in Ids : rows[i].stage = "asked" <=> i <= n

EarlierIn(seen) ==
    LET earlier == {i \in Ids : rows[i].stage = "asked"} IN
    earlier \subseteq seen \/ Cardinality(earlier \cap seen) >= PageSize

\* The answer is one to the rows there were then, and stays listed while there is room.
Fetched ==
    /\ fetch.pc = "asked" => \A i \in Ids : rows[i].stage = "asked"
    /\ fetch.pc = "answered" => \E n \in Nat : Earlier(n) /\ fetch.list \in Answers(1..n)
    /\ fetch.pc = "done" /\ Len(shown) < MaxShown => EarlierIn(ToSet(shown))

\* The pager has the rows of the time it got to and of every later one, none older.
Paged ==
    /\ ~pager.again
    /\ pager.pc = "first" => pager.got = {}
    /\ pager.pc = "more" =>
         /\ \A i \in pager.got : rows[i].at >= pager.before
         /\ Distinct => \A i \in pager.first : rows[i].at >= pager.before => i \in pager.got
    /\ pager.pc = "done" /\ Distinct => pager.first \subseteq pager.got

LiveInv == TypeOK /\ OfRole /\ Reached /\ Fetched /\ Paged
-------------------------------------------------------------------------------
\* Sequences.

LEMMA SetOf ==
    ASSUME NEW S, NEW s \in Seq(S)
    PROVE  /\ Len(s) \in Nat /\ DOMAIN s = 1..Len(s) /\ \A k \in DOMAIN s : s[k] \in S
           /\ ToSet(s) \subseteq S
<1>1. Len(s) \in Nat /\ DOMAIN s = 1..Len(s) /\ \A k \in DOMAIN s : s[k] \in S
  BY LenProperties, ElementOfSeq
<1>2. QED  BY <1>1 DEF ToSet

LEMMA SizeOf ==
    ASSUME NEW n \in Nat
    PROVE  IsFiniteSet(1..n) /\ Cardinality(1..n) = n
<1>1. IsFiniteSet(1..n) /\ Cardinality(1..n) = IF 1 > n THEN 0 ELSE n - 1 + 1
  BY FS_Interval
<1>2. QED  BY <1>1

LEMMA SetOfOne ==
    ASSUME NEW S, NEW x \in S
    PROVE  <<x>> \in Seq(S) /\ Len(<<x>>) = 1 /\ <<x>>[1] = x /\ ToSet(<<x>>) = {x}
<1>1. <<x>> \in Seq(S) /\ Len(<<x>>) = 1 /\ <<x>>[1] = x
  OBVIOUS
<1>2. DOMAIN <<x>> = {1}
  BY <1>1, SetOf
<1>3. QED  BY <1>1, <1>2 DEF ToSet

LEMMA SetOfTail ==
    ASSUME NEW S, NEW s \in Seq(S), s # <<>>
    PROVE  /\ Head(s) \in S /\ Tail(s) \in Seq(S) /\ ToSet(s) = {Head(s)} \cup ToSet(Tail(s))
<1>1. /\ Head(s) \in S /\ Tail(s) \in Seq(S) /\ Len(Tail(s)) = Len(s) - 1
      /\ \A i \in 1..Len(Tail(s)) : Tail(s)[i] = s[i + 1]
  BY HeadTailProperties
<1>2. Len(s) \in Nat /\ Len(s) # 0 /\ DOMAIN s = 1..Len(s) /\ DOMAIN Tail(s) = 1..Len(s) - 1
  BY <1>1, SetOf, EmptySeq
<1>3. Head(s) = s[1] /\ 1 \in DOMAIN s
  BY <1>2
<1>4. \A k \in DOMAIN s : k = 1 \/ (k - 1 \in DOMAIN Tail(s) /\ Tail(s)[k - 1] = s[k])
  BY <1>1, <1>2
<1>5. \A k \in DOMAIN Tail(s) : k + 1 \in DOMAIN s /\ Tail(s)[k] = s[k + 1]
  BY <1>1, <1>2
<1>6. ToSet(s) \subseteq {Head(s)} \cup ToSet(Tail(s))
  BY <1>3, <1>4 DEF ToSet
<1>7. {Head(s)} \cup ToSet(Tail(s)) \subseteq ToSet(s)
  BY <1>3, <1>5 DEF ToSet
<1>8. QED  BY <1>1, <1>6, <1>7

LEMMA SetOfConcat ==
    ASSUME NEW S, NEW s \in Seq(S), NEW t \in Seq(S)
    PROVE  /\ s \o t \in Seq(S) /\ Len(s \o t) = Len(s) + Len(t)
           /\ ToSet(s \o t) = ToSet(s) \cup ToSet(t)
<1>1. /\ s \o t \in Seq(S) /\ Len(s \o t) = Len(s) + Len(t)
      /\ \A i \in 1..Len(s) + Len(t) : (s \o t)[i] = IF i <= Len(s) THEN s[i] ELSE t[i - Len(s)]
  BY ConcatProperties
<1>2. /\ Len(s) \in Nat /\ Len(t) \in Nat /\ DOMAIN s = 1..Len(s) /\ DOMAIN t = 1..Len(t)
      /\ DOMAIN (s \o t) = 1..Len(s) + Len(t)
  BY <1>1, SetOf
<1>3. \A k \in DOMAIN (s \o t) :
        \/ k \in DOMAIN s /\ (s \o t)[k] = s[k]
        \/ k - Len(s) \in DOMAIN t /\ (s \o t)[k] = t[k - Len(s)]
  BY <1>1, <1>2
<1>4. \A k \in DOMAIN s : k \in DOMAIN (s \o t) /\ (s \o t)[k] = s[k]
  BY <1>1, <1>2
<1>5. \A k \in DOMAIN t : k + Len(s) \in DOMAIN (s \o t) /\ (s \o t)[k + Len(s)] = t[k]
  BY <1>1, <1>2
<1>6. ToSet(s \o t) \subseteq ToSet(s) \cup ToSet(t)
  BY <1>3 DEF ToSet
<1>7. ToSet(s) \cup ToSet(t) \subseteq ToSet(s \o t)
  BY <1>4, <1>5 DEF ToSet
<1>8. QED  BY <1>1, <1>6, <1>7

LEMMA SetOfPush ==
    ASSUME NEW S, NEW i \in S, NEW s \in Seq(S)
    PROVE  /\ <<i>> \o s \in Seq(S) /\ Len(<<i>> \o s) = Len(s) + 1
           /\ ToSet(<<i>> \o s) = {i} \cup ToSet(s)
<1> DEFINE one == <<i>>
<1>1. one \in Seq(S) /\ Len(one) = 1 /\ ToSet(one) = {i}
  BY SetOfOne
<1> HIDE DEF one
<1>2. /\ one \o s \in Seq(S) /\ Len(one \o s) = Len(one) + Len(s)
      /\ ToSet(one \o s) = ToSet(one) \cup ToSet(s)
  <2>1. one \in Seq(S)
    BY <1>1
  <2>2. QED  BY <2>1, SetOfConcat
<1>3. Len(s) \in Nat
  BY SetOf
<1>4. one \o s \in Seq(S) /\ Len(one \o s) = Len(s) + 1 /\ ToSet(one \o s) = {i} \cup ToSet(s)
  BY <1>1, <1>2, <1>3
<1>5. QED  BY <1>4 DEF one

LEMMA KeptShape ==
    ASSUME NEW S, NEW s \in Seq(S)
    PROVE  /\ Kept(s) \in Seq(S)
           /\ Len(Kept(s)) = IF Len(s) < MaxShown THEN Len(s) ELSE MaxShown
           /\ Len(s) < MaxShown => Kept(s) = s
<1> DEFINE n == IF Len(s) < MaxShown THEN Len(s) ELSE MaxShown
<1>1. /\ Len(s) \in Nat /\ MaxShown \in Nat /\ n \in Nat /\ n <= Len(s)
      /\ \A k \in 1..n : s[k] \in S
  BY SetOf, LiveFeedAssumption
<1>2. n < MaxShown => n = Len(s)
  BY <1>1
<1>3. Kept(s) = SubSeq(s, 1, n)
  BY DEF Kept
<1> HIDE DEF n
<1>4. SubSeq(s, 1, n) \in Seq(S) /\ Len(SubSeq(s, 1, n)) = n
  BY <1>1, SubSeqProperties
<1>5. SubSeq(s, 1, Len(s)) = s
  BY SubSeqFull
<1>6. QED  BY <1>1, <1>3, <1>4, <1>5 DEF n
-------------------------------------------------------------------------------
\* The operators of the model.

LEMMA Shapes ==
    ASSUME TypeOK
    PROVE  /\ rows \in Seq(Row) /\ Len(rows) \in Nat /\ Ids = 1..Len(rows)
           /\ \A i \in Ids : rows[i] \in Row /\ rows[i].at \in Nat
           /\ IsFiniteSet(Ids)
           /\ ToSet(wire) \subseteq Ids /\ ToSet(shown) \subseteq Ids
<1>1. rows \in Seq(Row)
  BY DEF TypeOK, Row
<1>2. Len(rows) \in Nat /\ Ids = 1..Len(rows) /\ \A i \in Ids : rows[i] \in Row
  BY <1>1, SetOf DEF Ids
<1>3. \A i \in Ids : rows[i].at \in Nat
  BY <1>2, LiveFeedAssumption DEF Row
<1>4. IsFiniteSet(Ids)
  BY <1>2, FS_Interval
<1>5. wire \in Seq(Ids) /\ shown \in Seq(Ids)
  BY DEF TypeOK
<1>6. ToSet(wire) \subseteq Ids /\ ToSet(shown) \subseteq Ids
  BY <1>5, SetOf
<1>7. QED  BY <1>1, <1>2, <1>3, <1>4, <1>6

LEMMA CopiesShape ==
    ASSUME NEW i \in Ids
    PROVE  /\ Copies(i) \in Seq(Ids) /\ ToSet(Copies(i)) \subseteq {i}
           /\ join = "handled" \/ rows[i].own => ToSet(Copies(i)) = {i}
<1> DEFINE a == IF join = "handled" THEN <<i>> ELSE <<>>
           b == IF rows[i].own THEN <<i>> ELSE <<>>
<1>1. <<i>> \in Seq(Ids) /\ ToSet(<<i>>) = {i}
  BY SetOfOne
<1>2. <<>> \in Seq(Ids)
  BY EmptySeq
<1>3. ToSet(<<>>) = {}
  BY DEF ToSet
<1>4. a \in Seq(Ids) /\ ToSet(a) = IF join = "handled" THEN {i} ELSE {}
  BY <1>1, <1>2, <1>3
<1>5. b \in Seq(Ids) /\ ToSet(b) = IF rows[i].own THEN {i} ELSE {}
  BY <1>1, <1>2, <1>3
<1>6. Copies(i) = a \o b
  BY DEF Copies
<1> HIDE DEF a, b
<1>7. Copies(i) \in Seq(Ids) /\ ToSet(Copies(i)) = ToSet(a) \cup ToSet(b)
  BY <1>4, <1>5, <1>6, SetOfConcat
<1>8. QED  BY <1>4, <1>5, <1>7

\* A listing of fewer rows than a page is of all there are.
LEMMA ListingShape ==
    ASSUME NEW S, IsFiniteSet(S), NEW L \in Listings(S)
    PROVE  /\ L \in Seq(S) /\ Len(L) \in Nat /\ DOMAIN L = 1..Len(L) /\ ToSet(L) \subseteq S
           /\ Len(L) = IF Cardinality(S) < PageSize THEN Cardinality(S) ELSE PageSize
           /\ Cardinality(ToSet(L)) = Len(L) /\ IsFiniteSet(ToSet(L))
           /\ Len(L) < PageSize => ToSet(L) = S
<1> DEFINE n == IF Cardinality(S) < PageSize THEN Cardinality(S) ELSE PageSize
<1>1. /\ Cardinality(S) \in Nat /\ PageSize \in Nat /\ n \in Nat
      /\ n < PageSize => n = Cardinality(S)
  BY FS_CardinalityType, LiveFeedAssumption
<1>2. L \in [1..n -> S] /\ \A k, m \in DOMAIN L : k < m => L[k] # L[m]
  BY DEF Listings
<1> HIDE DEF n
<1>3. L \in Seq(S)
  BY <1>1, <1>2, SeqDef
<1>4. Len(L) \in Nat /\ DOMAIN L = 1..Len(L) /\ ToSet(L) \subseteq S
  BY <1>3, SetOf
<1>5. Len(L) = n
  BY <1>1, <1>2, <1>4
<1>6. Cardinality(ToSet(L)) = n /\ IsFiniteSet(ToSet(L))
  <2>1. L \in [1..n -> ToSet(L)]
    BY <1>2 DEF ToSet
  <2>2. \A k, m \in 1..n : L[k] = L[m] => k = m
    <3>1. \A k, m \in 1..n : k < m \/ m < k \/ k = m
      BY <1>1
    <3>2. QED  BY <1>2, <3>1
  <2>3. \A x \in ToSet(L) : \E k \in 1..n : L[k] = x
    BY <1>2 DEF ToSet
  <2>4. ExistsBijection(1..n, ToSet(L))
    BY <2>1, <2>2, <2>3 DEF ExistsBijection, Bijection, Injection, IsInjective, Surjection
  <2>5. IsFiniteSet(1..n) /\ Cardinality(1..n) = n
    BY <1>1, SizeOf
  <2>6. QED  BY <2>4, <2>5, FS_Bijection
<1>7. n < PageSize => ToSet(L) = S
  BY <1>1, <1>4, <1>6, FS_Subset
<1>8. QED  BY <1>3, <1>4, <1>5, <1>6, <1>7 DEF n

LEMMA AnswerShape ==
    ASSUME NEW S, NEW L \in Answers(S)
    PROVE  /\ L \in Listings(S)
           /\ \A k, m \in DOMAIN L : k < m => rows[L[k]].at >= rows[L[m]].at
           /\ \A k \in DOMAIN L, i \in S \ ToSet(L) : rows[L[k]].at >= rows[i].at
BY DEF Answers
-------------------------------------------------------------------------------
\* The steps that change a sequence.

LEMMA CommitShape ==
    ASSUME TypeOK, NEW at \in 1..MaxRows, NEW own \in BOOLEAN, Commit(at, own)
    PROVE  /\ rows' \in Seq(Row) /\ Len(rows') = Len(rows) + 1
           /\ Ids' = Ids \cup {Len(rows) + 1} /\ Len(rows) + 1 \notin Ids
           /\ \A i \in Ids : rows'[i] = rows[i]
           /\ rows'[Len(rows) + 1].own = own /\ rows'[Len(rows) + 1].stage = Stage
           /\ page = "role" => own
           /\ unsent' = unsent \cup {Len(rows) + 1}
           /\ UNCHANGED <<page, connected, join, wire, fetch, shown, losses, pager>>
<1> DEFINE new == [at |-> at, own |-> own, stage |-> Stage]
<1>1. rows \in Seq(Row) /\ Len(rows) \in Nat /\ Ids = 1..Len(rows)
  BY Shapes
<1>2. Stage \in {"asked", "between", "settled", "offline"}
  BY DEF Stage
<1>3. new \in Row /\ new.own = own /\ new.stage = Stage
  BY <1>2 DEF Row
<1>4. rows' = Append(rows, new)
  BY DEF Commit
<1> HIDE DEF new
<1>5. /\ rows' \in Seq(Row) /\ Len(rows') = Len(rows) + 1
      /\ \A i \in 1..Len(rows) : rows'[i] = rows[i]
      /\ rows'[Len(rows) + 1] = new
  BY <1>1, <1>3, <1>4, AppendProperties
<1>6. Ids' = 1..Len(rows) + 1
  BY <1>1, <1>5, SetOf DEF Ids
<1>7. Ids' = Ids \cup {Len(rows) + 1} /\ Len(rows) + 1 \notin Ids
  BY <1>1, <1>6
<1>8. QED  BY <1>1, <1>3, <1>5, <1>7 DEF Commit

LEMMA BroadcastShape ==
    ASSUME TypeOK, NEW i \in unsent, BroadcastRow(i)
    PROVE  /\ wire' \in Seq(Ids) /\ i \in Ids /\ unsent' = unsent \ {i}
           /\ ToSet(wire) \subseteq ToSet(wire') /\ ToSet(wire') \subseteq ToSet(wire) \cup {i}
           /\ connected /\ (join = "handled" \/ rows[i].own) => i \in ToSet(wire')
           /\ UNCHANGED <<page, rows, connected, join, fetch, shown, losses, pager>>
<1>1. wire \in Seq(Ids) /\ i \in Ids
  BY DEF TypeOK
<1>2. /\ Copies(i) \in Seq(Ids) /\ ToSet(Copies(i)) \subseteq {i}
      /\ join = "handled" \/ rows[i].own => ToSet(Copies(i)) = {i}
  BY <1>1, CopiesShape
<1>3. wire \o Copies(i) \in Seq(Ids) /\ ToSet(wire \o Copies(i)) = ToSet(wire) \cup ToSet(Copies(i))
  BY <1>1, <1>2, SetOfConcat
<1>4. wire' = IF connected THEN wire \o Copies(i) ELSE wire
  BY DEF BroadcastRow
<1>5. CASE connected
  BY <1>1, <1>2, <1>3, <1>4, <1>5 DEF BroadcastRow
<1>6. CASE ~connected
  BY <1>1, <1>4, <1>6 DEF BroadcastRow
<1>7. QED  BY <1>5, <1>6

LEMMA EventShape ==
    ASSUME TypeOK, HandleEvent
    PROVE  /\ wire' \in Seq(Ids) /\ Head(wire) \in Ids /\ ToSet(wire) = {Head(wire)} \cup ToSet(wire')
           /\ <<Head(wire)>> \o shown \in Seq(Ids) /\ shown' = Kept(<<Head(wire)>> \o shown)
           /\ shown' \in Seq(Ids) /\ Len(shown) \in Nat
           /\ Len(<<Head(wire)>> \o shown) = Len(shown) + 1
           /\ Len(shown') = IF Len(shown) + 1 < MaxShown THEN Len(shown) + 1 ELSE MaxShown
           /\ Len(shown') < MaxShown => ToSet(shown') = {Head(wire)} \cup ToSet(shown)
           /\ UNCHANGED <<page, rows, unsent, connected, join, fetch, losses, pager>>
<1> DEFINE i == Head(wire)
<1>1. wire \in Seq(Ids) /\ shown \in Seq(Ids) /\ wire # <<>> /\ wire' = Tail(wire)
  BY DEF TypeOK, HandleEvent
<1>2. i \in Ids /\ wire' \in Seq(Ids) /\ ToSet(wire) = {i} \cup ToSet(wire')
  BY <1>1, SetOfTail
<1> DEFINE s == <<i>> \o shown
<1>3. shown' = Kept(s)
  BY DEF HandleEvent
<1> HIDE DEF i
<1>5. s \in Seq(Ids) /\ Len(s) = Len(shown) + 1 /\ ToSet(s) = {i} \cup ToSet(shown)
  BY <1>1, <1>2, SetOfPush
<1>6. Len(shown) \in Nat /\ MaxShown \in Nat
  BY <1>1, SetOf, LiveFeedAssumption
<1> HIDE DEF s
<1>8. /\ shown' \in Seq(Ids) /\ Len(shown') = IF Len(s) < MaxShown THEN Len(s) ELSE MaxShown
      /\ Len(s) < MaxShown => shown' = s
  BY <1>3, <1>5, KeptShape
<1>9. Len(shown') < MaxShown => ToSet(shown') = {i} \cup ToSet(shown)
  BY <1>5, <1>6, <1>8
<1>10. UNCHANGED <<page, rows, unsent, connected, join, fetch, losses, pager>>
  BY DEF HandleEvent
<1>11. QED  BY <1>2, <1>3, <1>5, <1>6, <1>8, <1>9, <1>10 DEF i, s

\* An answer to the first n rows is one still when more are committed.
LEMMA AnswersStay ==
    ASSUME NEW n \in Nat, \A i \in 1..n : rows'[i].at = rows[i].at, NEW L \in Answers(1..n)
    PROVE  L \in Answers(1..n)'
<1>1. L \in Listings(1..n)
  BY AnswerShape
<1>2. DOMAIN L = 1..Len(L) /\ ToSet(L) \subseteq 1..n
  BY <1>1, SizeOf, ListingShape
<1>3. \A k \in DOMAIN L : L[k] \in 1..n
  BY <1>2 DEF ToSet
<1>4. /\ \A k, m \in DOMAIN L : k < m => rows'[L[k]].at >= rows'[L[m]].at
      /\ \A k \in DOMAIN L, i \in (1..n) \ ToSet(L) : rows'[L[k]].at >= rows'[i].at
  BY <1>3, AnswerShape
<1>5. QED  BY <1>1, <1>4 DEF Answers
-------------------------------------------------------------------------------
\* The parts of the invariant.

LEMMA TypeKeeps ==
    ASSUME TypeOK, Fetched, [Next]_vars
    PROVE  TypeOK'
<1>1. ASSUME NEW at \in 1..MaxRows, NEW own \in BOOLEAN, Commit(at, own) PROVE TypeOK'
  <2>1. Ids \subseteq Ids' /\ rows' \in Seq(Row) /\ unsent' \subseteq Ids'
    BY <1>1, CommitShape DEF TypeOK
  <2>2. /\ fetch \in [pc : {"asked", "answered", "done", "failed"}, list : Seq(Ids')]
        /\ wire \in Seq(Ids') /\ shown \in Seq(Ids')
    <3>1. \A q : q \in Seq(Ids) => q \in Seq(Ids')
      BY <2>1, SeqMonotonic
    <3>2. QED  BY <3>1 DEF TypeOK
  <2>3. pager \in [pc : {"first", "more", "done"}, got : SUBSET Ids', before : 0..MaxRows,
                   first : SUBSET Ids', again : BOOLEAN]
    BY <2>1 DEF TypeOK
  <2>4. UNCHANGED <<page, connected, join, wire, fetch, shown, losses, pager>>
    BY <1>1, CommitShape
  <2>5. QED  BY <2>1, <2>2, <2>3, <2>4 DEF TypeOK, Row
<1>2. ASSUME NEW i \in unsent, BroadcastRow(i) PROVE TypeOK'
  <2>1. /\ wire' \in Seq(Ids) /\ unsent' \subseteq Ids
        /\ UNCHANGED <<page, rows, connected, join, fetch, shown, losses, pager>>
    BY <1>2, BroadcastShape DEF TypeOK
  <2>2. QED  BY <2>1 DEF TypeOK, Ids
<1>3. ASSUME NEW i \in unsent, BroadcastFails(i) PROVE TypeOK'
  BY <1>3 DEF BroadcastFails, TypeOK, Ids
<1>4. CASE HandleJoin
  BY <1>4 DEF HandleJoin, TypeOK, Ids
<1>5. CASE ReadFeed
  <2>1. PICK L \in Answers(Ids) : fetch' = [pc |-> "answered", list |-> L]
    BY <1>5 DEF ReadFeed
  <2>2. L \in Seq(Ids)
    BY <2>1, AnswerShape, ListingShape, Shapes
  <2>3. UNCHANGED <<page, rows, unsent, connected, join, wire, shown, losses, pager>>
    BY <1>5 DEF ReadFeed
  <2>4. QED  BY <2>1, <2>2, <2>3 DEF TypeOK, Ids
<1>6. CASE FeedArrives
  <2>1. /\ fetch.pc = "answered" /\ fetch' = [pc |-> "done", list |-> <<>>] /\ shown' = fetch.list
        /\ UNCHANGED <<page, rows, unsent, connected, join, wire, losses, pager>>
    BY <1>6 DEF FeedArrives
  <2>2. <<>> \in Seq(Ids)
    BY EmptySeq
  <2>3. PICK n \in Nat : fetch.list \in Answers(1..n)
    BY <2>1 DEF Fetched
  <2>4. Len(fetch.list) <= IF MaxShown < PageSize THEN PageSize ELSE MaxShown
    <3>1. Len(fetch.list) = IF Cardinality(1..n) < PageSize THEN Cardinality(1..n) ELSE PageSize
      BY <2>3, SizeOf, AnswerShape, ListingShape
    <3>2. Cardinality(1..n) = n
      BY SizeOf
    <3>3. QED  BY <3>1, <3>2, LiveFeedAssumption
  <2>5. fetch.list \in Seq(Ids)
    BY DEF TypeOK
  <2>6. QED  BY <2>1, <2>2, <2>4, <2>5 DEF TypeOK, Ids
<1>7. CASE FeedFails
  <2>1. <<>> \in Seq(Ids)
    BY EmptySeq
  <2>2. QED  BY <1>7, <2>1 DEF FeedFails, TypeOK, Ids
<1>8. CASE HandleEvent
  <2>1. /\ wire' \in Seq(Ids) /\ shown' \in Seq(Ids)
        /\ UNCHANGED <<page, rows, unsent, connected, join, fetch, losses, pager>>
    BY <1>8, EventShape
  <2>2. Len(shown') <= IF MaxShown < PageSize THEN PageSize ELSE MaxShown
    <3>1. Len(shown') = IF Len(shown) + 1 < MaxShown THEN Len(shown) + 1 ELSE MaxShown
      BY <1>8, EventShape
    <3>2. Len(shown) \in Nat
      BY <1>8, EventShape
    <3>3. QED  BY <3>1, <3>2, LiveFeedAssumption
  <2>3. QED  BY <2>1, <2>2 DEF TypeOK, Ids
<1>9. CASE Lose
  <2>1. <<>> \in Seq(Ids)
    BY EmptySeq
  <2>2. QED  BY <1>9, <2>1 DEF Lose, TypeOK, Ids
<1>10. CASE Connect
  BY <1>10 DEF Connect, TypeOK, Ids
<1>11. CASE NextPage
  <2>1. PICK L \in Answers(IF pager.pc = "first" THEN Ids ELSE Older(pager.before)) :
          pager' = [pc |-> IF Len(L) < PageSize THEN "done" ELSE "more",
                    got |-> pager.got \cup ToSet(L),
                    before |-> IF L = <<>> THEN pager.before ELSE rows[Last(L)].at,
                    first |-> IF pager.pc = "first" THEN Ids ELSE pager.first,
                    again |-> pager.again \/ ToSet(L) \cap pager.got # {}]
    BY <1>11 DEF NextPage
  <2> DEFINE S == IF pager.pc = "first" THEN Ids ELSE Older(pager.before)
             before == IF L = <<>> THEN pager.before ELSE rows[Last(L)].at
             again == pager.again \/ ToSet(L) \cap pager.got # {}
             first == IF pager.pc = "first" THEN Ids ELSE pager.first
  <2>2. S \subseteq Ids /\ IsFiniteSet(S) /\ L \in Answers(S)
    <3>1. S \subseteq Ids
      BY DEF Older
    <3>2. QED  BY <2>1, <3>1, Shapes, FS_Subset
  <2> HIDE DEF S
  <2>3. /\ L \in Seq(S) /\ Len(L) \in Nat /\ DOMAIN L = 1..Len(L) /\ ToSet(L) \subseteq S
    BY <2>2, AnswerShape, ListingShape
  <2>4. before \in 0..MaxRows
    <3>1. CASE L = <<>>
      BY <3>1 DEF TypeOK
    <3>2. CASE L # <<>>
      <4>1. Len(L) \in DOMAIN L
        BY <2>3, <3>2, EmptySeq
      <4>2. Last(L) \in S
        BY <2>3, <4>1, SetOf DEF Last
      <4>3. rows[Last(L)] \in Row
        BY <2>2, <4>2, Shapes
      <4>4. rows[Last(L)].at \in 1..MaxRows
        BY <4>3 DEF Row
      <4>5. QED  BY <3>2, <4>4, LiveFeedAssumption
    <3>3. QED  BY <3>1, <3>2
  <2>5. again \in BOOLEAN
    BY Zenon
  <2>6. first \subseteq Ids /\ pager.got \cup ToSet(L) \subseteq Ids
    BY <2>2, <2>3 DEF TypeOK
  <2>7. pager' = [pc |-> IF Len(L) < PageSize THEN "done" ELSE "more",
                  got |-> pager.got \cup ToSet(L), before |-> before, first |-> first, again |-> again]
    BY <2>1
  <2> HIDE DEF before, again, first
  <2>8. pager' \in [pc : {"first", "more", "done"}, got : SUBSET Ids, before : 0..MaxRows,
                    first : SUBSET Ids, again : BOOLEAN]
    BY <2>4, <2>5, <2>6, <2>7
  <2>9. UNCHANGED <<page, rows, unsent, connected, join, wire, fetch, shown, losses>>
    BY <1>11 DEF NextPage
  <2>10. QED  BY <2>8, <2>9 DEF TypeOK, Ids
<1>12. CASE UNCHANGED vars
  BY <1>12 DEF vars, TypeOK, Ids
<1>13. QED
  BY <1>1, <1>2, <1>3, <1>4, <1>5, <1>6, <1>7, <1>8, <1>9, <1>10, <1>11, <1>12 DEF Next

LEMMA RoleKeeps ==
    ASSUME TypeOK, OfRole, [Next]_vars
    PROVE  OfRole'
<1>1. ASSUME NEW at \in 1..MaxRows, NEW own \in BOOLEAN, Commit(at, own) PROVE OfRole'
  BY <1>1, CommitShape DEF OfRole
<1>2. CASE UNCHANGED <<page, rows>> /\ (fetch.pc = "failed" => fetch'.pc = "failed")
  BY <1>2 DEF OfRole, Ids
<1>3. QED
  BY <1>1, <1>2
  DEF Next, vars, BroadcastRow, BroadcastFails, HandleJoin, ReadFeed, FeedArrives, FeedFails,
      HandleEvent, Lose, Connect, NextPage

LEMMA ReachedKeeps ==
    ASSUME TypeOK, OfRole, Reached, [Next]_vars
    PROVE  Reached'
<1> DEFINE Late(i) == rows[i].stage = "settled"
           Room == Len(shown) < MaxShown
           On(i) == i \in unsent \cup ToSet(wire) \cup ToSet(shown)
<1>1. SUFFICES ASSUME losses' = {}
               PROVE  /\ (\E i \in Ids' : Late(i)') => Settled'
                      /\ Room' => \A i \in Ids' : Late(i)' => On(i)'
  BY DEF Reached
<1>2. losses = {}
  BY <1>1
  DEF Next, vars, Commit, BroadcastRow, BroadcastFails, HandleJoin, ReadFeed, FeedArrives, FeedFails,
      HandleEvent, Lose, Connect, NextPage
<1>3. /\ (\E i \in Ids : Late(i)) => Settled
      /\ Room => \A i \in Ids : Late(i) => On(i)
  BY <1>2 DEF Reached
<1> HIDE DEF Late, On, Room
<1>4. ASSUME NEW at \in 1..MaxRows, NEW own \in BOOLEAN, Commit(at, own)
      PROVE  /\ (\E i \in Ids' : Late(i)') => Settled'
             /\ Room' => \A i \in Ids' : Late(i)' => On(i)'
  <2>0. PICK n : n = Len(rows) + 1
    OBVIOUS
  <2>1. /\ Ids' = Ids \cup {n} /\ \A i \in Ids : rows'[i] = rows[i]
        /\ rows'[n].stage = Stage /\ unsent' = unsent \cup {n}
        /\ UNCHANGED <<page, connected, join, wire, fetch, shown>>
    BY <1>4, <2>0, CommitShape
  <2>2. (\A i \in Ids : Late(i)' = Late(i)) /\ (Late(n)' => Settled)
    BY <2>1 DEF Late, Stage
  <2>3. Settled' = Settled /\ Room' = Room
    BY <2>1 DEF Settled, Room
  <2>4. On(n)' /\ \A i : On(i) => On(i)'
    BY <2>1 DEF On
  <2>5. QED  BY <1>3, <2>1, <2>2, <2>3, <2>4
<1>5. ASSUME NEW j \in unsent, BroadcastRow(j)
      PROVE  /\ (\E i \in Ids' : Late(i)') => Settled'
             /\ Room' => \A i \in Ids' : Late(i)' => On(i)'
  <2>1. /\ j \in Ids /\ unsent' = unsent \ {j} /\ ToSet(wire) \subseteq ToSet(wire')
        /\ connected /\ (join = "handled" \/ rows[j].own) => j \in ToSet(wire')
        /\ UNCHANGED <<page, rows, connected, join, fetch, shown>>
    BY <1>5, BroadcastShape
  <2>2. Ids' = Ids /\ (\A i : Late(i)' = Late(i)) /\ Settled' = Settled /\ Room' = Room
    BY <2>1 DEF Ids, Late, Settled, Room
  <2>3. \A i : i # j /\ On(i) => On(i)'
    BY <2>1 DEF On
  <2>4. Late(j) => On(j)'
    <3>1. SUFFICES ASSUME Late(j) PROVE On(j)'
      OBVIOUS
    <3>2. fetch.pc = "done" /\ connected /\ (page = "project" => join = "handled")
      BY <1>3, <2>1, <3>1 DEF Settled
    <3>3. join = "handled" \/ rows[j].own
      BY <2>1, <3>2 DEF OfRole, TypeOK, Pages
    <3>4. QED  BY <2>1, <3>2, <3>3 DEF On
  <2>5. QED  BY <1>3, <2>2, <2>3, <2>4
<1>6. CASE HandleEvent
  <2>1. /\ UNCHANGED <<page, rows, unsent, connected, join, fetch>>
        /\ ToSet(wire) = {Head(wire)} \cup ToSet(wire')
        /\ Len(shown') < MaxShown => ToSet(shown') = {Head(wire)} \cup ToSet(shown)
    BY <1>6, EventShape
  <2>2. Room' => Room
    <3>1. /\ Len(shown) \in Nat
          /\ Len(shown') = IF Len(shown) + 1 < MaxShown THEN Len(shown) + 1 ELSE MaxShown
      BY <1>6, EventShape
    <3>2. QED  BY <3>1, LiveFeedAssumption DEF Room
  <2>3. Ids' = Ids /\ (\A i : Late(i)' = Late(i)) /\ Settled' = Settled
    BY <2>1 DEF Ids, Late, Settled
  <2>4. Room' => \A i : On(i) => On(i)'
    BY <2>1 DEF On, Room
  <2>5. QED  BY <1>3, <2>2, <2>3, <2>4
<1>7. CASE ReadFeed \/ FeedArrives
  <2>1. fetch.pc # "done" /\ rows' = rows
    BY <1>7 DEF ReadFeed, FeedArrives
  <2>2. Ids' = Ids /\ \A i : Late(i)' = Late(i)
    BY <2>1 DEF Ids, Late
  <2>3. \A i \in Ids : ~Late(i)
    BY <1>3, <2>1 DEF Settled
  <2>4. QED  BY <2>2, <2>3
<1>8. CASE HandleJoin \/ Connect
  <2>1. UNCHANGED <<page, rows, unsent, wire, fetch, shown>>
    BY <1>8 DEF HandleJoin, Connect
  <2>2. /\ Ids' = Ids /\ (\A i : Late(i)' = Late(i)) /\ Room' = Room /\ \A i : On(i)' = On(i)
    BY <2>1 DEF Ids, Late, Room, On
  <2>3. Settled => Settled'
    BY <1>8 DEF HandleJoin, Connect, Settled
  <2>4. QED  BY <1>3, <2>2, <2>3
<1>9. CASE UNCHANGED <<page, rows, unsent, connected, join, wire, fetch, shown>>
  <2>1. /\ Ids' = Ids /\ (\A i : Late(i)' = Late(i)) /\ Room' = Room /\ (\A i : On(i)' = On(i))
        /\ Settled' = Settled
    BY <1>9 DEF Ids, Late, Room, On, Settled
  <2>2. QED  BY <1>3, <2>1
<1>10. CASE (\E i \in unsent : BroadcastFails(i)) \/ FeedFails \/ Lose
  BY <1>1, <1>10 DEF BroadcastFails, FeedFails, Lose
<1>11. QED
  BY <1>4, <1>5, <1>6, <1>7, <1>8, <1>9, <1>10 DEF Next, NextPage, vars

\* What is on the list of the earlier rows only grows, while there is room.
LEMMA EarlierGrows ==
    ASSUME TypeOK, NEW seen, NEW more, EarlierIn(seen), seen \subseteq more
    PROVE  EarlierIn(more)
<1> DEFINE earlier == {i \in Ids : rows[i].stage = "asked"}
<1>1. IsFiniteSet(earlier)
  BY Shapes, FS_Subset
<1>2. EarlierIn(more) <=> earlier \subseteq more \/ Cardinality(earlier \cap more) >= PageSize
  BY DEF EarlierIn
<1>3. earlier \subseteq seen \/ Cardinality(earlier \cap seen) >= PageSize
  BY DEF EarlierIn
<1> HIDE DEF earlier
<1>4. CASE Cardinality(earlier \cap seen) >= PageSize
  <2>1. IsFiniteSet(earlier \cap more) /\ earlier \cap seen \in SUBSET (earlier \cap more)
    BY <1>1, FS_Subset
  <2>2. /\ Cardinality(earlier \cap seen) <= Cardinality(earlier \cap more)
        /\ Cardinality(earlier \cap more) \in Nat /\ Cardinality(earlier \cap seen) \in Nat
    BY <2>1, FS_Subset, FS_CardinalityType
  <2>3. QED  BY <1>2, <1>4, <2>2, LiveFeedAssumption
<1>5. CASE earlier \subseteq seen
  BY <1>2, <1>5
<1>6. QED  BY <1>3, <1>4, <1>5

LEMMA FetchedKeeps ==
    ASSUME TypeOK, Fetched, [Next]_vars
    PROVE  Fetched'
<1> DEFINE earlier == {i \in Ids : rows[i].stage = "asked"}
<1>1. ASSUME NEW at \in 1..MaxRows, NEW own \in BOOLEAN, Commit(at, own) PROVE Fetched'
  <2> DEFINE m == Len(rows) + 1
  <2>1. /\ Ids' = Ids \cup {m} /\ m \notin Ids /\ \A i \in Ids : rows'[i] = rows[i]
        /\ Len(rows') = m /\ rows'[m].stage = Stage
        /\ fetch' = fetch /\ shown' = shown /\ Len(rows) \in Nat /\ Ids = 1..Len(rows)
    BY <1>1, CommitShape, Shapes
  <2>2. (fetch.pc = "asked" <=> rows'[m].stage = "asked")
    BY <2>1 DEF Stage
  <2>3. fetch'.pc = "asked" => \A i \in Ids' : rows'[i].stage = "asked"
    BY <2>1, <2>2 DEF Fetched
  <2>4. ASSUME fetch'.pc = "answered"
        PROVE  \E n \in Nat : Earlier(n)' /\ (fetch.list \in Answers(1..n))'
    <3>1. PICK n \in Nat : Earlier(n) /\ fetch.list \in Answers(1..n)
      BY <2>1, <2>4 DEF Fetched
    <3>2. n <= Len(rows) /\ \A i \in 1..n : rows'[i].at = rows[i].at
      BY <2>1, <3>1 DEF Earlier
    <3>3. (fetch.list \in Answers(1..n))'
      <4>1. fetch.list \in Answers(1..n)'
        BY <3>1, <3>2, AnswersStay
      <4>2. QED  BY <2>1, <4>1
    <3>4. Earlier(n)'
      <4>1. \A i \in Ids : rows'[i].stage = "asked" <=> i <= n
        BY <2>1, <3>1 DEF Earlier
      <4>2. rows'[m].stage # "asked" /\ ~(m <= n) /\ n \in 0..m
        BY <2>1, <2>2, <2>4, <3>2
      <4>3. QED  BY <2>1, <4>1, <4>2 DEF Earlier
    <3>5. QED  BY <3>3, <3>4
  <2>5. ASSUME fetch'.pc = "done", Len(shown') < MaxShown PROVE EarlierIn(ToSet(shown))'
    <3>1. EarlierIn(ToSet(shown))
      BY <2>1, <2>5 DEF Fetched
    <3>2. {i \in Ids' : rows'[i].stage = "asked"} = earlier
      BY <2>1, <2>2, <2>5
    <3>3. QED  BY <2>1, <3>1, <3>2 DEF EarlierIn
  <2>6. QED  BY <2>3, <2>4, <2>5 DEF Fetched
<1>2. CASE ReadFeed
  <2>1. PICK L \in Answers(Ids) : fetch' = [pc |-> "answered", list |-> L]
    BY <1>2 DEF ReadFeed
  <2>2. rows' = rows /\ fetch.pc = "asked" /\ Len(rows) \in Nat /\ Ids = 1..Len(rows)
    BY <1>2, Shapes DEF ReadFeed
  <2>3. Earlier(Len(rows))
    BY <2>2 DEF Fetched, Earlier
  <2>4. Earlier(Len(rows))' /\ (fetch.list \in Answers(1..Len(rows)))'
    BY <2>1, <2>2, <2>3 DEF Earlier, Ids, Answers
  <2>5. fetch'.pc = "answered"
    BY <2>1
  <2>6. \E n \in Nat : Earlier(n)' /\ (fetch.list \in Answers(1..n))'
    BY <2>2, <2>4
  <2>7. QED  BY <2>5, <2>6 DEF Fetched
<1>3. CASE FeedArrives
  <2>1. /\ fetch.pc = "answered" /\ fetch'.pc = "done" /\ shown' = fetch.list /\ rows' = rows
    BY <1>3 DEF FeedArrives
  <2>2. PICK n \in Nat : Earlier(n) /\ fetch.list \in Answers(1..n)
    BY <2>1 DEF Fetched
  <2>3. earlier = 1..n
    BY <2>2, Shapes DEF Earlier
  <2> DEFINE A == ToSet(fetch.list)
  <2>4. A \subseteq 1..n /\ (A = 1..n \/ Cardinality(A) = PageSize)
    <3>1. fetch.list \in Listings(1..n) /\ IsFiniteSet(1..n)
      BY <2>2, SizeOf, AnswerShape
    <3>2. /\ A \subseteq 1..n /\ Cardinality(A) = Len(fetch.list)
          /\ Len(fetch.list) < PageSize => A = 1..n
          /\ Len(fetch.list) = IF Cardinality(1..n) < PageSize THEN Cardinality(1..n) ELSE PageSize
          /\ Cardinality(1..n) = n
      BY <3>1, ListingShape, SizeOf
    <3>3. QED  BY <3>2, LiveFeedAssumption
  <2> HIDE DEF A
  <2>5. earlier \subseteq A \/ Cardinality(earlier \cap A) >= PageSize
    <3>1. earlier \cap A = A
      BY <2>3, <2>4
    <3>2. CASE A = 1..n
      BY <2>3, <3>2
    <3>3. CASE Cardinality(A) = PageSize
      <4>1. PageSize >= PageSize
        BY LiveFeedAssumption
      <4>2. QED  BY <3>1, <3>3, <4>1
    <3>4. QED  BY <2>4, <3>2, <3>3
  <2>6. EarlierIn(ToSet(shown))'
    BY <2>1, <2>5 DEF EarlierIn, A, Ids
  <2>7. QED  BY <2>1, <2>6 DEF Fetched
<1>4. CASE HandleEvent
  <2>1. rows' = rows /\ fetch' = fetch
    BY <1>4, EventShape
  <2>2. ASSUME fetch'.pc = "done", Len(shown') < MaxShown PROVE EarlierIn(ToSet(shown))'
    <3>1. /\ Len(shown) \in Nat /\ ToSet(shown) \subseteq ToSet(shown')
          /\ Len(shown') = IF Len(shown) + 1 < MaxShown THEN Len(shown) + 1 ELSE MaxShown
      BY <1>4, <2>2, EventShape
    <3>2. Len(shown) < MaxShown
      BY <2>2, <3>1, LiveFeedAssumption
    <3>3. EarlierIn(ToSet(shown))
      BY <2>1, <2>2, <3>2 DEF Fetched
    <3>4. EarlierIn(ToSet(shown'))
      BY <3>1, <3>3, EarlierGrows
    <3>5. QED  BY <2>1, <3>4 DEF EarlierIn, Ids
  <2>3. QED  BY <2>1, <2>2 DEF Fetched, Earlier, Ids, Answers
<1>5. CASE FeedFails
  BY <1>5 DEF FeedFails, Fetched
<1>6. CASE UNCHANGED <<rows, fetch, shown>>
  BY <1>6 DEF Fetched, Earlier, EarlierIn, Ids, Answers
<1>7. QED
  BY <1>1, <1>2, <1>3, <1>4, <1>5, <1>6
  DEF Next, vars, BroadcastRow, BroadcastFails, HandleJoin, Lose, Connect, NextPage

\* One page of the rows of S: what is left of them is not newer, and when no two rows
\* have one time, it is older than the last one of a full page.
LEMMA PageShape ==
    ASSUME TypeOK, NEW S \in SUBSET Ids, NEW L \in Answers(S)
    PROVE  /\ ToSet(L) \subseteq S /\ Len(L) \in Nat
           /\ Len(L) < PageSize => ToSet(L) = S
           /\ ~(Len(L) < PageSize) =>
                /\ L # <<>> /\ Last(L) \in ToSet(L)
                /\ \A i \in ToSet(L) : rows[i].at >= rows[Last(L)].at
                /\ Distinct => \A i \in S : rows[i].at >= rows[Last(L)].at => i \in ToSet(L)
<1>1. IsFiniteSet(S)
  BY Shapes, FS_Subset
<1>2. /\ Len(L) \in Nat /\ DOMAIN L = 1..Len(L) /\ ToSet(L) \subseteq S
      /\ Len(L) < PageSize => ToSet(L) = S
  BY <1>1, AnswerShape, ListingShape
<1>3. ASSUME ~(Len(L) < PageSize)
      PROVE  /\ L # <<>> /\ Last(L) \in ToSet(L)
             /\ \A i \in ToSet(L) : rows[i].at >= rows[Last(L)].at
             /\ Distinct => \A i \in S : rows[i].at >= rows[Last(L)].at => i \in ToSet(L)
  <2> DEFINE n == Len(L)
             z == Last(L)
  <2>1. n \in DOMAIN L /\ L[n] = z
    BY <1>2, <1>3, LiveFeedAssumption DEF Last
  <2>2. z \in ToSet(L) /\ z \in S /\ z \in Ids
    BY <1>2, <2>1 DEF ToSet
  <2>3. L # <<>>
    BY <2>1
  <2>4. \A k \in DOMAIN L : k < n \/ k = n
    BY <1>2
  <2>5. \A k \in DOMAIN L : rows[L[k]].at >= rows[z].at
    <3>1. \A k \in DOMAIN L : k < n => rows[L[k]].at >= rows[L[n]].at
      BY <2>1, AnswerShape
    <3>2. rows[z].at >= rows[z].at
      BY <2>2, Shapes
    <3>3. QED  BY <2>1, <2>4, <3>1, <3>2
  <2>6. \A i \in ToSet(L) : rows[i].at >= rows[z].at
    BY <2>5 DEF ToSet
  <2>7. ASSUME Distinct, NEW i \in S, rows[i].at >= rows[z].at, i \notin ToSet(L) PROVE FALSE
    <3>1. rows[L[n]].at >= rows[i].at
      BY <2>1, <2>7, AnswerShape
    <3>2. i \in Ids /\ rows[i].at \in Nat /\ rows[z].at \in Nat
      BY <2>2, <2>7, Shapes
    <3>3. rows[z].at >= rows[i].at
      BY <2>1, <3>1
    <3>4. rows[i].at = rows[z].at
      BY <2>7, <3>2, <3>3
    <3>5. i = z
      BY <2>2, <2>7, <3>2, <3>4 DEF Distinct
    <3>6. QED  BY <2>2, <2>7, <3>5
  <2>8. Distinct => \A i \in S : rows[i].at >= rows[z].at => i \in ToSet(L)
    BY <2>7
  <2>9. QED  BY <2>2, <2>3, <2>6, <2>8
<1>4. QED  BY <1>2, <1>3

LEMMA PagedKeeps ==
    ASSUME TypeOK, Paged, [Next]_vars
    PROVE  Paged'
<1>1. ASSUME NEW at \in 1..MaxRows, NEW own \in BOOLEAN, Commit(at, own) PROVE Paged'
  <2>1. /\ Ids \subseteq Ids' /\ pager' = pager /\ \A i \in Ids : rows'[i] = rows[i]
    BY <1>1, CommitShape
  <2>2. Distinct' => Distinct
    BY <2>1 DEF Distinct
  <2>3. pager.got \subseteq Ids /\ pager.first \subseteq Ids
    BY DEF TypeOK
  <2>4. pager.pc = "more" => \A i \in pager.got : rows'[i].at >= pager.before
    BY <2>1, <2>3 DEF Paged
  <2>5. pager.pc = "more" /\ Distinct =>
          \A i \in pager.first : rows'[i].at >= pager.before => i \in pager.got
    BY <2>1, <2>3 DEF Paged
  <2>6. QED  BY <2>1, <2>2, <2>4, <2>5 DEF Paged
<1>2. CASE NextPage
  <2>1. PICK L \in Answers(IF pager.pc = "first" THEN Ids ELSE Older(pager.before)) :
          pager' = [pc |-> IF Len(L) < PageSize THEN "done" ELSE "more",
                    got |-> pager.got \cup ToSet(L),
                    before |-> IF L = <<>> THEN pager.before ELSE rows[Last(L)].at,
                    first |-> IF pager.pc = "first" THEN Ids ELSE pager.first,
                    again |-> pager.again \/ ToSet(L) \cap pager.got # {}]
    BY <1>2 DEF NextPage
  <2> DEFINE S == IF pager.pc = "first" THEN Ids ELSE Older(pager.before)
             A == ToSet(L)
             first == IF pager.pc = "first" THEN Ids ELSE pager.first
  <2>2. rows' = rows /\ pager.pc \in {"first", "more"}
    BY <1>2 DEF NextPage
  <2>3. S \in SUBSET Ids /\ L \in Answers(S)
    BY <2>1 DEF Older
  <2>4. /\ pager.got \subseteq Ids /\ first \subseteq Ids /\ pager.before \in Nat
        /\ \A i \in Ids : rows[i].at \in Nat
    BY Shapes, LiveFeedAssumption DEF TypeOK
  \* What the pager has is newer than the rows it asks for.
  <2>5. \A i \in pager.got, k \in S : rows[k].at < rows[i].at
    <3>1. CASE pager.pc = "first"
      BY <3>1 DEF Paged
    <3>2. CASE pager.pc = "more"
      <4>1. \A i \in pager.got : rows[i].at >= pager.before
        BY <3>2 DEF Paged
      <4>2. \A k \in S : rows[k].at < pager.before
        BY <3>2 DEF Older
      <4>3. QED  BY <2>3, <2>4, <4>1, <4>2
    <3>3. QED  BY <2>2, <3>1, <3>2
  \* What it has not got of its first page's rows is among them.
  <2>6. Distinct => first \subseteq pager.got \cup S
    <3>1. CASE pager.pc = "first"
      BY <3>1
    <3>2. CASE pager.pc = "more"
      <4>1. Distinct => \A i \in first : rows[i].at >= pager.before => i \in pager.got
        BY <3>2 DEF Paged
      <4>2. \A i \in first : rows[i].at >= pager.before \/ i \in S
        BY <2>4, <3>2 DEF Older
      <4>3. QED  BY <4>1, <4>2
    <3>3. QED  BY <2>2, <3>1, <3>2
  <2> HIDE DEF S, first
  <2>7. /\ A \subseteq S
        /\ Len(L) < PageSize => A = S
        /\ ~(Len(L) < PageSize) =>
             /\ L # <<>> /\ Last(L) \in A
             /\ \A i \in A : rows[i].at >= rows[Last(L)].at
             /\ Distinct => \A i \in S : rows[i].at >= rows[Last(L)].at => i \in A
    BY <2>3, PageShape
  <2> HIDE DEF A
  <2>8. A \cap pager.got = {}
    <3>1. ASSUME NEW i \in A, i \in pager.got PROVE FALSE
      <4>1. rows[i].at < rows[i].at /\ i \in Ids
        BY <2>3, <2>5, <2>7, <3>1
      <4>2. QED  BY <2>4, <4>1
    <3>2. QED  BY <3>1
  <2>9. ~pager'.again
    <3>1. pager'.again = (pager.again \/ A \cap pager.got # {})
      BY <2>1 DEF A
    <3>2. ~pager.again
      BY DEF Paged
    <3>3. QED  BY <2>8, <3>1, <3>2, Zenon
  <2>10. /\ pager'.pc = (IF Len(L) < PageSize THEN "done" ELSE "more")
         /\ pager'.got = pager.got \cup A /\ pager'.first = first
         /\ pager'.before = IF L = <<>> THEN pager.before ELSE rows[Last(L)].at
    BY <2>1 DEF A, first
  <2>11. Distinct' = Distinct
    BY <2>2 DEF Distinct, Ids
  <2>12. CASE Len(L) < PageSize
    <3>1. Distinct => first \subseteq pager.got \cup A
      BY <2>6, <2>7, <2>12
    <3>2. pager'.pc = "done"
      BY <2>10, <2>12
    <3>3. QED  BY <2>9, <2>10, <2>11, <3>1, <3>2 DEF Paged
  <2>13. CASE ~(Len(L) < PageSize)
    <3>1. pager'.pc = "more" /\ pager'.before = rows[Last(L)].at /\ Last(L) \in S
      BY <2>7, <2>10, <2>13
    <3>2. \A i \in pager'.got : rows'[i].at >= pager'.before
      <4>1. \A i \in A : rows[i].at >= rows[Last(L)].at
        BY <2>7, <2>13
      <4>2. \A i \in pager.got : rows[i].at >= rows[Last(L)].at
        BY <2>3, <2>4, <2>5, <3>1
      <4>3. QED  BY <2>2, <2>10, <3>1, <4>1, <4>2
    <3>3. Distinct => \A i \in first : rows[i].at >= rows[Last(L)].at => i \in pager.got \cup A
      BY <2>6, <2>7, <2>13
    <3>4. QED  BY <2>2, <2>9, <2>10, <2>11, <3>1, <3>2, <3>3 DEF Paged
  <2>14. QED  BY <2>12, <2>13
<1>3. CASE UNCHANGED <<rows, pager>>
  BY <1>3 DEF Paged, Distinct, Ids
<1>4. QED
  BY <1>1, <1>2, <1>3
  DEF Next, vars, BroadcastRow, BroadcastFails, HandleJoin, ReadFeed, FeedArrives, FeedFails,
      HandleEvent, Lose, Connect
-------------------------------------------------------------------------------
LEMMA LiveInit == Init => LiveInv
<1> SUFFICES ASSUME Init PROVE LiveInv
  OBVIOUS
<1>1. \A S : <<>> \in Seq(S) /\ Len(<<>>) = 0
  BY EmptySeq
<1>2. /\ rows = <<>> /\ Ids = {} /\ unsent = {} /\ wire = <<>> /\ shown = <<>> /\ losses = {}
      /\ page \in Pages \cup {"pager"} /\ Len(rows) = 0
  BY <1>1 DEF Init, Ids
<1>3. TypeOK
  <2>1. connected \in BOOLEAN /\ join \in {"none", "sent", "handled", "lost"}
    BY DEF Init
  <2>2. fetch \in [pc : {"asked", "answered", "done", "failed"}, list : Seq(Ids)]
    BY <1>1 DEF Init
  <2>3. pager \in [pc : {"first", "more", "done"}, got : SUBSET Ids, before : 0..MaxRows,
                   first : SUBSET Ids, again : BOOLEAN]
    BY LiveFeedAssumption DEF Init
  <2>4. Len(shown) <= IF MaxShown < PageSize THEN PageSize ELSE MaxShown
    BY <1>1, <1>2, LiveFeedAssumption
  <2>5. QED  BY <1>1, <1>2, <2>1, <2>2, <2>3, <2>4 DEF TypeOK
<1>4. OfRole
  BY <1>2 DEF Init, OfRole, Pages
<1>5. Reached
  BY <1>2 DEF Reached
<1>6. Fetched
  BY <1>2 DEF Init, Fetched
<1>7. Paged
  BY DEF Init, Paged
<1>8. QED  BY <1>3, <1>4, <1>5, <1>6, <1>7 DEF LiveInv

LEMMA LiveNext == LiveInv /\ [Next]_vars => LiveInv'
BY TypeKeeps, RoleKeeps, ReachedKeeps, FetchedKeeps, PagedKeeps DEF LiveInv

LEMMA LiveAlways == Spec => []LiveInv
BY LiveInit, LiveNext, PTL DEF Spec

\* Every variable of the feed has its type: what the page shows, what is under way to
\* it and what a pager has are rows that are committed, and the list never grows
\* beyond a page and what its slice keeps.
THEOREM TypeCorrect == Spec => []TypeOK
<1>1. LiveInv => TypeOK
  BY DEF LiveInv
<1>2. QED  BY <1>1, LiveAlways, PTL

\* As long as nothing is lost and the list has room, the page shows every row that was
\* committed once it was in its rooms with an answer on the screen, when its pushes are
\* handled, and a page of those from before the answer was read (ActivityFeed.tsx with
\* broadcastActivity and getFeed): it misses none but those committed in between.
THEOREM MissesAlwaysOnlyBetween == Spec => []MissesOnlyBetween
<1>1. LiveInv => MissesOnlyBetween
  <2> SUFFICES ASSUME LiveInv, losses = {}, fetch.pc = "done", Len(shown) < MaxShown
               PROVE  LET seen == ToSet(shown)
                          earlier == {i \in Ids : rows[i].stage = "asked"}
                      IN  /\ \A i \in Ids : rows[i].stage = "settled" /\ Delivered(i) => i \in seen
                          /\ \/ earlier \subseteq seen
                             \/ Cardinality(earlier \cap seen) >= PageSize
    BY DEF MissesOnlyBetween
  <2>1. TypeOK /\ Reached /\ Fetched
    BY DEF LiveInv
  <2>2. \A i : i \in ToSet(wire) => Contains(wire, i)
    <3>1. DOMAIN wire = 1..Len(wire)
      BY <2>1, SetOf DEF TypeOK
    <3>2. QED  BY <3>1 DEF ToSet, Contains
  <2>3. \A i \in Ids : rows[i].stage = "settled" /\ Delivered(i) => i \in ToSet(shown)
    BY <2>1, <2>2 DEF Reached, Delivered
  <2>4. EarlierIn(ToSet(shown))
    BY <2>1 DEF Fetched
  <2>5. QED  BY <2>3, <2>4 DEF EarlierIn
<1>2. QED  BY <1>1, LiveAlways, PTL

\* A client that pages back with `before` never gets a row twice, and when no two rows
\* have one time it ends with every row there was when it began (getFeed).
THEOREM PagesAlwaysCover == Spec => []PagesCover
<1>1. LiveInv => PagesCover
  BY DEF LiveInv, Paged, PagesCover, Distinct
<1>2. QED  BY <1>1, LiveAlways, PTL
-------------------------------------------------------------------------------
\* What PushedList sees of the page.
Times == [i \in Ids |-> rows[i].at]
Due == unsent \cup ToSet(wire)

LEMMA TimesShape ==
    ASSUME TypeOK
    PROVE  Times \in Seq(Nat) /\ Len(Times) = Len(rows) /\ \A i \in Ids : Times[i] = rows[i].at
<1>1. Len(rows) \in Nat /\ Ids = 1..Len(rows) /\ \A i \in Ids : rows[i].at \in Nat
  BY Shapes
<1>2. Times \in [1..Len(rows) -> Nat] /\ \A i \in Ids : Times[i] = rows[i].at
  BY <1>1 DEF Times
<1>3. Times \in Seq(Nat)
  BY <1>1, <1>2, SeqDef
<1>4. Len(Times) = Len(rows)
  BY <1>1, <1>2, <1>3, SetOf
<1>5. QED  BY <1>2, <1>3, <1>4

\* A committed row is inserted, and due.
LEMMA InsertsMapped ==
    ASSUME TypeOK, TypeOK', NEW at \in 1..MaxRows, NEW own \in BOOLEAN, Commit(at, own)
    PROVE  PL!Insert
<1> DEFINE n == Len(rows)
<1>1. /\ n \in Nat /\ Ids = 1..n /\ Len(rows') = n + 1 /\ Ids' = Ids \cup {n + 1}
      /\ \A i \in Ids : rows'[i] = rows[i]
      /\ unsent' = unsent \cup {n + 1} /\ UNCHANGED <<wire, shown, fetch>>
  BY CommitShape, Shapes
<1>2. /\ Times \in Seq(Nat) /\ Len(Times) = n /\ \A i \in 1..n : Times[i] = rows[i].at
      /\ \A i \in 1..n : rows[i].at \in Nat
  BY <1>1, TimesShape, Shapes
<1>3. Len(Times') = n + 1
  <2>1. Len(Times') = Len(rows')
    <3>1. Len(rows') \in Nat /\ Ids' = 1..n + 1
      BY <1>1
    <3>2. \A i \in Ids' : rows'[i].at \in Nat
      <4>1. rows' \in Seq(Row) /\ Ids' = DOMAIN rows'
        BY CommitShape DEF Ids
      <4>2. \A i \in Ids' : rows'[i] \in Row
        BY <4>1, SetOf
      <4>3. QED  BY <4>2, LiveFeedAssumption DEF Row
    <3>3. Times' \in [1..n + 1 -> Nat]
      BY <3>1, <3>2 DEF Times
    <3>4. Times' \in Seq(Nat)
      BY <1>1, <3>3, SeqDef
    <3>5. QED  BY <1>1, <3>3, <3>4, SetOf
  <2>2. QED  BY <1>1, <2>1
<1>4. \A i \in 1..n : Times'[i] = Times[i] /\ Times'[i] \in Nat
  <2>1. \A i \in 1..n : i \in Ids' /\ rows'[i].at = rows[i].at
    BY <1>1
  <2>2. \A i \in 1..n : Times'[i] = rows'[i].at
    BY <2>1 DEF Times
  <2>3. QED  BY <1>2, <2>1, <2>2
<1>5. SubSeq(Times', 1, n) = Times
  <2>1. /\ SubSeq(Times', 1, n) \in Seq(Nat)
        /\ Len(SubSeq(Times', 1, n)) = IF 1 <= n THEN n - 1 + 1 ELSE 0
        /\ \A i \in 1..n - 1 + 1 : SubSeq(Times', 1, n)[i] = Times'[1 + i - 1]
    BY <1>1, <1>4, SubSeqProperties
  <2>2. Len(SubSeq(Times', 1, n)) = n /\ \A i \in 1..n : SubSeq(Times', 1, n)[i] = Times'[i]
    BY <1>1, <2>1
  <2>3. QED  BY <1>2, <1>4, <2>1, <2>2, SeqEqual
<1>6. Due' = Due \cup {n + 1} /\ (fetch.pc = "done")' = (fetch.pc = "done")
  BY <1>1 DEF Due
<1>7. /\ Len(Times') = Len(Times) + 1 /\ SubSeq(Times', 1, Len(Times)) = Times
      /\ Due' = Due \cup {Len(Times) + 1} /\ UNCHANGED <<shown, fetch.pc = "done">>
  BY <1>1, <1>2, <1>3, <1>5, <1>6
<1>8. QED  BY <1>7 DEF PL!Insert, Times, Due

\* The answer that arrives is the newest page of the rows as they were when it was read.
LEMMA FetchMapped ==
    ASSUME TypeOK, Fetched, FeedArrives
    PROVE  PL!Fetch
<1>1. /\ fetch.pc = "answered" /\ fetch'.pc = "done" /\ shown' = fetch.list
      /\ rows' = rows /\ unsent' = unsent /\ wire' = wire
  BY DEF FeedArrives
<1>2. PICK n \in Nat : Earlier(n) /\ fetch.list \in Answers(1..n)
  BY <1>1 DEF Fetched
<1>3. n \in 0..Len(rows) /\ \A i \in 1..n : i \in Ids /\ Times[i] = rows[i].at
  <2>1. n \in 0..Len(rows) /\ Len(rows) \in Nat /\ Ids = 1..Len(rows)
    BY <1>2, Shapes DEF Earlier
  <2>2. \A i \in 1..n : i \in Ids
    BY <2>1
  <2>3. \A i \in Ids : Times[i] = rows[i].at
    BY TimesShape
  <2>4. QED  BY <2>1, <2>2, <2>3
<1> DEFINE L == fetch.list
<1>4. /\ L \in Listings(1..n) /\ IsFiniteSet(1..n) /\ Cardinality(1..n) = n
      /\ \A k, m \in DOMAIN L : k < m => rows[L[k]].at >= rows[L[m]].at
      /\ \A k \in DOMAIN L, i \in (1..n) \ ToSet(L) : rows[L[k]].at >= rows[i].at
  BY <1>2, SizeOf, AnswerShape
<1> HIDE DEF L
<1>5. /\ DOMAIN L = 1..Len(L) /\ \A k \in DOMAIN L : L[k] \in 1..n
      /\ Len(L) = IF n < PageSize THEN n ELSE PageSize
      /\ \A k, m \in DOMAIN L : k < m => L[k] # L[m]
  <2>1. ToSet(L) \subseteq 1..n
    BY <1>4, ListingShape
  <2>2. \A k \in DOMAIN L : L[k] \in 1..n
    BY <2>1 DEF ToSet
  <2>3. DOMAIN L = 1..Len(L) /\ Len(L) = IF n < PageSize THEN n ELSE PageSize
    BY <1>4, ListingShape
  <2>4. \A k, m \in DOMAIN L : k < m => L[k] # L[m]
    BY <1>4 DEF Listings
  <2>5. QED  BY <2>2, <2>3, <2>4
<1>6. \A k, m \in DOMAIN L : k < m => L[k] # L[m] /\ Times[L[k]] >= Times[L[m]]
  BY <1>3, <1>4, <1>5
<1>7. \A k \in DOMAIN L, i \in 1..n : (\A m \in DOMAIN L : L[m] # i) => Times[L[k]] >= Times[i]
  <2>1. \A i : (\A m \in DOMAIN L : L[m] # i) => i \notin ToSet(L)
    BY DEF ToSet
  <2>2. QED  BY <1>3, <1>4, <1>5, <2>1
<1>8. Len(L) = PL!Shorter(PageSize, n)
  BY <1>5, LiveFeedAssumption DEF PL!Shorter
<1>9. PL!NewestPage(L, n)
  BY <1>5, <1>6, <1>7, <1>8 DEF PL!NewestPage, Times
<1>10. n \in 0..Len(Times)
  BY <1>3, TimesShape
<1>11. UNCHANGED <<Times, Due>> /\ ~(fetch.pc = "done") /\ fetch'.pc = "done" /\ shown' = L
  BY <1>1 DEF Times, Due, Ids, L
<1>12. PL!NewestPage(shown', n)
  BY <1>9, <1>11
<1>13. QED  BY <1>10, <1>11, <1>12 DEF PL!Fetch, Times, Due

\* A handled push puts the row it announces on top, and cuts the list.
LEMMA PushMapped ==
    ASSUME TypeOK, HandleEvent
    PROVE  \E i \in Due : PL!Push(i)
<1> DEFINE i == Head(wire)
<1>1. /\ ToSet(wire) = {i} \cup ToSet(wire') /\ shown' = Kept(<<i>> \o shown)
      /\ Len(<<i>> \o shown) = Len(shown) + 1 /\ Len(shown) \in Nat
      /\ rows' = rows /\ unsent' = unsent /\ fetch' = fetch
  BY EventShape
<1> HIDE DEF i
<1>2. i \in Due
  BY <1>1 DEF Due
<1>3. shown' = SubSeq(<<i>> \o shown, 1, PL!Shorter(MaxShown, Len(shown) + 1))
  <2>1. PL!Shorter(MaxShown, Len(shown) + 1)
          = IF Len(shown) + 1 < MaxShown THEN Len(shown) + 1 ELSE MaxShown
    BY <1>1, LiveFeedAssumption DEF PL!Shorter
  <2>2. QED  BY <1>1, <2>1 DEF Kept
<1>4. Due' \in {Due, Due \ {i}}
  <2>1. CASE i \in Due'
    BY <1>1, <2>1 DEF Due
  <2>2. CASE i \notin Due'
    BY <1>1, <2>2 DEF Due
  <2>3. QED  BY <2>1, <2>2
<1>5. Times' = Times /\ (fetch.pc = "done")' = (fetch.pc = "done")
  BY <1>1 DEF Times, Ids
<1>6. \E j \in Due :
        /\ shown' = SubSeq(<<j>> \o shown, 1, PL!Shorter(MaxShown, Len(shown) + 1))
        /\ Due' \in {Due, Due \ {j}}
  BY <1>2, <1>3, <1>4
<1>7. QED  BY <1>5, <1>6 DEF PL!Push, Times, Due

\* Every other step moves nothing that PushedList sees, or brings a push on its way, or
\* loses it.
LEMMA DropsMapped ==
    ASSUME TypeOK, [Next]_vars, ~FeedArrives, ~HandleEvent,
           \A at \in 1..MaxRows, own \in BOOLEAN : ~Commit(at, own)
    PROVE  PL!Drop
<1>1. rows' = rows /\ shown' = shown /\ (fetch'.pc = "done") = (fetch.pc = "done")
  BY DEF Next, vars, BroadcastRow, BroadcastFails, HandleJoin, ReadFeed, FeedFails, Lose, Connect, NextPage
<1>2. Times' = Times
  BY <1>1 DEF Times, Ids
<1>3. Due' \subseteq Due
  <2>1. ASSUME NEW i \in unsent, BroadcastRow(i) PROVE Due' \subseteq Due
    BY <2>1, BroadcastShape DEF Due
  <2>2. CASE unsent' \subseteq unsent /\ (wire' = wire \/ wire' = <<>>)
    <3>1. ToSet(wire') \subseteq ToSet(wire)
      BY <2>2 DEF ToSet
    <3>2. QED  BY <2>2, <3>1 DEF Due
  <2>3. QED
    BY <2>1, <2>2
    DEF Next, vars, BroadcastFails, HandleJoin, ReadFeed, FeedFails, Lose, Connect, NextPage
<1>4. QED  BY <1>1, <1>2, <1>3 DEF PL!Drop, Times, Due

\* Every behaviour of the page, the handlers and the connection is one of PushedList:
\* the newest page, set once as it was read, and one announced row on top at a time.
THEOREM PushedListImplemented == Spec => ImplementsPushedList
<1>1. Init => PL!Init
  <2>1. SUFFICES ASSUME Init PROVE PL!Init
    OBVIOUS
  <2>2. /\ DOMAIN rows = {} /\ shown = <<>> /\ unsent = {} /\ ToSet(wire) = {} /\ fetch.pc # "done"
    BY <2>1 DEF Init, ToSet
  <2>3. QED  BY <2>2 DEF PL!Init, Ids
<1>2. LiveInv /\ LiveInv' /\ [Next]_vars => [PL!Next]_PL!pushedVars
  <2>1. SUFFICES ASSUME LiveInv, LiveInv', [Next]_vars PROVE PL!Next
    OBVIOUS
  <2>2. TypeOK /\ TypeOK' /\ Fetched
    BY <2>1 DEF LiveInv
  <2>3. ASSUME NEW at \in 1..MaxRows, NEW own \in BOOLEAN, Commit(at, own) PROVE PL!Next
    BY <2>2, <2>3, InsertsMapped DEF PL!Next
  <2>4. CASE FeedArrives
    BY <2>2, <2>4, FetchMapped DEF PL!Next
  <2>5. CASE HandleEvent
    BY <2>2, <2>5, PushMapped DEF PL!Next, Due
  <2>6. CASE /\ ~FeedArrives /\ ~HandleEvent
             /\ \A at \in 1..MaxRows, own \in BOOLEAN : ~Commit(at, own)
    BY <2>1, <2>2, <2>6, DropsMapped DEF PL!Next
  <2>7. QED  BY <2>3, <2>4, <2>5, <2>6
<1>3. QED  BY <1>1, <1>2, LiveAlways, PTL DEF Spec, ImplementsPushedList, PL!Spec
=============================================================================
