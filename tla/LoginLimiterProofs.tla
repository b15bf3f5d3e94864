-------------------------- MODULE LoginLimiterProofs --------------------------
(***************************************************************************)
(* The login limiter, for any number of requests, any number of attempts   *)
(* and any window: however logins overlap, are refunded, fail or expire,   *)
(* the attempts of one window are the events check() would keep, and no    *)
(* more than it allows.                                                    *)
(***************************************************************************)
EXTENDS AccountsProofs, DataLemmas

LEMMA LimitsAre ==
  Attempts \in Nat \ {0} /\ Window \in Nat \ {0} /\ NoOne \notin Login
BY Limits

LEMMA Elements ==
  ASSUME NEW s \in Seq(Event)
  PROVE  /\ Len(s) \in Nat /\ DOMAIN s = 1..Len(s) /\ s \in [1..Len(s) -> Event]
         /\ \A i \in 1..Len(s) :
              s[i] \in Event /\ s[i].age \in 0..Window /\ s[i].lease \in Login \cup {NoOne}
<1>1. Len(s) \in Nat /\ DOMAIN s = 1..Len(s) /\ s \in [1..Len(s) -> Event]
  BY LenProperties
<1>2. \A e \in Event : e.age \in 0..Window /\ e.lease \in Login \cup {NoOne}
  BY DEF Event
<1> QED
  BY <1>1, <1>2

----------------------------------------------------------------------------
(* What pruning, refunding, charging and aging do to a list of events.     *)

\* The first k of list are too old, and rest is what follows.
Pruned(list, k, rest) ==
  /\ k \in 0..Len(list) /\ rest \in Seq(Event) /\ Len(rest) = Len(list) - k
  /\ \A i \in 1..Len(rest) : rest[i] = list[k + i]
  /\ \A i \in 1..k : list[i].age = Window
  /\ Len(rest) > 0 => rest[1].age < Window

LEMMA RecentIsPruned ==
  ASSUME NEW s \in Seq(Event)
  PROVE  \E k \in 0..Len(s) : Pruned(s, k, Recent(s))
<1> DEFINE fresh == {i \in DOMAIN s : s[i].age < Window} \cup {Len(s) + 1}
           first == OldestRecent(s)
           k     == first - 1
<1>1. Len(s) \in Nat /\ DOMAIN s = 1..Len(s)
      /\ \A i \in 1..Len(s) : s[i] \in Event /\ s[i].age \in 0..Window
  BY Elements
<1>2. fresh \in SUBSET Nat /\ fresh # {}
  BY <1>1
<1>3. first \in fresh /\ \A i \in fresh : first <= i
  <2>1. first = Min(fresh)
    BY DEF OldestRecent
  <2> HIDE DEF fresh, first
  <2> QED
    BY <1>2, <2>1, MinIsLeast
<1> HIDE DEF first
<1>4. first \in 1..(Len(s) + 1) /\ (first <= Len(s) => s[first].age < Window)
  BY <1>1, <1>3
<1>5. ASSUME NEW i \in 1..(first - 1) PROVE s[i].age = Window
  <2>1. i \in 1..Len(s) /\ ~(first <= i)
    BY <1>1, <1>4
  <2>2. i \notin fresh
    BY <1>3, <2>1
  <2>3. ~(s[i].age < Window)
    BY <1>1, <2>1, <2>2
  <2> QED
    BY <1>1, <2>1, <2>3, LimitsAre
<1> DEFINE rest == SubSeq(s, first, Len(s))
<1>6. rest \in Seq(Event) /\ Len(rest) = Len(s) - k
      /\ \A i \in 1..(Len(s) - first + 1) : rest[i] = s[first + i - 1]
  <2>1. first \in Int /\ Len(s) \in Int /\ \A i \in first..Len(s) : s[i] \in Event
    BY <1>1, <1>4
  <2>2. /\ rest \in Seq(Event) /\ Len(rest) = IF first <= Len(s) THEN Len(s) - first + 1 ELSE 0
        /\ \A i \in 1..(Len(s) - first + 1) : rest[i] = s[first + i - 1]
    BY <2>1, SubSeqProperties
  <2> HIDE DEF rest
  <2> QED
    BY <1>1, <1>4, <2>2
<1>7. Recent(s) = rest
  BY DEF Recent, first
<1> HIDE DEF rest
<1>8. \A i \in 1..Len(rest) : rest[i] = s[k + i]
  BY <1>1, <1>4, <1>6
<1>9. Len(rest) > 0 => rest[1].age < Window
  BY <1>1, <1>4, <1>6
<1>10. k \in 0..Len(s)
  BY <1>1, <1>4
<1>11. Pruned(s, k, rest)
  BY <1>5, <1>6, <1>8, <1>9, <1>10 DEF Pruned
<1> QED
  BY <1>7, <1>10, <1>11

\* There is one way to prune.
LEMMA PrunedIsRecent ==
  ASSUME NEW s \in Seq(Event), NEW k \in Nat, NEW rest, Pruned(s, k, rest)
  PROVE  rest = Recent(s)
<1>1. PICK j \in 0..Len(s) : Pruned(s, j, Recent(s))
  BY RecentIsPruned
<1>2. Len(s) \in Nat /\ \A i \in 1..Len(s) : s[i].age \in 0..Window
  BY Elements
<1>3. ~(k < j)
  <2> SUFFICES ASSUME k < j PROVE FALSE
    OBVIOUS
  <2>1. Len(rest) > 0 /\ rest[1] = s[k + 1] /\ k + 1 \in 1..j
    BY <1>1, <1>2 DEF Pruned
  <2>2. s[k + 1].age < Window /\ s[k + 1].age = Window
    BY <1>1, <2>1 DEF Pruned
  <2> QED
    BY <2>2, LimitsAre
<1>4. ~(j < k)
  <2> SUFFICES ASSUME j < k PROVE FALSE
    OBVIOUS
  <2>1. Len(Recent(s)) > 0 /\ Recent(s)[1] = s[j + 1] /\ j + 1 \in 1..k
    BY <1>1, <1>2 DEF Pruned
  <2>2. s[j + 1].age < Window /\ s[j + 1].age = Window
    BY <1>1, <2>1 DEF Pruned
  <2> QED
    BY <2>2, LimitsAre
<1>5. j = k
  BY <1>3, <1>4
<1>6. rest \in Seq(Event) /\ Recent(s) \in Seq(Event) /\ Len(rest) = Len(Recent(s))
      /\ \A i \in 1..Len(rest) : rest[i] = Recent(s)[i]
  BY <1>1, <1>5 DEF Pruned
<1> QED
  BY <1>6, SeqEqual

LEMMA OrphanedIs ==
  ASSUME NEW s \in Seq(Event), NEW l \in Login
  PROVE  /\ Orphaned(s, l) \in Seq(Event) /\ Len(Orphaned(s, l)) = Len(s)
         /\ \A i \in 1..Len(s) :
              /\ Orphaned(s, l)[i].age = s[i].age
              /\ Orphaned(s, l)[i].lease = IF s[i].lease = l THEN NoOne ELSE s[i].lease
              /\ Orphaned(s, l)[i] = IF s[i].lease = l THEN [s[i] EXCEPT !.lease = NoOne] ELSE s[i]
<1> DEFINE t == [i \in 1..Len(s) |->
                   IF s[i].lease = l THEN [s[i] EXCEPT !.lease = NoOne] ELSE s[i]]
<1>1. Len(s) \in Nat /\ DOMAIN s = 1..Len(s) /\ \A i \in 1..Len(s) : s[i] \in Event
  BY Elements
<1>2. \A e \in Event : /\ [e EXCEPT !.lease = NoOne] \in Event
                       /\ [e EXCEPT !.lease = NoOne].lease = NoOne
                       /\ [e EXCEPT !.lease = NoOne].age = e.age
  BY DEF Event
<1>3. Orphaned(s, l) = t
  BY <1>1 DEF Orphaned
<1>4. t \in [1..Len(s) -> Event]
  BY <1>1, <1>2
<1>5. t \in Seq(Event) /\ Len(t) = Len(s)
  BY <1>1, <1>4, FunctionIsSequence
<1> QED
  BY <1>1, <1>2, <1>3, <1>5

LEMMA OlderIs ==
  ASSUME NEW s \in Seq(Event)
  PROVE  /\ Older(s) \in Seq(Event) /\ Len(Older(s)) = Len(s)
         /\ \A i \in 1..Len(s) :
              /\ Older(s)[i].age = IF s[i].age < Window THEN s[i].age + 1 ELSE s[i].age
              /\ Older(s)[i].lease = s[i].lease
              /\ Older(s)[i] = [s[i] EXCEPT !.age = IF @ < Window THEN @ + 1 ELSE @]
<1> DEFINE aged(e) == [e EXCEPT !.age = IF @ < Window THEN @ + 1 ELSE @]
           t == [i \in 1..Len(s) |-> aged(s[i])]
<1>1. Len(s) \in Nat /\ DOMAIN s = 1..Len(s) /\ \A i \in 1..Len(s) : s[i] \in Event
  BY Elements
<1>2. ASSUME NEW e \in Event
      PROVE  /\ aged(e) \in Event /\ aged(e).lease = e.lease
             /\ aged(e).age = IF e.age < Window THEN e.age + 1 ELSE e.age
  <2>1. e = [age |-> e.age, lease |-> e.lease] /\ e.age \in 0..Window
        /\ e.lease \in Login \cup {NoOne}
    BY DEF Event
  <2>2. aged(e) = [age |-> IF e.age < Window THEN e.age + 1 ELSE e.age, lease |-> e.lease]
    BY <2>1
  <2>3. (IF e.age < Window THEN e.age + 1 ELSE e.age) \in 0..Window
    BY <2>1, LimitsAre
  <2> HIDE DEF aged
  <2> QED
    BY <2>1, <2>2, <2>3 DEF Event
<1>3. Older(s) = t
  BY <1>1 DEF Older
<1>4. \A i \in 1..Len(s) : aged(s[i]) \in Event
  BY <1>1, <1>2
<1>5. t \in [1..Len(s) -> Event]
  <2> HIDE DEF aged
  <2> QED
    BY <1>4
<1>6. t \in Seq(Event) /\ Len(t) = Len(s)
  BY <1>1, <1>5, FunctionIsSequence
<1>7. \A i \in 1..Len(s) : t[i] = aged(s[i])
  OBVIOUS
<1> HIDE DEF aged, t
<1>8. \A i \in 1..Len(s) : /\ t[i].age = IF s[i].age < Window THEN s[i].age + 1 ELSE s[i].age
                           /\ t[i].lease = s[i].lease
  BY <1>1, <1>2, <1>7
<1>9. \A i \in 1..Len(s) : t[i] = [s[i] EXCEPT !.age = IF @ < Window THEN @ + 1 ELSE @]
  BY <1>7 DEF aged
<1> QED
  BY <1>3, <1>6, <1>8, <1>9

LEMMA NothingWithout ==
  ASSUME NEW s \in Seq(Event), NEW l, \A i \in 1..Len(s) : s[i].lease # l
  PROVE  Without(s, l) = s
BY DEF Without, RemoveFirstMatch

\* If a lease has one event, that one is removed.
LEMMA WithoutIs ==
  ASSUME NEW s \in Seq(Event), NEW l, NEW m \in 1..Len(s), s[m].lease = l,
         \A i \in 1..Len(s) : s[i].lease = l => i = m
  PROVE  Without(s, l) = RemoveAt(s, m)
<1> DEFINE I == {i \in 1..Len(s) : s[i].lease = l}
<1>1. I = {m}
  OBVIOUS
<1>2. Min(I) = m
  BY <1>1 DEF Min
<1>3. SelectInSeq(s, LAMBDA e : e.lease = l) = m
  BY <1>1, <1>2 DEF SelectInSeq
<1> QED
  BY <1>3 DEF Without, RemoveFirstMatch

----------------------------------------------------------------------------
(* The attempts of the last window are the events that are left.           *)

Counted(e, t) ==
  /\ e \in Seq(Event) /\ t \in Seq(Event)
  /\ t = Recent(e)
  /\ \A i \in 1..Len(t) : t[i].age < Window
  /\ \A i, j \in 1..Len(t) : i <= j => t[j].age <= t[i].age

OneLease(e, l) == \A i, j \in 1..Len(e) : e[i].lease = l /\ e[j].lease = l => i = j

LEMMA CountedAppend ==
  ASSUME NEW e, NEW t, Counted(e, t), NEW l \in Login
  PROVE  Counted(Append(t, [age |-> 0, lease |-> l]), Append(t, [age |-> 0, lease |-> l]))
<1> DEFINE new == [age |-> 0, lease |-> l]
           longer == Append(t, new)
<1>1. t \in Seq(Event) /\ Len(t) \in Nat /\ \A i \in 1..Len(t) : t[i].age \in 0..Window
  BY Elements DEF Counted
<1>2. new \in Event /\ new.age = 0
  BY LimitsAre DEF Event
<1> HIDE DEF new
<1>3. /\ longer \in Seq(Event) /\ Len(longer) = Len(t) + 1
      /\ \A i \in 1..Len(t) : longer[i] = t[i]
      /\ longer[Len(t) + 1] = new
  BY <1>1, <1>2, AppendProperties
<1> HIDE DEF longer
<1>4. \A i \in 1..Len(longer) : longer[i].age < Window
  BY <1>1, <1>2, <1>3, LimitsAre DEF Counted
<1>5. \A i, j \in 1..Len(longer) : i <= j => longer[j].age <= longer[i].age
  BY <1>1, <1>2, <1>3, LimitsAre DEF Counted
<1>6. Pruned(longer, 0, longer)
  BY <1>1, <1>3, <1>4 DEF Pruned
<1>7. longer = Recent(longer)
  BY <1>3, <1>6, PrunedIsRecent
<1> QED
  BY <1>3, <1>4, <1>5, <1>7 DEF Counted, longer, new

LEMMA CountedOrphaned ==
  ASSUME NEW e, NEW t, Counted(e, t), NEW l \in Login
  PROVE  Counted(Orphaned(e, l), Orphaned(t, l)) /\ Len(Orphaned(t, l)) = Len(t)
<1> DEFINE e2 == Orphaned(e, l)
           t2 == Orphaned(t, l)
<1>1. e \in Seq(Event) /\ t \in Seq(Event) /\ Len(e) \in Nat /\ Len(t) \in Nat
  BY Elements DEF Counted
<1>2. /\ e2 \in Seq(Event) /\ Len(e2) = Len(e) /\ \A i \in 1..Len(e) : e2[i].age = e[i].age
      /\ t2 \in Seq(Event) /\ Len(t2) = Len(t) /\ \A i \in 1..Len(t) : t2[i].age = t[i].age
  BY ZenonT(40), <1>1, OrphanedIs
<1>3. ASSUME NEW i \in 1..Len(e), NEW j \in 1..Len(t), e[i] = t[j] PROVE e2[i] = t2[j]
  <2>1. e2[i] = IF e[i].lease = l THEN [e[i] EXCEPT !.lease = NoOne] ELSE e[i]
    BY <1>1, OrphanedIs
  <2>2. t2[j] = IF t[j].lease = l THEN [t[j] EXCEPT !.lease = NoOne] ELSE t[j]
    BY <1>1, OrphanedIs
  <2> HIDE DEF e2, t2
  <2> QED
    BY <1>3, <2>1, <2>2
<1>4. PICK k \in 0..Len(e) : Pruned(e, k, t)
  BY <1>1, RecentIsPruned DEF Counted
<1> HIDE DEF e2, t2
<1>5. \A i \in 1..Len(t) : k + i \in 1..Len(e) /\ t[i] = e[k + i]
  BY <1>1, <1>4 DEF Pruned
<1>6. Pruned(e2, k, t2)
  <2>1. k \in 0..Len(e2) /\ Len(t2) = Len(e2) - k
    BY <1>2, <1>4 DEF Pruned
  <2>2. \A i \in 1..Len(t2) : t2[i] = e2[k + i]
    BY <1>2, <1>3, <1>5
  <2>3. \A i \in 1..k : e2[i].age = Window
    BY SMTT(30), <1>1, <1>2, <1>4 DEF Pruned
  <2>4. Len(t2) > 0 => t2[1].age < Window
    BY <1>1, <1>2, <1>4 DEF Pruned
  <2> QED
    BY <1>2, <2>1, <2>2, <2>3, <2>4 DEF Pruned
<1>7. t2 = Recent(e2)
  BY <1>2, <1>6, PrunedIsRecent
<1>8. /\ \A i \in 1..Len(t2) : t2[i].age < Window
      /\ \A i, j \in 1..Len(t2) : i <= j => t2[j].age <= t2[i].age
  BY <1>2 DEF Counted
<1> QED
  BY <1>2, <1>7, <1>8 DEF Counted, e2, t2

\* A refund of an event that has expired takes nothing from the attempts of the window.
LEMMA CountedWithout ==
  ASSUME NEW e, NEW t, Counted(e, t), NEW l \in Login, OneLease(e, l)
  PROVE  /\ Counted(Without(e, l), Without(t, l)) /\ Len(Without(t, l)) <= Len(t)
         /\ \A i \in 1..Len(Without(e, l)) : Without(e, l)[i].lease # l
         /\ \/ Without(e, l) = e
            \/ \E m \in 1..Len(e) : Without(e, l) = RemoveAt(e, m)
<1>1. e \in Seq(Event) /\ t \in Seq(Event) /\ Len(e) \in Nat /\ Len(t) \in Nat
  BY Elements DEF Counted
<1>2. PICK k \in 0..Len(e) : Pruned(e, k, t)
  BY <1>1, RecentIsPruned DEF Counted
<1>3. k \in Nat /\ Len(t) = Len(e) - k /\ \A i \in 1..Len(t) : t[i] = e[k + i]
  BY <1>2 DEF Pruned
<1>4. CASE \A i \in 1..Len(e) : e[i].lease # l
  <2>1. \A i \in 1..Len(t) : k + i \in 1..Len(e)
    BY <1>1, <1>3
  <2>2. \A i \in 1..Len(t) : t[i].lease # l
    BY <1>3, <1>4, <2>1
  <2>3. Without(e, l) = e /\ Without(t, l) = t
    BY <1>1, <1>4, <2>2, NothingWithout
  <2> QED
    BY <1>1, <1>4, <2>3
<1>5. CASE \E i \in 1..Len(e) : e[i].lease = l
  <2>1. PICK m \in 1..Len(e) : e[m].lease = l
    BY <1>5
  <2>2. \A i \in 1..Len(e) : e[i].lease = l => i = m
    BY <2>1 DEF OneLease
  <2>3. Without(e, l) = RemoveAt(e, m)
    BY <1>1, <2>1, <2>2, WithoutIs
  <2> DEFINE e2 == RemoveAt(e, m)
  <2>4. /\ e2 \in Seq(Event) /\ Len(e2) = Len(e) - 1
        /\ \A i \in 1..(Len(e) - 1) : e2[i] = IF i < m THEN e[i] ELSE e[i + 1]
    BY <1>1, RemovedAt
  <2> HIDE DEF e2
  <2>5. \A i \in 1..Len(e2) : e2[i].lease # l
    <3> SUFFICES ASSUME NEW i \in 1..Len(e2) PROVE e2[i].lease # l
      OBVIOUS
    <3>1. CASE i < m
      BY <1>1, <2>2, <2>4, <3>1
    <3>2. CASE ~(i < m)
      BY <1>1, <2>2, <2>4, <3>2
    <3> QED
      BY <3>1, <3>2
  <2>6. CASE m <= k
    <3>1. \A i \in 1..Len(t) : k + i \in 1..Len(e) /\ k + i # m
      BY <1>1, <1>3, <2>6
    <3>2. \A i \in 1..Len(t) : t[i].lease # l
      BY <1>3, <2>2, <3>1
    <3>3. Without(t, l) = t
      BY <1>1, <3>2, NothingWithout
    <3>4. \A i \in 1..Len(t) : t[i] = e2[(k - 1) + i]
      <4> SUFFICES ASSUME NEW i \in 1..Len(t) PROVE t[i] = e2[(k - 1) + i]
        OBVIOUS
      <4>1. (k - 1) + i \in 1..(Len(e) - 1) /\ ~((k - 1) + i < m) /\ ((k - 1) + i) + 1 = k + i
        BY <1>1, <1>3, <2>6
      <4> QED
        BY <1>3, <2>4, <4>1
    <3>5. \A i \in 1..(k - 1) : e2[i].age = Window
      <4> SUFFICES ASSUME NEW i \in 1..(k - 1) PROVE e2[i].age = Window
        OBVIOUS
      <4>1. i \in 1..(Len(e) - 1) /\ i \in 1..k /\ i + 1 \in 1..k
        BY <1>1, <1>2, <1>3
      <4> QED
        BY <1>2, <2>4, <4>1 DEF Pruned
    <3>6. k - 1 \in 0..Len(e2) /\ Len(t) = Len(e2) - (k - 1) /\ k - 1 \in Nat
      BY <1>1, <1>2, <1>3, <2>4, <2>6
    <3>7. Pruned(e2, k - 1, t)
      BY <1>1, <1>2, <3>4, <3>5, <3>6 DEF Pruned
    <3>8. t = Recent(e2)
      BY <2>4, <3>6, <3>7, PrunedIsRecent
    <3>9. Counted(e2, t)
      BY <2>4, <3>8 DEF Counted
    <3> QED
      BY <1>1, <2>3, <2>5, <3>3, <3>9 DEF e2
  <2>7. CASE ~(m <= k)
    <3> DEFINE n == m - k
               t2 == RemoveAt(t, n)
    <3>1. n \in 1..Len(t) /\ k + n = m /\ n \in Nat
      BY <1>1, <1>3, <2>7
    <3> HIDE DEF n
    <3>2. t[n].lease = l /\ \A i \in 1..Len(t) : t[i].lease = l => i = n
      <4>1. \A i \in 1..Len(t) : k + i \in 1..Len(e)
        BY <1>1, <1>3
      <4>2. \A i \in 1..Len(t) : t[i].lease = l => k + i = m
        BY <1>3, <2>2, <4>1
      <4>3. t[n] = e[m]
        BY <1>3, <3>1
      <4>4. \A i \in 1..Len(t) : k + i = m => i = n
        BY <1>3, <3>1
      <4> QED
        BY <2>1, <4>2, <4>3, <4>4
    <3>3. Without(t, l) = t2
      BY <1>1, <3>1, <3>2, WithoutIs
    <3>4. /\ t2 \in Seq(Event) /\ Len(t2) = Len(t) - 1
          /\ \A i \in 1..(Len(t) - 1) : t2[i] = IF i < n THEN t[i] ELSE t[i + 1]
      BY <1>1, <3>1, RemovedAt
    <3> HIDE DEF t2
    <3>5. \A i \in 1..Len(t2) : t2[i] = e2[k + i]
      <4> SUFFICES ASSUME NEW i \in 1..Len(t2) PROVE t2[i] = e2[k + i]
        OBVIOUS
      <4>1. k + i \in 1..(Len(e) - 1) /\ i \in 1..(Len(t) - 1) /\ (k + i < m <=> i < n)
            /\ i \in 1..Len(t) /\ i + 1 \in 1..Len(t) /\ k + (i + 1) = (k + i) + 1
        BY SMTT(30), <1>1, <1>3, <3>1, <3>4
      <4>2. t[i] = e[k + i] /\ t[i + 1] = e[(k + i) + 1]
        BY <1>3, <4>1
      <4> QED
        BY <2>4, <3>4, <4>1, <4>2
    <3>6. \A i \in 1..k : e2[i].age = Window
      <4> SUFFICES ASSUME NEW i \in 1..k PROVE e2[i].age = Window
        OBVIOUS
      <4>1. i \in 1..(Len(e) - 1) /\ i < m
        BY <1>1, <1>3, <2>7
      <4> QED
        BY <1>2, <2>4, <4>1 DEF Pruned
    <3>7. \A i \in 1..Len(t2) : \E p \in 1..Len(t) :
            /\ p = (IF i < n THEN i ELSE i + 1) /\ t2[i] = t[p]
      BY <1>1, <3>1, <3>4
    <3>8. /\ \A i \in 1..Len(t2) : t2[i].age < Window
          /\ \A i, j \in 1..Len(t2) : i <= j => t2[j].age <= t2[i].age
      <4>1. \A i \in 1..Len(t2) : t2[i].age < Window
        BY <3>7 DEF Counted
      <4>2. ASSUME NEW i \in 1..Len(t2), NEW j \in 1..Len(t2), i <= j
            PROVE  t2[j].age <= t2[i].age
        <5>1. PICK p \in 1..Len(t) : p = (IF i < n THEN i ELSE i + 1) /\ t2[i] = t[p]
          BY <3>7
        <5>2. PICK q \in 1..Len(t) : q = (IF j < n THEN j ELSE j + 1) /\ t2[j] = t[q]
          BY <3>7
        <5>3. p <= q
          BY <1>1, <3>1, <3>4, <4>2, <5>1, <5>2
        <5> QED
          BY <5>1, <5>2, <5>3 DEF Counted
      <4> QED
        BY <4>1, <4>2
    <3>9. Pruned(e2, k, t2)
      <4>1. k \in 0..Len(e2) /\ Len(t2) = Len(e2) - k
        BY <1>1, <1>3, <2>4, <2>7, <3>4
      <4>2. Len(t2) > 0 => t2[1].age < Window
        BY <1>1, <3>4, <3>8
      <4> QED
        BY <3>4, <3>5, <3>6, <4>1, <4>2 DEF Pruned
    <3>10. t2 = Recent(e2)
      BY <1>3, <2>4, <3>9, PrunedIsRecent
    <3>11. Counted(e2, t2)
      BY <2>4, <3>4, <3>8, <3>10 DEF Counted
    <3> QED
      BY <1>1, <2>3, <2>5, <3>3, <3>4, <3>11 DEF e2
  <2> QED
    BY <2>6, <2>7
<1> QED
  BY <1>4, <1>5

\* Time passes: what expires among the attempts expires among the events.
LEMMA CountedOlder ==
  ASSUME NEW e, NEW t, Counted(e, t)
  PROVE  Counted(Older(e), Recent(Older(t))) /\ Len(Recent(Older(t))) <= Len(t)
<1> DEFINE e2 == Older(e)
           t1 == Older(t)
           t2 == Recent(t1)
<1>1. /\ e \in Seq(Event) /\ t \in Seq(Event) /\ Len(e) \in Nat /\ Len(t) \in Nat
      /\ \A i \in 1..Len(t) : t[i].age \in 0..Window
  BY Elements DEF Counted
<1>2. PICK k \in 0..Len(e) : Pruned(e, k, t)
  BY <1>1, RecentIsPruned DEF Counted
<1>3. k \in Nat /\ Len(t) = Len(e) - k /\ \A i \in 1..Len(t) : t[i] = e[k + i]
  BY <1>2 DEF Pruned
<1>4. /\ e2 \in Seq(Event) /\ Len(e2) = Len(e)
      /\ \A i \in 1..Len(e) : e2[i].age = IF e[i].age < Window THEN e[i].age + 1 ELSE e[i].age
      /\ t1 \in Seq(Event) /\ Len(t1) = Len(t)
      /\ \A i \in 1..Len(t) : t1[i].age = IF t[i].age < Window THEN t[i].age + 1 ELSE t[i].age
  BY <1>1, OlderIs
<1>5. ASSUME NEW i \in 1..Len(e), NEW n \in 1..Len(t), e[i] = t[n] PROVE e2[i] = t1[n]
  <2>1. e2[i] = [e[i] EXCEPT !.age = IF @ < Window THEN @ + 1 ELSE @]
    BY <1>1, OlderIs
  <2>2. t1[n] = [t[n] EXCEPT !.age = IF @ < Window THEN @ + 1 ELSE @]
    BY <1>1, OlderIs
  <2> HIDE DEF e2, t1
  <2> QED
    BY <1>5, <2>1, <2>2
<1>6. PICK j \in 0..Len(t1) : Pruned(t1, j, t2)
  BY <1>4, RecentIsPruned
<1> HIDE DEF e2, t1, t2
<1>7. j \in Nat /\ t2 \in Seq(Event) /\ Len(t2) = Len(t) - j
      /\ \A i \in 1..Len(t2) : t2[i] = t1[j + i]
  BY <1>4, <1>6 DEF Pruned
<1>8. \A i \in 1..Len(t) : t1[i] = e2[k + i]
  <2> SUFFICES ASSUME NEW i \in 1..Len(t) PROVE t1[i] = e2[k + i]
    OBVIOUS
  <2>1. k + i \in 1..Len(e)
    BY <1>1, <1>3
  <2> QED
    BY <1>3, <1>5, <2>1
<1>9. \A i \in 1..Len(t2) : t2[i] = e2[(k + j) + i]
  <2> SUFFICES ASSUME NEW i \in 1..Len(t2) PROVE t2[i] = e2[(k + j) + i]
    OBVIOUS
  <2>1. j + i \in 1..Len(t) /\ k + (j + i) = (k + j) + i
    BY <1>1, <1>3, <1>7
  <2> QED
    BY <1>7, <1>8, <2>1
<1>10. \A i \in 1..(k + j) : e2[i].age = Window
  <2> SUFFICES ASSUME NEW i \in 1..(k + j) PROVE e2[i].age = Window
    OBVIOUS
  <2>1. CASE i <= k
    <3>1. i \in 1..Len(e) /\ i \in 1..k
      BY <1>1, <1>2, <1>3, <2>1
    <3>2. e[i].age = Window
      BY <1>2, <3>1 DEF Pruned
    <3> QED
      BY <1>4, <3>1, <3>2, LimitsAre
  <2>2. CASE ~(i <= k)
    <3>1. i - k \in 1..j /\ i - k \in 1..Len(t) /\ k + (i - k) = i
      BY <1>1, <1>3, <1>4, <1>6, <2>2
    <3>2. t1[i - k].age = Window
      BY <1>6, <3>1 DEF Pruned
    <3> QED
      BY <1>8, <3>1, <3>2
  <2> QED
    BY <2>1, <2>2
<1>11. Pruned(e2, k + j, t2)
  <2>1. k + j \in 0..Len(e2) /\ Len(t2) = Len(e2) - (k + j)
    BY <1>1, <1>3, <1>4, <1>6, <1>7
  <2>2. Len(t2) > 0 => t2[1].age < Window
    BY <1>6 DEF Pruned
  <2> QED
    BY <1>7, <1>9, <1>10, <2>1, <2>2 DEF Pruned
<1>12. t2 = Recent(e2)
  BY <1>3, <1>4, <1>7, <1>11, PrunedIsRecent
<1>13. \A p, q \in 1..Len(t2) : p <= q => t2[q].age <= t2[p].age
  <2> SUFFICES ASSUME NEW p \in 1..Len(t2), NEW q \in 1..Len(t2), p <= q
               PROVE  t2[q].age <= t2[p].age
    OBVIOUS
  <2>1. j + p \in 1..Len(t) /\ j + q \in 1..Len(t) /\ j + p <= j + q
    BY <1>1, <1>7
  <2>2. t[j + q].age <= t[j + p].age
    BY <2>1 DEF Counted
  <2>3. t1[j + q].age <= t1[j + p].age
    <3>1. \A i \in 1..Len(t) : t1[i].age = IF t[i].age < Window THEN t[i].age + 1 ELSE t[i].age
      BY <1>4
    <3>2. \A x, y \in 0..Window : y <= x =>
            (IF y < Window THEN y + 1 ELSE y) <= (IF x < Window THEN x + 1 ELSE x)
      BY LimitsAre
    <3>3. t[j + p].age \in 0..Window /\ t[j + q].age \in 0..Window
      BY <1>1, <2>1
    <3> QED
      BY <2>1, <2>2, <3>1, <3>2, <3>3
  <2> QED
    BY <1>7, <2>3
<1>14. \A i \in 1..Len(t2) : t2[i].age < Window
  <2> SUFFICES ASSUME NEW i \in 1..Len(t2) PROVE t2[i].age < Window
    OBVIOUS
  <2>1. Len(t2) > 0 /\ 1 \in 1..Len(t2) /\ 1 <= i
    BY <1>1, <1>7
  <2>2. t2[1].age < Window /\ t2[i].age <= t2[1].age
    BY <1>6, <1>13, <2>1 DEF Pruned
  <2>3. t2[i].age \in 0..Window /\ t2[1].age \in 0..Window
    BY <1>7, <2>1, Elements
  <2> QED
    BY <2>2, <2>3, LimitsAre
<1> QED
  BY <1>1, <1>4, <1>7, <1>12, <1>13, <1>14 DEF Counted, e2, t1, t2

----------------------------------------------------------------------------
(* A login under way has one event, and nobody else has one. *)

UnderLease == {"leased", "verified", "opened"}

Leased(e, stage) ==
  /\ \A i \in 1..Len(e) : e[i].lease \in Login => stage[e[i].lease] \in UnderLease
  /\ \A l \in Login : OneLease(e, l)

\* The events that are left are others no more than once, and their logins are where they were.
LEMMA LeasedStill ==
  ASSUME NEW e, NEW e2, NEW stage, NEW stage2, Leased(e, stage),
         NEW from \in [1..Len(e2) -> 1..Len(e)],
         \A i, j \in 1..Len(e2) : from[i] = from[j] => i = j,
         \A i \in 1..Len(e2) : e2[i].lease \in Login => e2[i].lease = e[from[i]].lease,
         \A i \in 1..Len(e2) : e2[i].lease \in Login /\ stage[e2[i].lease] \in UnderLease
                               => stage2[e2[i].lease] \in UnderLease
  PROVE  Leased(e2, stage2)
<1>1. \A i \in 1..Len(e2) : from[i] \in 1..Len(e)
  OBVIOUS
<1>2. \A i \in 1..Len(e2) : e2[i].lease \in Login => stage2[e2[i].lease] \in UnderLease
  BY <1>1 DEF Leased
<1>3. ASSUME NEW l \in Login, NEW i \in 1..Len(e2), NEW j \in 1..Len(e2),
             e2[i].lease = l, e2[j].lease = l
      PROVE  i = j
  <2>1. e[from[i]].lease = l /\ e[from[j]].lease = l
    BY <1>3
  <2>2. from[i] = from[j]
    BY <1>1, <2>1 DEF Leased, OneLease
  <2> QED
    BY <2>2
<1> QED
  BY <1>2, <1>3 DEF Leased, OneLease

LEMMA LeasedRecent ==
  ASSUME NEW e, NEW t, Counted(e, t), NEW stage, Leased(e, stage)
  PROVE  Leased(t, stage)
<1>1. e \in Seq(Event) /\ t \in Seq(Event) /\ Len(e) \in Nat /\ Len(t) \in Nat
  BY Elements DEF Counted
<1>2. PICK k \in 0..Len(e) : Pruned(e, k, t)
  BY <1>1, RecentIsPruned DEF Counted
<1>3. k \in Nat /\ Len(t) = Len(e) - k /\ \A i \in 1..Len(t) : t[i] = e[k + i]
  BY <1>2 DEF Pruned
<1> DEFINE from == [i \in 1..Len(t) |-> k + i]
<1>4. from \in [1..Len(t) -> 1..Len(e)]
  BY <1>1, <1>3
<1>5. \A i, j \in 1..Len(t) : from[i] = from[j] => i = j
  BY <1>1, <1>3
<1>6. \A i \in 1..Len(t) : t[i].lease = e[from[i]].lease
  BY <1>3
<1> HIDE DEF from
<1> QED
  BY <1>4, <1>5, <1>6, LeasedStill

LEMMA LeasedAppend ==
  ASSUME NEW t \in Seq(Event), NEW stage, NEW stage2, Leased(t, stage), NEW l \in Login,
         stage[l] \notin UnderLease, stage2[l] \in UnderLease,
         \A m \in Login \ {l} : stage2[m] = stage[m]
  PROVE  Leased(Append(t, [age |-> 0, lease |-> l]), stage2)
<1> DEFINE new == [age |-> 0, lease |-> l]
           longer == Append(t, new)
<1>1. Len(t) \in Nat
  BY Elements
<1>2. new \in Event /\ new.lease = l
  BY LimitsAre DEF Event
<1> HIDE DEF new
<1>3. /\ Len(longer) = Len(t) + 1
      /\ \A i \in 1..Len(t) : longer[i] = t[i]
      /\ longer[Len(t) + 1] = new
  BY <1>1, <1>2, AppendProperties
<1> HIDE DEF longer
<1>4. \A i \in 1..Len(t) : t[i].lease # l
  BY DEF Leased
<1>5. \A i \in 1..Len(longer) : i \in 1..Len(t) \/ i = Len(t) + 1
  BY <1>1, <1>3
<1>6. \A i \in 1..Len(longer) : longer[i].lease \in Login => stage2[longer[i].lease] \in UnderLease
  BY <1>2, <1>3, <1>4, <1>5 DEF Leased
<1>7. ASSUME NEW m \in Login, NEW i \in 1..Len(longer), NEW j \in 1..Len(longer),
             longer[i].lease = m, longer[j].lease = m
      PROVE  i = j
  <2>1. CASE m = l
    BY <1>3, <1>4, <1>5, <1>7, <2>1
  <2>2. CASE m # l
    <3>1. i \in 1..Len(t) /\ j \in 1..Len(t)
      BY <1>2, <1>3, <1>5, <1>7, <2>2
    <3> QED
      BY <1>3, <1>7, <3>1 DEF Leased, OneLease
  <2> QED
    BY <2>1, <2>2
<1> QED
  BY <1>6, <1>7 DEF Leased, OneLease, longer, new

LEMMA LeasedOrphaned ==
  ASSUME NEW e \in Seq(Event), NEW stage, NEW stage2, Leased(e, stage), NEW l \in Login,
         \A m \in Login \ {l} : stage2[m] = stage[m]
  PROVE  Leased(Orphaned(e, l), stage2)
<1> DEFINE from == [i \in 1..Len(e) |-> i]
           e2   == Orphaned(e, l)
<1>1. /\ Len(e2) = Len(e)
      /\ \A i \in 1..Len(e) : e2[i].lease = IF e[i].lease = l THEN NoOne ELSE e[i].lease
  BY OrphanedIs
<1>2. \A i \in 1..Len(e2) : e2[i].lease \in Login => e2[i].lease = e[i].lease /\ e2[i].lease # l
  BY <1>1, LimitsAre
<1>3. from \in [1..Len(e2) -> 1..Len(e)] /\ \A i \in 1..Len(e2) : from[i] = i
  BY <1>1
<1> HIDE DEF from, e2
<1>4. Leased(e2, stage2)
  BY <1>2, <1>3, LeasedStill
<1> QED
  BY <1>4 DEF e2

\* What is left once the event of lease l, if there was one, has been removed.
Returned(e, e2, l) ==
  /\ \A i \in 1..Len(e2) : e2[i].lease # l
  /\ e2 = e \/ \E m \in 1..Len(e) : e2 = RemoveAt(e, m)

Elsewhere(l, stage, stage2) == \A m \in Login \ {l} : stage2[m] = stage[m]

LEMMA LeasedWithout ==
  ASSUME NEW e \in Seq(Event), NEW e2, NEW stage, NEW stage2, NEW l \in Login,
         Leased(e, stage), Returned(e, e2, l), Elsewhere(l, stage, stage2)
  PROVE  Leased(e2, stage2)
<1> USE DEF Returned, Elsewhere
<1>1. Len(e) \in Nat
  BY Elements
<1>2. CASE e2 = e
  BY <1>2 DEF Leased
<1>3. CASE \E m \in 1..Len(e) : e2 = RemoveAt(e, m)
  <2>1. PICK m \in 1..Len(e) : e2 = RemoveAt(e, m)
    BY <1>3
  <2>2. /\ Len(e2) = Len(e) - 1
        /\ \A i \in 1..(Len(e) - 1) : e2[i] = IF i < m THEN e[i] ELSE e[i + 1]
    BY <1>1, <2>1, RemovedAt
  <2> DEFINE from == [i \in 1..Len(e2) |-> IF i < m THEN i ELSE i + 1]
  <2>3. from \in [1..Len(e2) -> 1..Len(e)]
    BY <1>1, <2>2
  <2>4. \A i, j \in 1..Len(e2) : from[i] = from[j] => i = j
    BY <1>1, <2>2
  <2>5. \A i \in 1..Len(e2) : e2[i] = e[from[i]]
    BY <2>2
  <2> HIDE DEF from
  <2> QED
    BY <2>3, <2>4, <2>5, LeasedStill
<1> QED
  BY <1>2, <1>3

LEMMA LeasedOlder ==
  ASSUME NEW e \in Seq(Event), NEW stage, Leased(e, stage)
  PROVE  Leased(Older(e), stage)
<1>1. Len(Older(e)) = Len(e) /\ \A i \in 1..Len(e) : Older(e)[i].lease = e[i].lease
  BY OlderIs
<1> QED
  BY <1>1 DEF Leased, OneLease

----------------------------------------------------------------------------
(* Every step keeps the two lists so. *)

LimiterInv == Counted(events, tries) /\ Leased(events, pc) /\ Len(tries) <= Attempts

LEMMA LimiterParts == IInv <=> RequestsInv /\ LimiterInv
<1>1. LimiterTypeOK => DOMAIN events = 1..Len(events) /\ DOMAIN tries = 1..Len(tries)
  BY Elements DEF LimiterTypeOK
<1>2. LimiterTypeOK /\ TriesCounted <=> Counted(events, tries)
  <2>1. Counted(events, tries) => LimiterTypeOK
    BY DEF Counted, LimiterTypeOK
  <2> QED
    BY <1>1, <2>1 DEF LimiterTypeOK, TriesCounted, Counted
<1>3. LimiterTypeOK => (LeasesHeld <=> Leased(events, pc))
  <2> SUFFICES ASSUME LimiterTypeOK PROVE LeasesHeld <=> Leased(events, pc)
    OBVIOUS
  <2>1. LeasesHeld => Leased(events, pc)
    BY <1>1 DEF LeasesHeld, Leased, OneLease, UnderLease
  <2>2. Leased(events, pc) => LeasesHeld
    BY <1>1 DEF LeasesHeld, Leased, OneLease, UnderLease
  <2> QED
    BY <2>1, <2>2
<1>4. GuessesWithinLimit <=> Len(tries) <= Attempts
  BY DEF GuessesWithinLimit
<1>5. Counted(events, tries) => LimiterTypeOK
  BY DEF Counted, LimiterTypeOK
<1> QED
  BY <1>2, <1>3, <1>4, <1>5 DEF IInv, LimiterInv

LEMMA LimiterKeptElsewhere ==
  ASSUME LimiterInv, UNCHANGED limiter,
         \A l \in Login : pc[l] \in UnderLease => pc'[l] \in UnderLease
  PROVE  LimiterInv'
<1>1. events' = events /\ tries' = tries
  BY DEF limiter
<1>2. Leased(events, pc')
  BY DEF LimiterInv, Leased
<1> QED
  BY <1>1, <1>2 DEF LimiterInv

\* A place is reserved only if the events of the window leave one.
LEMMA LimiterKeptByAttempt ==
  ASSUME RequestsInv, LimiterInv, NEW l \in Login, Attempt(l)
  PROVE  LimiterInv'
<1> DEFINE new == [age |-> 0, lease |-> l]
<1>1. tries \in Seq(Event) /\ Len(tries) \in Nat /\ tries = Recent(events)
  BY Elements DEF LimiterInv, Counted
<1>2. Len(tries) < Attempts /\ events' = Append(tries, new) /\ tries' = Append(tries, new)
  BY <1>1 DEF Attempt, Reserve
<1>3. pc[l] = "idle" /\ pc'[l] = "leased" /\ \A m \in Login \ {l} : pc'[m] = pc[m]
  BY DEF RequestsInv, RequestsTypeOK, Attempt, Go, Transaction
<1>4. Counted(events', tries')
  BY <1>2, CountedAppend DEF LimiterInv
<1>5. Leased(tries, pc)
  BY LeasedRecent DEF LimiterInv
<1>6. pc[l] \notin UnderLease /\ pc'[l] \in UnderLease
  BY <1>3 DEF UnderLease
<1>7. Leased(Append(tries, new), pc')
  BY <1>1, <1>3, <1>5, <1>6, LeasedAppend
<1>8. Len(tries') <= Attempts
  <2>1. new \in Event
    BY LimitsAre DEF Event
  <2> HIDE DEF new
  <2>2. Len(Append(tries, new)) = Len(tries) + 1
    BY <1>1, <2>1, AppendProperties
  <2> QED
    BY <1>1, <1>2, <2>2, LimitsAre
<1> QED
  BY <1>2, <1>4, <1>7, <1>8 DEF LimiterInv

LEMMA LimiterKeptByFailLogin ==
  ASSUME RequestsInv, LimiterInv, NEW l \in Login, FailLogin(l)
  PROVE  LimiterInv'
<1>1. events' = Orphaned(events, l) /\ tries' = Orphaned(tries, l)
  BY DEF FailLogin, Charge
<1>2. \A m \in Login \ {l} : pc'[m] = pc[m]
  BY DEF RequestsInv, RequestsTypeOK, FailLogin, Go, Transaction
<1>3. events \in Seq(Event)
  BY DEF LimiterInv, Counted
<1>4. Counted(Orphaned(events, l), Orphaned(tries, l)) /\ Len(Orphaned(tries, l)) = Len(tries)
  BY CountedOrphaned DEF LimiterInv
<1>5. Leased(Orphaned(events, l), pc')
  BY <1>2, <1>3, LeasedOrphaned DEF LimiterInv
<1> QED
  BY <1>1, <1>4, <1>5 DEF LimiterInv

LEMMA LimiterKeptByReturnLease ==
  ASSUME RequestsInv, LimiterInv, NEW l \in Login, ReturnLease(l)
  PROVE  LimiterInv'
<1>1. events' = Without(events, l) /\ tries' = Without(tries, l)
  BY DEF ReturnLease, Refund
<1>2. \A m \in Login \ {l} : pc'[m] = pc[m]
  BY DEF RequestsInv, RequestsTypeOK, ReturnLease, Go, Transaction
<1>3. events \in Seq(Event) /\ tries \in Seq(Event) /\ Len(tries) \in Nat /\ OneLease(events, l)
  BY Elements DEF LimiterInv, Counted, Leased
<1> DEFINE left == Without(events, l)
<1>4. /\ Counted(left, Without(tries, l)) /\ Len(Without(tries, l)) <= Len(tries)
      /\ \A i \in 1..Len(left) : left[i].lease # l
      /\ left = events \/ \E m \in 1..Len(events) : left = RemoveAt(events, m)
  BY <1>3, CountedWithout DEF LimiterInv
<1>5. Leased(left, pc')
  <2>1. Leased(events, pc) /\ Returned(events, left, l) /\ Elsewhere(l, pc, pc')
    BY <1>2, <1>4 DEF LimiterInv, Returned, Elsewhere
  <2> HIDE DEF left
  <2> QED
    BY <1>3, <2>1, LeasedWithout
<1>6. Len(Without(tries, l)) \in Nat
  BY <1>4, Elements DEF Counted
<1>7. Len(Without(tries, l)) <= Attempts
  BY <1>3, <1>4, <1>6, LimitsAre DEF LimiterInv
<1> QED
  BY <1>1, <1>4, <1>5, <1>7 DEF LimiterInv

LEMMA LimiterKeptByTime ==
  ASSUME LimiterInv, PassTime
  PROVE  LimiterInv'
<1>1. events' = Older(events) /\ tries' = Recent(Older(tries)) /\ pc' = pc
  BY DEF PassTime, Tick
<1>2. events \in Seq(Event) /\ Len(tries) \in Nat
  BY Elements DEF LimiterInv, Counted
<1>3. Counted(events', tries') /\ Len(tries') <= Len(tries)
  BY <1>1, CountedOlder DEF LimiterInv
<1>4. Leased(events', pc')
  BY <1>1, <1>2, LeasedOlder DEF LimiterInv
<1>5. Len(tries') \in Nat
  BY <1>3, Elements DEF Counted
<1>6. Len(tries') <= Attempts
  BY <1>2, <1>3, <1>5, LimitsAre DEF LimiterInv
<1> QED
  BY <1>3, <1>4, <1>6 DEF LimiterInv

\* A request that is not a login.
Other == Change \cup Acceptance \cup Invitation \cup Disabling \cup Enabling

LEMMA LimiterKeptByOthers ==
  ASSUME RequestsInv, LimiterInv, UNCHANGED limiter, NEW t \in Other, NEW stage,
         Go(t, stage) \/ End(t, stage)
  PROVE  LimiterInv'
<1>1. t \in Transaction /\ t \notin Login
  BY Kinds DEF Other, Transaction
<1>2. Go(t, stage)
  BY DEF End
<1>3. \A l \in Login : pc'[l] = pc[l]
  BY <1>1, <1>2 DEF RequestsInv, RequestsTypeOK, Go, Transaction
<1> QED
  BY <1>3, LimiterKeptElsewhere

LEMMA LimiterKept == ASSUME RequestsInv, LimiterInv, [Next]_vars PROVE LimiterInv'
<1>1. CASE UNCHANGED vars
  BY <1>1, LimiterKeptElsewhere DEF vars
<1>2. ASSUME NEW l \in Login, Verify(l) \/ OpenSession(l) PROVE LimiterInv'
  <2>1. pc'[l] \in UnderLease /\ \A m \in Login \ {l} : pc'[m] = pc[m]
    BY <1>2 DEF RequestsInv, RequestsTypeOK, Verify, OpenSession, Go, Transaction, UnderLease
  <2>2. UNCHANGED limiter
    BY <1>2 DEF Verify, OpenSession
  <2> QED
    BY <2>1, <2>2, LimiterKeptElsewhere
<1>3. ASSUME NEW l \in Login, EndSession(l) PROVE LimiterInv'
  BY <1>3, LimiterKeptElsewhere DEF EndSession
<1>4. ASSUME NEW i \in Invitation, CloseInvitation(i) PROVE LimiterInv'
  BY <1>4, LimiterKeptElsewhere DEF CloseInvitation
<1>5. ASSUME NEW t \in Acceptance \cup Invitation \cup Disabling \cup Enabling,
             ReadUser(t) \/ ReadAccount(t)
      PROVE  LimiterInv'
  BY <1>5, LimiterKeptByOthers DEF ReadUser, ReadAccount, Other
<1>6. ASSUME NEW c \in Change, LoadSession(c) \/ CommitChange(c) PROVE LimiterInv'
  BY <1>6, LimiterKeptByOthers DEF LoadSession, CommitChange, Finish, Other
<1>7. ASSUME NEW v \in Invitation, RefuseInvitation(v) \/ ReplaceActive(v) \/ CommitInvitation(v)
      PROVE  LimiterInv'
  BY <1>7, LimiterKeptByOthers
     DEF RefuseInvitation, ReplaceActive, CommitInvitation, GiveUp, Finish, Other
<1>8. ASSUME NEW a \in Acceptance, LoadValid(a) \/ RefuseAcceptance(a) \/ CommitAcceptance(a)
      PROVE  LimiterInv'
  BY <1>8, LimiterKeptByOthers
     DEF LoadValid, RefuseAcceptance, CommitAcceptance, GiveUp, Finish, Other
<1>9. ASSUME NEW d \in Disabling, FlushDisabling(d) \/ RevokeAllActive(d) \/ CommitDisabling(d)
      PROVE  LimiterInv'
  BY <1>9, LimiterKeptByOthers
     DEF FlushDisabling, RevokeAllActive, CommitDisabling, Finish, Other
<1>10. ASSUME NEW e \in Enabling, CommitEnabling(e) PROVE LimiterInv'
  BY <1>10, LimiterKeptByOthers DEF CommitEnabling, Finish, Other
<1>11. ASSUME NEW t \in Transaction, Abort(t) PROVE LimiterInv'
  BY <1>11, LimiterKeptByOthers DEF Abort, GiveUp, Other, Transaction
<1> QED
  BY <1>1, <1>2, <1>3, <1>4, <1>5, <1>6, <1>7, <1>8, <1>9, <1>10, <1>11, LimiterKeptByAttempt,
     LimiterKeptByFailLogin, LimiterKeptByReturnLease, LimiterKeptByTime DEF Next

LEMMA LimiterStart == Init => LimiterInv
<1> SUFFICES ASSUME Init PROVE LimiterInv
  OBVIOUS
<1>1. events = <<>> /\ tries = <<>>
  BY DEF Init, LimiterInit
<1>2. <<>> \in Seq(Event) /\ Len(<<>>) = 0
  OBVIOUS
<1>3. Pruned(<<>>, 0, <<>>)
  BY <1>2 DEF Pruned
<1>4. <<>> = Recent(<<>>)
  BY <1>2, <1>3, PrunedIsRecent
<1>5. Counted(<<>>, <<>>)
  BY <1>2, <1>4 DEF Counted
<1>6. Leased(<<>>, pc)
  BY <1>2 DEF Leased, OneLease
<1> QED
  BY <1>1, <1>2, <1>5, <1>6, LimitsAre DEF LimiterInv

----------------------------------------------------------------------------

\* The inductive invariant of the accounts with their limiter: what the requests read, hold
\* and are about to write, and that the events of the limiter are the attempts of its window
\* and the logins under way.
THEOREM AccountInvariance == Spec => []IInv
<1>1. Init => IInv
  BY Start, LimiterStart, LimiterParts
<1>2. ASSUME RequestsInv, LimiterInv, [Next]_vars PROVE RequestsInv' /\ LimiterInv'
  BY <1>2, TypesKept, InvitationsKept, DisablingKept, PasswordsKept, LimiterKept
     DEF RequestsInv, PasswordsInv
<1>3. IInv <=> RequestsInv /\ LimiterInv
  BY LimiterParts
<1> QED
  BY <1>1, <1>2, <1>3, PTL DEF Spec

\* Every variable of the accounts and of the limiter keeps its type.
THEOREM AccountTypes == Spec => []TypeOK
<1>1. IInv => TypeOK
  BY DEF IInv, RequestsInv, TypeOK
<1> QED
  BY <1>1, AccountInvariance, PTL

\* However logins overlap, fail, succeed and expire, no more than `attempts` of them fail or
\* are under way within one window: the place is taken before the password is looked at.
THEOREM GuessesAreLimited == Spec => []GuessesWithinLimit
<1>1. IInv => GuessesWithinLimit
  BY DEF IInv
<1> QED
  BY <1>1, AccountInvariance, PTL
==============================================================================
