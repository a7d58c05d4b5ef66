--------------------------- MODULE Recording_proofs ---------------------------
(***************************************************************************)
(* Safety of the recording, for any number of recordings and of polls: the *)
(* polling never meets a queue that is shut, and what is recorded is every *)
(* good poll, once and in order.                                           *)
(***************************************************************************)
EXTENDS Recording, WellFoundedInduction, TLAPS

Item == [n : Nat, ok : BOOLEAN]

Types ==
    /\ recording \in BOOLEAN
    /\ current \in 0..MaxStops /\ from \in 0..current
    /\ task \in Stations
    /\ buffer \in [Queue -> Seq(Item)]
    /\ recordings \in Seq(Nat)
    /\ polls \in Nat /\ since \in Nat /\ good \subseteq Nat

\* Only the current queue is subscribed, while a recording runs; those before
\* it are shut, and those after it have never been used.
Turns ==
    /\ \A q \in shut : q \in Nat /\ q < current
    /\ subscribers \subseteq {current, Other}
    /\ recording <=> current \in subscribers
    /\ \A q \in (current + 1)..MaxStops : buffer[q] = <<>>

\* The task sits in a get() when there is nothing to get, and when no recording
\* runs there is nothing to drain.
Empty ==
    /\ ~recording => buffer[current] = <<>>
    /\ task = "get" => from = current /\ buffer[current] = <<>>

Rising(s)        == \A i, j \in 1..Len(s) : i < j => s[i] < s[j]
InOrder(items)   == \A i, j \in 1..Len(items) : i < j => items[i].n < items[j].n
Before(s, items) == \A i \in 1..Len(s), j \in 1..Len(items) : s[i] < items[j].n
Apart(a, b)      == \A i \in 1..Len(a), j \in 1..Len(b) : a[i].n < b[j].n

\* What a queue holds: polls that were broadcast, marked good if they were.
Truthful(items) == \A i \in 1..Len(items) :
    items[i].n <= polls /\ (items[i].n \in good => items[i].ok)

\* The task records from the queue it waited in, and from the current one,
\* which holds later polls.
Ordered ==
    /\ \A i \in 1..Len(recordings) : recordings[i] <= polls
    /\ \A n \in good : n <= polls
    /\ Rising(recordings)
    /\ Truthful(buffer[current]) /\ InOrder(buffer[current])
    /\ Before(recordings, buffer[current])
    /\ task = "ready" =>
          /\ Truthful(buffer[from]) /\ InOrder(buffer[from])
          /\ Before(recordings, buffer[from])
          /\ from # current => Apart(buffer[from], buffer[current])

\* NothingMissed, one poll at a time.
Kept == recording => \A m \in good : m > since =>
    \/ \E i \in 1..Len(recordings) : recordings[i] = m
    \/ \E j \in 1..Len(buffer[current]) : buffer[current][j].n = m

RecordingInv == Types /\ Turns /\ Empty /\ Ordered /\ Kept

-----------------------------------------------------------------------------
\* Induction over the numbers, for sets in the place of predicates: a set that
\* lacked some number would lack a least one.
LEMMA SetInduction ==
  ASSUME NEW S, 0 \in S, \A k \in Nat : k \in S => k + 1 \in S
  PROVE  Nat \subseteq S
<1> DEFINE Rest == Nat \ S
           R == OpToRel(<, Nat)
<1>1. SUFFICES ASSUME Rest # {} PROVE FALSE
  OBVIOUS
<1>2. IsWellFoundedOn(R, Nat)
  BY NatLessThanWellFounded
<1>3. PICK x \in Rest : \A y \in Rest : <<y, x>> \notin R
  <2> HIDE DEF R
  <2> QED BY <1>1, <1>2, WFMin
<1>4. x - 1 \in Rest /\ x - 1 < x
  <2> HIDE DEF R
  <2> QED BY <1>3
<1>5. <<x - 1, x>> \in R
  BY <1>4 DEF OpToRel
<1> QED BY <1>3, <1>4, <1>5

\* The function that Taken(items) is defined with, up to k.
TakenUpTo(items, f, k) == f = [j \in 0..k |->
    IF j = 0 THEN <<>>
    ELSE IF items[j].ok THEN Append(f[j - 1], items[j].n) ELSE f[j - 1]]

LEMMA TakenAt ==
  ASSUME NEW items, NEW f, NEW k \in Nat, TakenUpTo(items, f, k)
  PROVE  /\ f[0] = <<>>
         /\ \A j \in 1..k :
              f[j] = IF items[j].ok THEN Append(f[j - 1], items[j].n) ELSE f[j - 1]
<1>1. ASSUME NEW j \in 0..k
      PROVE  f[j] = IF j = 0 THEN <<>>
                    ELSE IF items[j].ok THEN Append(f[j - 1], items[j].n) ELSE f[j - 1]
  BY Zenon DEF TakenUpTo
<1>2. f[0] = <<>>
  BY <1>1
<1>3. ASSUME NEW j \in 1..k
      PROVE  f[j] = IF items[j].ok THEN Append(f[j - 1], items[j].n) ELSE f[j - 1]
  BY <1>1
<1> QED BY <1>2, <1>3

LEMMA TakenExists ==
  ASSUME NEW items, NEW k \in Nat
  PROVE  \E f : TakenUpTo(items, f, k)
<1> DEFINE S == {m \in Nat : \E f : TakenUpTo(items, f, m)}
<1>1. 0 \in S
  <2>1. TakenUpTo(items, [j \in 0..0 |-> <<>>], 0)
    BY DEF TakenUpTo
  <2> QED BY <2>1
<1>2. ASSUME NEW m \in Nat, m \in S
      PROVE  m + 1 \in S
  <2>1. PICK f : TakenUpTo(items, f, m)
    BY <1>2
  <2> DEFINE next == IF items[m + 1].ok THEN Append(f[m], items[m + 1].n) ELSE f[m]
             g    == [j \in 0..(m + 1) |-> IF j = m + 1 THEN next ELSE f[j]]
  <2>2. ASSUME NEW j \in 0..(m + 1)
        PROVE  g[j] = IF j = 0 THEN <<>>
                      ELSE IF items[j].ok THEN Append(g[j - 1], items[j].n) ELSE g[j - 1]
    <3>1. CASE j = m + 1
      <4>1. g[m] = f[m] /\ g[m + 1] = next
        OBVIOUS
      <4> QED BY <3>1, <4>1
    <3>2. CASE j \in 1..m
      <4>1. f[j] = IF items[j].ok THEN Append(f[j - 1], items[j].n) ELSE f[j - 1]
        BY <2>1, <3>2, TakenAt
      <4>2. g[j] = f[j] /\ g[j - 1] = f[j - 1]
        BY <3>2
      <4> QED BY <3>2, <4>1, <4>2
    <3>3. CASE j = 0
      BY <2>1, <3>3 DEF TakenUpTo
    <3> QED BY <3>1, <3>2, <3>3
  <2>3. TakenUpTo(items, g, m + 1)
    <3>1. g = [j \in 0..(m + 1) |-> g[j]]
      OBVIOUS
    <3> HIDE DEF g
    <3> QED BY <2>2, <3>1, Zenon DEF TakenUpTo
  <2> QED BY <2>3
<1>3. Nat \subseteq S
  <2> HIDE DEF S
  <2> QED BY <1>1, <1>2, SetInduction
<1> QED BY <1>3

LEMMA TakenDef ==
  ASSUME NEW items, Len(items) \in Nat
  PROVE  \E f : TakenUpTo(items, f, Len(items)) /\ Taken(items) = f[Len(items)]
<1> DEFINE f == CHOOSE f : TakenUpTo(items, f, Len(items))
<1>1. TakenUpTo(items, f, Len(items))
  <2>1. \E g : TakenUpTo(items, g, Len(items))
    BY TakenExists
  <2> QED BY <2>1
<1>2. Taken(items) = f[Len(items)]
  BY DEF Taken, TakenUpTo
<1> HIDE DEF f
<1> QED BY <1>1, <1>2

\* What TakenFacts says, for the first k of the items.
Recorded(items, k, s) ==
    /\ s \in Seq(Nat)
    /\ \A i \in 1..Len(s) : \E j \in 1..k : items[j].ok /\ s[i] = items[j].n
    /\ \A j \in 1..k : items[j].ok => \E i \in 1..Len(s) : s[i] = items[j].n
    /\ Rising(s)

LEMMA Appended ==
  ASSUME NEW s \in Seq(Nat), NEW e \in Nat
  PROVE  /\ Append(s, e) \in Seq(Nat) /\ Len(Append(s, e)) = Len(s) + 1 /\ Len(s) \in Nat
         /\ \A i \in 1..Len(s) : Append(s, e)[i] = s[i]
         /\ Append(s, e)[Len(s) + 1] = e
  OBVIOUS

LEMMA RecordedNext ==
  ASSUME NEW items \in Seq(Item), InOrder(items), NEW k \in Nat, k + 1 \in 1..Len(items),
         NEW s, Recorded(items, k, s)
  PROVE  Recorded(items, k + 1,
                  IF items[k + 1].ok THEN Append(s, items[k + 1].n) ELSE s)
<1> DEFINE e == items[k + 1].n
           t == Append(s, e)
<1>1. CASE ~items[k + 1].ok
  <2>1. \A j \in 1..(k + 1) : items[j].ok => j \in 1..k
    BY <1>1
  <2>2. \A j \in 1..k : j \in 1..(k + 1)
    OBVIOUS
  <2>3. Recorded(items, k + 1, s)
    BY <2>1, <2>2 DEF Recorded
  <2> QED BY <1>1, <2>3
<1>2. CASE items[k + 1].ok
  <2>1. e \in Nat /\ s \in Seq(Nat)
    <3>1. items[k + 1] \in Item
      OBVIOUS
    <3> QED BY <3>1 DEF Item, Recorded
  <2>2. /\ t \in Seq(Nat) /\ Len(t) = Len(s) + 1 /\ Len(s) \in Nat
        /\ \A i \in 1..Len(s) : t[i] = s[i]
        /\ t[Len(s) + 1] = e
    BY <2>1, Appended
  <2> HIDE DEF t
  <2>3. ASSUME NEW i \in 1..Len(t)
        PROVE  \E j \in 1..(k + 1) : items[j].ok /\ t[i] = items[j].n
    <3>1. CASE i \in 1..Len(s)
      <4>1. PICK j \in 1..k : items[j].ok /\ s[i] = items[j].n
        BY <3>1 DEF Recorded
      <4>2. j \in 1..(k + 1)
        OBVIOUS
      <4> QED BY <2>2, <3>1, <4>1, <4>2
    <3>2. CASE i = Len(s) + 1
      BY <1>2, <2>2, <3>2
    <3> QED BY <2>2, <3>1, <3>2
  <2>4. ASSUME NEW j \in 1..(k + 1), items[j].ok
        PROVE  \E i \in 1..Len(t) : t[i] = items[j].n
    <3>1. CASE j \in 1..k
      <4>1. PICK i \in 1..Len(s) : s[i] = items[j].n
        BY <2>4, <3>1 DEF Recorded
      <4>2. i \in 1..Len(t)
        BY <2>2
      <4> QED BY <2>2, <4>1, <4>2
    <3>2. CASE j = k + 1
      <4>1. Len(s) + 1 \in 1..Len(t)
        BY <2>2
      <4> QED BY <2>2, <3>2, <4>1
    <3> QED BY <3>1, <3>2
  <2>5. ASSUME NEW i \in 1..Len(s)
        PROVE  s[i] < e
    <3>1. PICK j \in 1..k : s[i] = items[j].n
      BY DEF Recorded
    <3>2. j \in 1..Len(items) /\ j < k + 1
      OBVIOUS
    <3> QED BY <3>1, <3>2 DEF InOrder
  <2>6. ASSUME NEW i \in 1..Len(t), NEW j \in 1..Len(t), i < j
        PROVE  t[i] < t[j]
    <3>1. i \in 1..Len(s) /\ t[i] = s[i]
      BY <2>2, <2>6
    <3>2. CASE j \in 1..Len(s)
      BY <2>2, <2>6, <3>1, <3>2 DEF Recorded, Rising
    <3>3. CASE j = Len(s) + 1
      BY <2>2, <2>5, <3>1, <3>3
    <3> QED BY <2>2, <3>2, <3>3
  <2>7. Recorded(items, k + 1, t)
    BY <2>2, <2>3, <2>4, <2>6 DEF Recorded, Rising
  <2> QED BY <1>2, <2>7 DEF t
<1> QED BY <1>1, <1>2

\* The operator of the model records the good ones among the items, all of them
\* and in their order.
LEMMA TakenFacts ==
  ASSUME NEW items \in Seq(Item), InOrder(items)
  PROVE  Recorded(items, Len(items), Taken(items))
<1> DEFINE N == Len(items)
<1>1. N \in Nat
  OBVIOUS
<1>2. PICK f : TakenUpTo(items, f, N) /\ Taken(items) = f[N]
  BY <1>1, TakenDef
<1> DEFINE S == {k \in Nat : k <= N => Recorded(items, k, f[k])}
<1>3. 0 \in S
  <2>1. f[0] = <<>>
    BY <1>1, <1>2, TakenAt
  <2>2. <<>> \in Seq(Nat) /\ Len(<<>>) = 0
    OBVIOUS
  <2>3. Recorded(items, 0, <<>>)
    BY <2>2 DEF Recorded, Rising
  <2> QED BY <2>1, <2>3
<1>4. ASSUME NEW k \in Nat, k \in S
      PROVE  k + 1 \in S
  <2>1. CASE k + 1 \in 1..N
    <3>1. Recorded(items, k, f[k])
      BY <1>1, <1>4, <2>1
    <3>2. f[k + 1] = IF items[k + 1].ok THEN Append(f[k], items[k + 1].n) ELSE f[k]
      <4>1. (k + 1) - 1 = k
        OBVIOUS
      <4> QED BY <1>1, <1>2, <2>1, <4>1, TakenAt
    <3> QED BY <2>1, <3>1, <3>2, RecordedNext
  <2>2. CASE ~(k + 1 <= N)
    BY <2>2
  <2> QED BY <1>1, <2>1, <2>2
<1>5. N \in S
  <2> HIDE DEF S, N
  <2> QED BY <1>1, <1>3, <1>4, SetInduction
<1> QED BY <1>2, <1>5

LEMMA Joined ==
  ASSUME NEW S, NEW s \in Seq(S), NEW t \in Seq(S)
  PROVE  /\ s \o t \in Seq(S) /\ Len(s \o t) = Len(s) + Len(t)
         /\ Len(s) \in Nat /\ Len(t) \in Nat
         /\ \A i \in 1..Len(s) : (s \o t)[i] = s[i]
         /\ \A i \in 1..Len(t) : (s \o t)[Len(s) + i] = t[i]
         /\ \A i \in 1..Len(s \o t) : i \in 1..Len(s) \/ i - Len(s) \in 1..Len(t)
  OBVIOUS

\* What is recorded from later polls comes after what was recorded before.
LEMMA RecordedAfter ==
  ASSUME NEW s \in Seq(Nat), Rising(s), NEW items \in Seq(Item), InOrder(items),
         Before(s, items)
  PROVE  LET t == s \o Taken(items)
         IN  /\ t \in Seq(Nat) /\ Rising(t)
             /\ \A i \in 1..Len(t) :
                  \/ \E j \in 1..Len(s) : t[i] = s[j]
                  \/ \E j \in 1..Len(items) : t[i] = items[j].n
             /\ \A j \in 1..Len(s) : \E i \in 1..Len(t) : t[i] = s[j]
             /\ \A j \in 1..Len(items) : items[j].ok => \E i \in 1..Len(t) : t[i] = items[j].n
<1> DEFINE u == Taken(items)
           t == s \o u
<1>1. Recorded(items, Len(items), u)
  BY TakenFacts
<1>2. u \in Seq(Nat) /\ Rising(u)
  BY <1>1 DEF Recorded
<1> HIDE DEF u
<1>3. /\ t \in Seq(Nat) /\ Len(t) = Len(s) + Len(u)
      /\ Len(s) \in Nat /\ Len(u) \in Nat
      /\ \A i \in 1..Len(s) : t[i] = s[i]
      /\ \A i \in 1..Len(u) : t[Len(s) + i] = u[i]
      /\ \A i \in 1..Len(t) : i \in 1..Len(s) \/ i - Len(s) \in 1..Len(u)
  BY <1>2, Joined
<1> HIDE DEF t
<1>4. ASSUME NEW i \in 1..Len(t), i \notin 1..Len(s)
      PROVE  i - Len(s) \in 1..Len(u) /\ t[i] = u[i - Len(s)]
  <2>1. i - Len(s) \in 1..Len(u) /\ Len(s) + (i - Len(s)) = i
    BY <1>3, <1>4
  <2> QED BY <1>3, <2>1
<1>5. ASSUME NEW i \in 1..Len(u)
      PROVE  Len(s) + i \in 1..Len(t) /\ \E j \in 1..Len(items) : u[i] = items[j].n
  <2>1. Len(s) + i \in 1..Len(t)
    BY <1>3
  <2>2. \E j \in 1..Len(items) : u[i] = items[j].n
    BY <1>1 DEF Recorded
  <2> QED BY <2>1, <2>2
<1>6. ASSUME NEW i \in 1..Len(s), NEW j \in 1..Len(u)
      PROVE  s[i] < u[j]
  <2>1. PICK k \in 1..Len(items) : u[j] = items[k].n
    BY <1>5
  <2> QED BY <2>1 DEF Before
<1>7. ASSUME NEW i \in 1..Len(t), NEW j \in 1..Len(t), i < j
      PROVE  t[i] < t[j]
  <2>1. CASE j \in 1..Len(s)
    <3>1. i \in 1..Len(s)
      BY <1>7, <2>1
    <3> QED BY <1>3, <1>7, <2>1, <3>1 DEF Rising
  <2>2. CASE i \in 1..Len(s) /\ j \notin 1..Len(s)
    BY <1>3, <1>4, <1>6, <2>2
  <2>3. CASE i \notin 1..Len(s)
    <3>1. j \notin 1..Len(s) /\ i - Len(s) < j - Len(s)
      BY <1>3, <1>7, <2>3
    <3>2. /\ i - Len(s) \in 1..Len(u) /\ t[i] = u[i - Len(s)]
          /\ j - Len(s) \in 1..Len(u) /\ t[j] = u[j - Len(s)]
      BY <1>4, <2>3, <3>1
    <3> QED BY <1>2, <3>1, <3>2 DEF Rising
  <2> QED BY <2>1, <2>2, <2>3
<1>8. ASSUME NEW i \in 1..Len(t)
      PROVE  \/ \E j \in 1..Len(s) : t[i] = s[j]
             \/ \E j \in 1..Len(items) : t[i] = items[j].n
  <2>1. CASE i \in 1..Len(s)
    BY <1>3, <2>1
  <2>2. CASE i \notin 1..Len(s)
    <3>1. i - Len(s) \in 1..Len(u) /\ t[i] = u[i - Len(s)]
      BY <1>4, <2>2
    <3> QED BY <1>5, <3>1
  <2> QED BY <2>1, <2>2
<1>9. ASSUME NEW j \in 1..Len(s)
      PROVE  \E i \in 1..Len(t) : t[i] = s[j]
  <2>1. j \in 1..Len(t)
    BY <1>3
  <2> QED BY <1>3, <2>1
<1>10. ASSUME NEW j \in 1..Len(items), items[j].ok
       PROVE  \E i \in 1..Len(t) : t[i] = items[j].n
  <2>1. PICK k \in 1..Len(u) : u[k] = items[j].n
    BY <1>1, <1>10 DEF Recorded
  <2> QED BY <1>3, <1>5, <2>1
<1>11. t = s \o Taken(items)
  BY DEF t, u
<1>12. Rising(t)
  BY <1>7 DEF Rising
<1> QED BY <1>3, <1>8, <1>9, <1>10, <1>11, <1>12

-----------------------------------------------------------------------------
LEMMA QueuesApart ==
  ASSUME Types
  PROVE  /\ current \in Queue /\ from \in Queue /\ Other \in Queue
         /\ current <= MaxStops /\ from <= current
         /\ Other # current /\ Other # from /\ Other \notin 0..MaxStops
         /\ buffer[current] \in Seq(Item) /\ buffer[from] \in Seq(Item)
         /\ current \in Nat /\ from \in Nat /\ MaxStops \in Nat
<1>1. MaxStops \in Nat /\ current \in 0..MaxStops /\ from \in 0..MaxStops
  BY RecordingAssumption DEF Types
<1>2. 0..MaxStops \subseteq Queue /\ Other \in Queue /\ Other \notin 0..MaxStops
  BY RecordingAssumption
<1>3. \A q \in Queue : buffer[q] \in Seq(Item)
  BY DEF Types
<1>4. current \in Nat /\ from \in Nat /\ current <= MaxStops /\ from <= current
  BY <1>1 DEF Types
<1> QED BY <1>1, <1>2, <1>3, <1>4

\* The invariant is about the recording and its own queues.
LEMMA OthersKept ==
  ASSUME RecordingInv, UNCHANGED <<shut, recording, current, from, recordings, gvars>>,
         buffer' \in [Queue -> Seq(Item)], \A q \in 0..MaxStops : buffer'[q] = buffer[q],
         task' \in Stations, task' \in {"get", "ready"} => task' = task,
         subscribers' \subseteq {current, Other},
         current \in subscribers' <=> current \in subscribers
  PROVE  RecordingInv'
<1> USE DEF RecordingInv
<1>1. buffer'[current'] = buffer[current] /\ buffer'[from'] = buffer[from]
  BY RecordingAssumption DEF Types
<1>2. Types'
  BY DEF Types, gvars
<1>3. Turns'
  BY DEF Turns, Types
<1>4. Empty'
  BY <1>1 DEF Empty
<1>5. Ordered'
  BY <1>1 DEF Ordered, Rising, InOrder, Before, Apart, Truthful, gvars
<1>6. Kept'
  BY <1>1 DEF Kept, gvars
<1> QED BY <1>2, <1>3, <1>4, <1>5, <1>6

LEMMA StartRecordingKept ==
  ASSUME RecordingInv, StartRecording
  PROVE  RecordingInv'
<1> USE DEF RecordingInv, StartRecording, Subscribing, queues
<1>1. <<>> \in Seq(Nat) /\ Len(<<>>) = 0
  OBVIOUS
<1>2. Types'
  BY <1>1 DEF Types, Stations
<1>3. Turns'
  BY DEF Turns
<1>4. Empty'
  BY DEF Empty
<1>5. Ordered'
  BY <1>1 DEF Ordered, Rising, InOrder, Before, Apart, Truthful
<1>6. Kept'
  BY DEF Kept, Ordered, Types
<1> QED BY <1>2, <1>3, <1>4, <1>5, <1>6

LEMMA StopRecordingKept ==
  ASSUME RecordingInv, StopRecording
  PROVE  RecordingInv'
<1> USE DEF RecordingInv, StopRecording, Unsubscribing, gvars
<1>1. Len(<<>>) = 0
  OBVIOUS
<1>2. current + 1 \in 1..MaxStops /\ current' = current + 1
  BY RecordingAssumption DEF Types
<1>3. buffer'[current'] = <<>> /\ buffer' = buffer
  BY <1>2 DEF Turns
<1>4. Types'
  <2>1. current' \in 0..MaxStops /\ from' \in 0..current'
    BY <1>2 DEF Types
  <2>2. task' \in Stations
    BY DEF Types, Stations
  <2> QED BY <2>1, <2>2 DEF Types
<1>5. Turns'
  <2>1. \A q \in shut' : q \in Nat /\ q < current'
    BY <1>2, QueuesApart DEF Turns
  <2>2. subscribers' \subseteq {Other}
    BY DEF Turns
  <2>3. current' \notin subscribers'
    BY <1>2, <2>2, QueuesApart
  <2>4. \A q \in (current' + 1)..MaxStops : buffer'[q] = <<>>
    BY <1>2, <1>3, QueuesApart DEF Turns
  <2> QED BY <2>1, <2>2, <2>3, <2>4 DEF Turns
<1>6. Empty'
  BY <1>3 DEF Empty
<1>7. task' = "ready" => task = "ready" \/ (task = "get" /\ from = current)
  OBVIOUS
<1>8. Ordered'
  BY <1>1, <1>3, <1>7 DEF Ordered, Rising, InOrder, Before, Apart, Truthful
<1>9. Kept'
  BY DEF Kept
<1> QED BY <1>4, <1>5, <1>6, <1>8, <1>9

-----------------------------------------------------------------------------
\* A queue with one more poll, the latest.
LEMMA Delivered ==
  ASSUME NEW items \in Seq(Item), NEW e \in Item,
         InOrder(items), \A i \in 1..Len(items) : items[i].n < e.n
  PROVE  LET t == Append(items, e)
         IN  /\ t \in Seq(Item) /\ InOrder(t)
             /\ Len(t) = Len(items) + 1 /\ t[Len(t)] = e /\ Len(t) \in 1..Len(t)
             /\ \A i \in 1..Len(items) : t[i] = items[i] /\ i \in 1..Len(t)
             /\ \A i \in 1..Len(t) : t[i] = e \/ i \in 1..Len(items)
<1> DEFINE t == Append(items, e)
<1>1. /\ t \in Seq(Item) /\ Len(t) = Len(items) + 1 /\ Len(items) \in Nat
      /\ t[Len(items) + 1] = e
      /\ \A i \in 1..Len(items) : t[i] = items[i]
  OBVIOUS
<1> HIDE DEF t
<1>2. t[Len(t)] = e /\ Len(t) \in 1..Len(t)
  BY <1>1
<1>3. \A i \in 1..Len(t) : t[i] = e \/ i \in 1..Len(items)
  BY <1>1
<1>4. ASSUME NEW i \in 1..Len(t), NEW j \in 1..Len(t), i < j
      PROVE  t[i].n < t[j].n
  <2>1. i \in 1..Len(items) /\ t[i] = items[i]
    BY <1>1, <1>4
  <2>2. CASE j \in 1..Len(items)
    BY <1>1, <1>4, <2>1, <2>2 DEF InOrder
  <2>3. CASE j = Len(items) + 1
    BY <1>1, <2>1, <2>3
  <2> QED BY <1>1, <2>2, <2>3
<1>5. InOrder(t)
  BY <1>4 DEF InOrder
<1>6. \A i \in 1..Len(items) : i \in 1..Len(t)
  BY <1>1
<1> QED BY <1>1, <1>2, <1>3, <1>5, <1>6 DEF t

\* A poll reaches every subscriber, and no queue of the past or of the future.
LEMMA PublishedTo ==
  ASSUME RecordingInv, NEW e, Broadcast(e)
  PROVE  /\ buffer' = [q \in Queue |-> IF q \in subscribers THEN Append(buffer[q], e)
                                       ELSE buffer[q]]
         /\ UNCHANGED <<awake, subscribers, shut>>
<1>1. subscribers \cap shut = {}
  BY QueuesApart DEF RecordingInv, Turns
<1> QED BY <1>1 DEF Broadcast, Reached

LEMMA PublishKept ==
  ASSUME RecordingInv, Publish
  PROVE  RecordingInv'
<1> USE DEF RecordingInv
<1>1. PICK ok \in BOOLEAN :
        /\ Broadcast([n |-> polls', ok |-> ok])
        /\ good' = IF ok THEN good \cup {polls'} ELSE good
  BY DEF Publish
<1> DEFINE e == [n |-> polls', ok |-> ok]
<1>2. /\ polls' = polls + 1 /\ polls \in Nat
      /\ UNCHANGED <<recording, current, from, recordings, since>>
      /\ task' = IF task = "get" /\ buffer'[from] # <<>> THEN "ready" ELSE task
  BY DEF Publish, Types
<1>3. e \in Item /\ e.n = polls + 1 /\ e.ok = ok
  BY <1>2 DEF Item
<1>4. /\ buffer' = [q \in Queue |-> IF q \in subscribers THEN Append(buffer[q], e)
                                    ELSE buffer[q]]
      /\ UNCHANGED <<awake, subscribers, shut>>
  BY <1>1, PublishedTo
<1>5. (polls + 1 \in good' => ok) /\ \A m \in good' : m \in good \/ m = polls + 1
  BY <1>1, <1>2 DEF Ordered
<1> HIDE DEF e
<1>6. buffer' \in [Queue -> Seq(Item)]
  <2>1. ASSUME NEW q \in Queue
        PROVE  buffer[q] \in Seq(Item) /\ Append(buffer[q], e) \in Seq(Item)
    BY <1>3 DEF Types
  <2> QED BY <1>4, <2>1
<1>7. Types'
  <2>1. task' \in Stations
    BY <1>2 DEF Types, Stations
  <2>2. polls' \in Nat
    BY <1>2
  <2>3. good' \subseteq good \cup {polls'}
    BY <1>1
  <2>4. good' \subseteq Nat
    BY <2>2, <2>3 DEF Types
  <2> QED BY <1>2, <1>6, <2>1, <2>2, <2>4 DEF Types
<1>8. buffer'[current] = IF recording THEN Append(buffer[current], e) ELSE buffer[current]
  BY <1>4, QueuesApart DEF Turns
<1>9. ASSUME NEW q \in 0..MaxStops, q # current
      PROVE  buffer'[q] = buffer[q]
  BY <1>4, <1>9, RecordingAssumption DEF Turns
<1>10. Turns'
  <2>1. \A q \in (current + 1)..MaxStops : q \in 0..MaxStops /\ q # current
    BY QueuesApart
  <2> QED BY <1>2, <1>4, <1>9, <2>1 DEF Turns
<1>11. Empty'
  BY <1>2, <1>8 DEF Empty
<1>12. \A i \in 1..Len(buffer[current]) : buffer[current][i].n < e.n
  <2>1. \A i \in 1..Len(buffer[current]) : buffer[current][i] \in Item
    BY QueuesApart
  <2> QED BY <1>2, <1>3, <2>1 DEF Ordered, Truthful, Item
<1> DEFINE new == buffer'[current]
           old == buffer[current]
<1>13. /\ \A i \in 1..Len(new) : (recording /\ new[i] = e) \/ (i \in 1..Len(old) /\ new[i] = old[i])
       /\ \A i \in 1..Len(old) : i \in 1..Len(new) /\ new[i] = old[i]
       /\ recording => \E i \in 1..Len(new) : new[i] = e
       /\ InOrder(new) /\ new \in Seq(Item)
  <2>1. CASE recording
    <3>1. new = Append(old, e) /\ old \in Seq(Item) /\ InOrder(old)
      BY <1>8, <2>1, QueuesApart DEF Ordered
    <3> HIDE DEF new, old
    <3>2. /\ new \in Seq(Item) /\ InOrder(new)
          /\ new[Len(new)] = e /\ Len(new) \in 1..Len(new)
          /\ \A i \in 1..Len(old) : new[i] = old[i] /\ i \in 1..Len(new)
          /\ \A i \in 1..Len(new) : new[i] = e \/ i \in 1..Len(old)
      BY <1>3, <1>12, <3>1, Delivered DEF old
    <3> QED BY <2>1, <3>2
  <2>2. CASE ~recording
    BY <1>8, <2>2, QueuesApart DEF Ordered
  <2> QED BY <2>1, <2>2
<1>14. ASSUME NEW items, items \in Seq(Item), Truthful(items)
       PROVE  \A i \in 1..Len(items) :
                items[i].n <= polls' /\ (items[i].n \in good' => items[i].ok)
  <2>1. ASSUME NEW i \in 1..Len(items)
        PROVE  items[i].n \in Nat
    <3>1. items[i] \in Item
      BY <1>14
    <3> QED BY <3>1 DEF Item
  <2> QED BY <1>2, <1>5, <1>14, <2>1 DEF Truthful
<1>15. \A i \in 1..Len(new) :
         new[i].n <= polls' /\ (new[i].n \in good' => new[i].ok)
  <2>1. old \in Seq(Item) /\ Truthful(old)
    BY QueuesApart DEF Ordered
  <2>2. \A i \in 1..Len(old) :
          old[i].n <= polls' /\ (old[i].n \in good' => old[i].ok)
    BY <1>14, <2>1
  <2>3. e.n <= polls' /\ (e.n \in good' => e.ok)
    BY <1>2, <1>3, <1>5
  <2> HIDE DEF new, old
  <2> QED BY <1>13, <2>2, <2>3
<1>16. Before(recordings, new)
  <2>1. \A i \in 1..Len(recordings) : recordings[i] \in Nat /\ recordings[i] <= polls
    BY DEF Ordered, Types
  <2>2. \A i \in 1..Len(recordings) : recordings[i] < e.n
    BY <1>2, <1>3, <2>1
  <2>3. Before(recordings, old)
    BY DEF Ordered
  <2> HIDE DEF new, old
  <2> QED BY <1>13, <2>2, <2>3 DEF Before
<1>17. ASSUME task' = "ready"
       PROVE  LET waited == buffer'[from]
              IN  /\ \A i \in 1..Len(waited) :
                       waited[i].n <= polls' /\ (waited[i].n \in good' => waited[i].ok)
                  /\ InOrder(waited) /\ Before(recordings, waited)
                  /\ from # current => Apart(waited, new)
  <2>1. CASE from = current
    BY <1>13, <1>15, <1>16, <2>1
  <2>2. CASE from # current
    <3>1. task = "ready" /\ buffer'[from] = buffer[from] /\ buffer[from] \in Seq(Item)
      BY <1>2, <1>9, <1>17, <2>2, QueuesApart DEF Empty
    <3> DEFINE waited == buffer[from]
    <3>2. Truthful(waited) /\ InOrder(waited) /\ Before(recordings, waited) /\ Apart(waited, old)
      BY <2>2, <3>1 DEF Ordered
    <3>3. \A i \in 1..Len(waited) :
            waited[i].n <= polls' /\ (waited[i].n \in good' => waited[i].ok)
      BY <1>14, <3>1, <3>2
    <3>4. ASSUME NEW i \in 1..Len(waited)
          PROVE  waited[i].n < e.n
      <4>1. waited[i] \in Item
        BY <3>1
      <4> QED BY <1>2, <1>3, <3>2, <4>1 DEF Truthful, Item
    <3>5. Apart(waited, new)
      <4> HIDE DEF new, old, waited
      <4> QED BY <1>13, <3>2, <3>4 DEF Apart
    <3> QED BY <3>1, <3>2, <3>3, <3>5
  <2> QED BY <2>1, <2>2
<1>18. Ordered'
  <2>1. \A i \in 1..Len(recordings) : recordings[i] \in Nat /\ recordings[i] <= polls'
    BY <1>2 DEF Ordered, Types
  <2>2. ASSUME NEW m \in good'
        PROVE  m <= polls'
    <3>1. CASE m \in good
      <4>1. m \in Nat /\ m <= polls
        BY <3>1 DEF Ordered, Types
      <4> QED BY <1>2, <4>1
    <3> QED BY <1>2, <1>5, <3>1
  <2>3. Rising(recordings) /\ InOrder(new)
    BY <1>13 DEF Ordered
  <2> QED BY <1>2, <1>15, <1>16, <1>17, <2>1, <2>2, <2>3
          DEF Ordered, Truthful, Rising, InOrder, Before, Apart
<1>19. Kept'
  <2> SUFFICES ASSUME recording, NEW m \in good', m > since
               PROVE  \/ \E i \in 1..Len(recordings) : recordings[i] = m
                      \/ \E j \in 1..Len(new) : new[j].n = m
    BY <1>2 DEF Kept
  <2>1. CASE m \in good
    <3> HIDE DEF new
    <3> QED BY <1>13, <2>1 DEF Kept
  <2>2. CASE m = polls + 1
    <3> HIDE DEF new
    <3> QED BY <1>3, <1>13, <2>2
  <2> QED BY <1>5, <2>1, <2>2
<1> QED BY <1>7, <1>10, <1>11, <1>18, <1>19

-----------------------------------------------------------------------------
LEMMA Split ==
  ASSUME NEW s \in Seq(Item), s # <<>>
  PROVE  /\ Head(s) \in Item /\ <<Head(s)>> \in Seq(Item) /\ 1 \in 1..Len(s) /\ Head(s) = s[1]
         /\ <<Head(s)>> \o Tail(s) = s
  OBVIOUS

LEMMA JoinedEmpty == \A s \in Seq(Item) : <<>> \o s = s
  OBVIOUS

\* What the task takes in one step: the current queue, and before it perhaps
\* one result of the queue it waited in.
LEMMA TakenFrom ==
  ASSUME RecordingInv
  PROVE  LET taken == Received \o Drained
             old   == buffer[from]
         IN  \/ taken = buffer[current]
             \/ /\ task = "ready" /\ from # current /\ old # <<>>
                /\ taken = <<Head(old)>> \o buffer[current]
<1> DEFINE old == buffer[from]
           cur == buffer[current]
<1> USE DEF RecordingInv
<1>1. old \in Seq(Item) /\ cur \in Seq(Item)
  BY QueuesApart
<1>2. ~recording => cur = <<>>
  BY DEF Empty
<1>3. CASE task = "ready" /\ old # <<>> /\ from = current
  <2>1. recording /\ Received = <<Head(cur)>> /\ Drained = Tail(cur)
    BY <1>2, <1>3 DEF Received, Drained, Remainder
  <2> QED BY <1>1, <1>3, <2>1, Split
<1>4. CASE task = "ready" /\ old # <<>> /\ from # current
  <2>1. Received = <<Head(old)>> /\ Drained = cur
    BY <1>2, <1>4 DEF Received, Drained, Remainder
  <2> QED BY <1>4, <2>1
<1>5. CASE ~(task = "ready" /\ old # <<>>)
  <2>1. Received = <<>> /\ Drained = cur
    BY <1>2, <1>5 DEF Received, Drained, Remainder
  <2> QED BY <1>1, <2>1, JoinedEmpty
<1> QED BY <1>3, <1>4, <1>5

\* One result in front of those of a queue.
LEMMA InFront ==
  ASSUME NEW a \in Item, NEW s \in Seq(Item), InOrder(s),
         \A j \in 1..Len(s) : a.n < s[j].n
  PROVE  LET t == <<a>> \o s
         IN  /\ t \in Seq(Item) /\ InOrder(t)
             /\ \A i \in 1..Len(t) : t[i] = a \/ \E j \in 1..Len(s) : t[i] = s[j]
             /\ \A j \in 1..Len(s) : \E i \in 1..Len(t) : t[i] = s[j]
<1> DEFINE t == <<a>> \o s
<1>1. /\ t \in Seq(Item) /\ Len(t) = 1 + Len(s) /\ Len(s) \in Nat
      /\ t[1] = a /\ \A i \in 1..Len(s) : t[1 + i] = s[i]
  BY Joined
<1> HIDE DEF t
<1>2. ASSUME NEW i \in 1..Len(t), i # 1
      PROVE  i - 1 \in 1..Len(s) /\ t[i] = s[i - 1]
  <2>1. i - 1 \in 1..Len(s) /\ 1 + (i - 1) = i
    BY <1>1, <1>2
  <2> QED BY <1>1, <2>1
<1>3. ASSUME NEW i \in 1..Len(t), NEW j \in 1..Len(t), i < j
      PROVE  t[i].n < t[j].n
  <2>1. j - 1 \in 1..Len(s) /\ t[j] = s[j - 1]
    BY <1>2, <1>3
  <2>2. CASE i = 1
    BY <1>1, <2>1, <2>2
  <2>3. CASE i # 1
    <3>1. i - 1 \in 1..Len(s) /\ t[i] = s[i - 1] /\ i - 1 < j - 1
      BY <1>2, <1>3, <2>3
    <3> QED BY <2>1, <3>1 DEF InOrder
  <2> QED BY <2>2, <2>3
<1>4. ASSUME NEW i \in 1..Len(t)
      PROVE  t[i] = a \/ \E j \in 1..Len(s) : t[i] = s[j]
  BY <1>1, <1>2
<1>5. ASSUME NEW j \in 1..Len(s)
      PROVE  \E i \in 1..Len(t) : t[i] = s[j]
  <2>1. 1 + j \in 1..Len(t)
    BY <1>1
  <2> QED BY <1>1, <2>1
<1> QED BY <1>1, <1>3, <1>4, <1>5 DEF t, InOrder

\* So it takes polls in order, later than those recorded, and all there are of
\* the recording that runs.
LEMMA TakenInOrder ==
  ASSUME RecordingInv
  PROVE  LET taken == Received \o Drained
         IN  /\ taken \in Seq(Item) /\ InOrder(taken)
             /\ Before(recordings, taken) /\ Truthful(taken)
             /\ \A j \in 1..Len(buffer[current]) :
                  \E i \in 1..Len(taken) : taken[i] = buffer[current][j]
<1> DEFINE taken == Received \o Drained
           old   == buffer[from]
           cur   == buffer[current]
<1> USE DEF RecordingInv
<1>1. /\ old \in Seq(Item) /\ cur \in Seq(Item)
      /\ InOrder(cur) /\ Before(recordings, cur) /\ Truthful(cur)
  BY QueuesApart DEF Ordered
<1>2. CASE taken = cur
  <2> HIDE DEF taken, cur
  <2> QED BY <1>1, <1>2 DEF taken, cur
<1>3. CASE /\ task = "ready" /\ from # current /\ old # <<>>
           /\ taken = <<Head(old)>> \o cur
  <2>1. Truthful(old) /\ Before(recordings, old) /\ Apart(old, cur)
    BY <1>3 DEF Ordered
  <2> DEFINE a == Head(old)
  <2>2. a \in Item /\ 1 \in 1..Len(old) /\ a = old[1]
    BY <1>1, <1>3, Split
  <2> HIDE DEF taken, cur, old, a
  <2>3. \A j \in 1..Len(cur) : a.n < cur[j].n
    BY <2>1, <2>2 DEF Apart
  <2>4. taken = <<a>> \o cur
    BY <1>3 DEF a
  <2>5. /\ taken \in Seq(Item) /\ InOrder(taken)
        /\ \A i \in 1..Len(taken) : taken[i] = a \/ \E j \in 1..Len(cur) : taken[i] = cur[j]
        /\ \A j \in 1..Len(cur) : \E i \in 1..Len(taken) : taken[i] = cur[j]
    <3>1. a \in Item /\ cur \in Seq(Item) /\ InOrder(cur)
      BY <1>1, <2>2 DEF cur
    <3> QED BY <2>3, <2>4, <3>1, InFront, Zenon
  <2>6. Before(recordings, taken)
    BY <1>1, <2>1, <2>2, <2>5 DEF Before
  <2>7. Truthful(taken)
    BY <1>1, <2>1, <2>2, <2>5 DEF Truthful
  <2> QED BY <2>5, <2>6, <2>7 DEF taken, cur
<1> QED BY <1>2, <1>3, TakenFrom

LEMMA TaskStepKept ==
  ASSUME RecordingInv, TaskStep
  PROVE  RecordingInv'
<1> DEFINE taken == Received \o Drained
           cur   == buffer[current]
           t     == recordings \o Taken(taken)
<1> USE DEF RecordingInv, gvars
<1>1. /\ taken \in Seq(Item) /\ InOrder(taken)
      /\ Before(recordings, taken) /\ Truthful(taken)
      /\ \A j \in 1..Len(cur) : \E i \in 1..Len(taken) : taken[i] = cur[j]
  BY TakenInOrder
<1>2. /\ recordings' = t
      /\ UNCHANGED <<subscribers, shut, recording, current, polls, good, since>>
      /\ buffer' = [q \in Queue |-> IF q = current /\ recording THEN <<>> ELSE Remainder(q)]
      /\ \/ task' = "get" /\ from' = current
         \/ task' = "idle" /\ from' = from
  BY DEF TaskStep, service
<1> HIDE DEF taken
<1>3. /\ t \in Seq(Nat) /\ Rising(t)
      /\ \A i \in 1..Len(t) : \/ \E j \in 1..Len(recordings) : t[i] = recordings[j]
                              \/ \E j \in 1..Len(taken) : t[i] = taken[j].n
      /\ \A j \in 1..Len(recordings) : \E i \in 1..Len(t) : t[i] = recordings[j]
      /\ \A j \in 1..Len(taken) : taken[j].ok => \E i \in 1..Len(t) : t[i] = taken[j].n
  <2>1. recordings \in Seq(Nat) /\ Rising(recordings)
    BY DEF Types, Ordered
  <2> QED BY <1>1, <2>1, RecordedAfter
<1> HIDE DEF t
<1>4. ASSUME NEW q \in Queue
      PROVE  /\ buffer'[q] \in Seq(Item)
             /\ buffer[q] = <<>> => buffer'[q] = <<>>
  <2>1. buffer[q] \in Seq(Item) /\ (buffer[q] # <<>> => Tail(buffer[q]) \in Seq(Item))
    BY DEF Types
  <2>2. <<>> \in Seq(Item)
    OBVIOUS
  <2> QED BY <1>2, <2>1, <2>2 DEF Remainder
<1>5. buffer'[current] = <<>>
  BY <1>2, <1>4, QueuesApart DEF Empty
<1>6. Types'
  <2>1. buffer' \in [Queue -> Seq(Item)]
    BY <1>2, <1>4
  <2>2. task' \in Stations /\ from' \in 0..current'
    BY <1>2 DEF Types, Stations
  <2> QED BY <1>2, <1>3, <2>1, <2>2 DEF Types
<1>7. Turns'
  <2>1. \A q \in (current + 1)..MaxStops : q \in Queue
    BY QueuesApart, RecordingAssumption
  <2>2. \A q \in (current + 1)..MaxStops : buffer'[q] = <<>>
    BY <1>4, <2>1 DEF Turns
  <2> QED BY <1>2, <2>2 DEF Turns
<1>8. Empty'
  BY <1>2, <1>5 DEF Empty
<1>9. Ordered'
  <2>1. Len(<<>>) = 0
    OBVIOUS
  <2>2. ASSUME NEW i \in 1..Len(t)
        PROVE  t[i] <= polls
    BY <1>1, <1>3 DEF Ordered, Truthful
  <2>3. \A m \in good' : m <= polls'
    BY <1>2 DEF Ordered
  <2>4. buffer'[current'] = <<>> /\ task' # "ready"
    BY <1>2, <1>5
  <2>5. Rising(recordings)'
    BY <1>2, <1>3 DEF Rising
  <2>6. \A i \in 1..Len(recordings') : recordings'[i] <= polls'
    BY <1>2, <2>2
  <2>7. (Truthful(buffer[current]) /\ InOrder(buffer[current]) /\ Before(recordings, buffer[current]))'
    BY <2>1, <2>4 DEF Truthful, InOrder, Before
  <2> QED BY <2>3, <2>4, <2>5, <2>6, <2>7, Zenon DEF Ordered
<1>10. Kept'
  <2> SUFFICES ASSUME recording, NEW m \in good, m > since
               PROVE  \E i \in 1..Len(t) : t[i] = m
    BY <1>2 DEF Kept
  <2>1. CASE \E i \in 1..Len(recordings) : recordings[i] = m
    BY <1>3, <2>1
  <2>2. CASE \E j \in 1..Len(cur) : cur[j].n = m
    <3>1. PICK j \in 1..Len(cur) : cur[j].n = m
      BY <2>2
    <3>2. PICK i \in 1..Len(taken) : taken[i] = cur[j]
      BY <1>1
    <3>3. taken[i].ok /\ taken[i].n = m
      BY <1>1, <3>1, <3>2 DEF Truthful
    <3> QED BY <1>3, <3>3
  <2> QED BY <2>1, <2>2 DEF Kept
<1> QED BY <1>6, <1>7, <1>8, <1>9, <1>10

LEMMA RecordingStart == RInit => RecordingInv
<1> SUFFICES ASSUME RInit PROVE RecordingInv
  OBVIOUS
<1> USE RecordingAssumption DEF RInit, PInit
<1>1. \A S : <<>> \in Seq(S)
  OBVIOUS
<1>2. Len(<<>>) = 0
  OBVIOUS
<1>3. Types
  BY <1>1 DEF Types, Stations
<1>4. Turns /\ Empty
  BY DEF Turns, Empty
<1>5. Ordered
  BY <1>2 DEF Ordered, Rising, InOrder, Before, Truthful
<1>6. Kept
  BY DEF Kept
<1> QED BY <1>3, <1>4, <1>5, <1>6 DEF RecordingInv

LEMMA RecordingStep ==
  ASSUME RecordingInv, [RNext]_allVars
  PROVE  RecordingInv'
<1>1. buffer \in [Queue -> Seq(Item)] /\ task \in Stations
      /\ subscribers \subseteq {current, Other}
  BY DEF RecordingInv, Types, Turns
<1>2. CASE UNCHANGED allVars
  BY <1>1, <1>2, OthersKept DEF allVars, pvars, service, queues, rvars, gvars
<1>3. CASE Start /\ UNCHANGED <<rvars, gvars>>
  BY <1>1, <1>3, OthersKept DEF Start, queues, rvars, gvars
<1>4. CASE StartService
  BY <1>1, <1>4, OthersKept DEF StartService, pvars, service, queues, Stations
<1>5. CASE StartRecording
  BY <1>5, StartRecordingKept
<1>6. CASE StopRecording
  BY <1>6, StopRecordingKept
<1>7. CASE StopService
  BY <1>1, <1>7, OthersKept DEF StopService, Stop, queues, Stations
<1>8. CASE PollingStep
  BY <1>1, <1>8, OthersKept DEF PollingStep, BeginPoll, Pause, Ended, queues, rvars, gvars
<1>9. CASE Publish
  BY <1>9, PublishKept
<1>10. CASE TaskStep
  BY <1>10, TaskStepKept
<1>11. CASE OtherComes
  BY <1>1, <1>11, OthersKept, QueuesApart
     DEF OtherComes, Subscribing, queues, rvars, gvars, RecordingInv
<1>12. CASE OtherLeaves
  BY <1>1, <1>12, OthersKept, QueuesApart
     DEF OtherLeaves, Unsubscribing, queues, rvars, gvars, RecordingInv
<1>13. CASE OtherTakes
  <2>1. buffer[Other] \in Seq(Item) /\ Tail(buffer[Other]) \in Seq(Item)
    BY <1>1, <1>13, RecordingAssumption DEF OtherTakes
  <2>2. buffer' \in [Queue -> Seq(Item)] /\ \A q \in 0..MaxStops : buffer'[q] = buffer[q]
    BY <1>1, <1>13, <2>1, RecordingAssumption DEF OtherTakes
  <2> QED BY <1>1, <1>13, <2>2, OthersKept DEF OtherTakes, service, rvars, gvars
<1> QED BY <1>2, <1>3, <1>4, <1>5, <1>6, <1>7, <1>8, <1>9, <1>10, <1>11, <1>12, <1>13 DEF RNext

LEMMA RecordingInvariant == RSafety => []RecordingInv
<1>1. RInit => RecordingInv
  BY RecordingStart
<1>2. RecordingInv /\ [RNext]_allVars => RecordingInv'
  BY RecordingStep
<1> QED BY <1>1, <1>2, PTL DEF RSafety

-----------------------------------------------------------------------------
\* The polling never broadcasts to a queue that stop_recording() has shut, and
\* get() is only called on the queue that is not.
THEOREM QueuesOpen == RSafety => []OpenQueues
<1>1. RecordingInv => OpenQueues
  BY QueuesApart DEF RecordingInv, Turns, OpenQueues
<1> QED BY <1>1, RecordingInvariant, PTL

\* No restart of the recording, whatever the task was doing with the old queue,
\* makes it record a poll twice or after a later one.
THEOREM RecordedOnceInOrder == RSafety => []RecordedInOrder
<1>1. RecordingInv => RecordedInOrder
  BY DEF RecordingInv, Ordered, Rising, RecordedInOrder
<1> QED BY <1>1, RecordingInvariant, PTL

\* While a recording runs, every good poll since its start is recorded, or
\* still in the queue that is recorded from.
THEOREM NonePassedOver == RSafety => []NothingMissed
<1>1. RecordingInv => NothingMissed
  BY DEF RecordingInv, Types, Kept, NothingMissed, ToSet
<1> QED BY <1>1, RecordingInvariant, PTL
=============================================================================
