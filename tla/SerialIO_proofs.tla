---------------------------- MODULE SerialIO_proofs ----------------------------
(***************************************************************************)
(* Proofs about SerialIO, and about the silence of its line as SerialQuiet *)
(* observes it, for every value of the constants.                          *)
(***************************************************************************)
EXTENDS SerialQuiet, SequenceTheorems, TLAPS

-----------------------------------------------------------------------------
(* Lemmas about the operators of the model.                                *)

\* Taking one element out of a sequence closes the gap it leaves.
LEMMA WithoutOne ==
    ASSUME NEW S, NEW q \in Seq(S), NEW i \in 1..Len(q)
    PROVE  /\ Without(q, i) \in Seq(S)
           /\ Len(Without(q, i)) = Len(q) - 1
           /\ \A j \in 1..(Len(q) - 1) :
                 Without(q, i)[j] = IF j < i THEN q[j] ELSE q[j + 1]
  <1> DEFINE a == SubSeq(q, 1, i - 1)
             b == SubSeq(q, i + 1, Len(q))
  <1>1. a \in Seq(S) /\ Len(a) = i - 1 /\ \A j \in 1..(i - 1) : a[j] = q[j]
    OBVIOUS
  <1>2. b \in Seq(S) /\ Len(b) = Len(q) - i
        /\ \A j \in 1..(Len(q) - i) : b[j] = q[i + j]
    OBVIOUS
  <1>3. /\ a \o b \in Seq(S) /\ Len(a \o b) = Len(a) + Len(b)
        /\ \A j \in 1..(Len(a) + Len(b)) :
              (a \o b)[j] = IF j <= Len(a) THEN a[j] ELSE b[j - Len(a)]
    BY <1>1, <1>2, ConcatProperties
  <1>4. Without(q, i) = a \o b
    BY DEF Without
  <1> HIDE DEF a, b
  <1>5. ASSUME NEW j \in 1..(Len(q) - 1)
        PROVE  (a \o b)[j] = IF j < i THEN q[j] ELSE q[j + 1]
    <2>1. CASE j < i
      BY <2>1, <1>1, <1>2, <1>3
    <2>2. CASE ~(j < i)
      <3>1. (a \o b)[j] = b[j - (i - 1)]
        BY <2>2, <1>1, <1>2, <1>3
      <3>2. b[j - (i - 1)] = q[i + (j - (i - 1))]
        BY <2>2, <1>2
      <3> QED BY <2>2, <3>1, <3>2
    <2> QED BY <2>1, <2>2
  <1>6. Len(a \o b) = Len(q) - 1
    BY <1>1, <1>2, <1>3
  <1> QED BY <1>3, <1>4, <1>5, <1>6

\* A new transmission makes every reply under way one transmission older and
\* changes nothing else of it.
LEMMA OlderFrames ==
    ASSUME NEW s \in Seq(Frame)
    PROVE  /\ Older(s) \in Seq(Frame)
           /\ Len(Older(s)) = Len(s)
           /\ \A i \in 1..Len(s) : Older(s)[i].age = s[i].age
  <1> DEFINE f(i) == [s[i] EXCEPT !.back = IF @ < 2 THEN @ + 1 ELSE @]
  <1>1. ASSUME NEW i \in 1..Len(s)
        PROVE  f(i) \in Frame /\ f(i).age = s[i].age
    <2>1. s[i] \in Frame
      OBVIOUS
    <2> QED BY <2>1 DEF Frame
  <1>2. Older(s) = [i \in 1..Len(s) |-> f(i)]
    BY DEF Older
  <1> HIDE DEF f
  <1>3. Older(s) \in [1..Len(s) -> Frame] /\ Len(s) \in Nat
    BY <1>1, <1>2
  <1>4. Older(s) \in Seq(Frame) /\ Len(Older(s)) = Len(s)
    BY <1>3, IsASeq, <1>1, <1>2
  <1> QED BY <1>1, <1>2, <1>4

\* A tick makes every reply on the wire older.
LEMMA GrownFrames ==
    ASSUME NEW s \in Seq(Frame), \A i \in 1..Len(s) : s[i].age < Latency
    PROVE  /\ Grown(s) \in Seq(Frame)
           /\ Len(Grown(s)) = Len(s)
           /\ \A i \in 1..Len(s) : Grown(s)[i].age = s[i].age + 1
                                   /\ Grown(s)[i].back = s[i].back
  <1> DEFINE f(i) == [s[i] EXCEPT !.age = @ + 1]
  <1>1. ASSUME NEW i \in 1..Len(s)
        PROVE  f(i) \in Frame /\ f(i).age = s[i].age + 1 /\ f(i).back = s[i].back
    <2>1. s[i] \in Frame /\ s[i].age < Latency
      OBVIOUS
    <2>2. s[i].age + 1 \in 0..Latency
      BY <2>1, TimeAssumption DEF Frame
    <2> QED BY <2>1, <2>2 DEF Frame
  <1>2. Grown(s) = [i \in 1..Len(s) |-> f(i)]
    BY DEF Grown
  <1> HIDE DEF f
  <1>3. Grown(s) \in [1..Len(s) -> Frame] /\ Len(s) \in Nat
    BY <1>1, <1>2
  <1>4. Grown(s) \in Seq(Frame) /\ Len(Grown(s)) = Len(s)
    BY <1>3, IsASeq, <1>1, <1>2
  <1> QED BY <1>1, <1>2, <1>4

\* Whatever the board does when it receives a command, it sends at most one
\* frame, and that frame is new.
LEMMA ReactionFrames ==
    ASSUME NEW k \in Kind, lastSent \in Kind \cup {NoKind}, NEW a \in Reaction(k)
    PROVE  /\ a \in Seq(Frame)
           /\ a # <<>> => /\ Len(a) = 1 /\ a[1].age = 0
                          /\ a[1].back <= IF Replays THEN 1 ELSE 0
  <1>1. CASE a = <<>>
    BY <1>1
  <1>2. CASE \E s \in Shapes : a = <<Reply(k, 0, s)>>
    <2>1. PICK s \in Shapes : a = <<Reply(k, 0, s)>>
      BY <1>2
    <2>2. 0 \in 0..Latency /\ s \in Shape
      BY TimeAssumption, FaultAssumption
    <2>3. Reply(k, 0, s) \in Frame
      BY <2>2 DEF Reply, Frame
    <2> QED BY <2>1, <2>3, FaultAssumption DEF Reply
  <1>3. CASE Replays /\ lastSent # NoKind /\ a = <<Reply(lastSent, 1, "whole")>>
    <2>1. Reply(lastSent, 1, "whole") \in Frame
      BY <1>3, TimeAssumption, FaultAssumption DEF Reply, Frame, Shape
    <2> QED BY <1>3, <2>1 DEF Reply
  <1> QED BY <1>1, <1>2, <1>3 DEF Reaction

\* Leaving fetch() keeps the types of the tasks.
LEMMA LeaveTypes ==
    ASSUME TypeOK, NEW c \in Client, NEW r \in Outcome, Leave(c, r)
    PROVE  /\ pc' \in [Client -> {"idle", "lock"} \cup Working]
           /\ req' \in [Client -> Kind]
           /\ attempt' \in [Client -> 0..MaxRetries]
           /\ delay' \in [Client -> Nat] /\ timer' \in [Client -> Nat]
           /\ result' \in [Client -> Outcome]
  BY TimeAssumption DEF TypeOK, Leave, Goto

LEMMA ReleaseTypes ==
    ASSUME TypeOK, NEW c \in Client, NEW r \in Outcome, Release(c, r), mutex # <<>>
    PROVE  /\ mutex' \in Seq(Client)
           /\ pc' \in [Client -> {"idle", "lock"} \cup Working]
           /\ req' \in [Client -> Kind]
           /\ attempt' \in [Client -> 0..MaxRetries]
           /\ delay' \in [Client -> Nat] /\ timer' \in [Client -> Nat]
           /\ result' \in [Client -> Outcome]
  <1>1. mutex' \in Seq(Client)
    BY DEF TypeOK, Release
  <1> QED BY <1>1, LeaveTypes DEF Release

LEMMA FailedOutcome ==
    \A tag \in {"IOBoardError", "OtherError", "cancelled"} : Failed(tag) \in Outcome
  BY DEF Failed, Outcome

LEMMA WaitTypes ==
    ASSUME TypeOK, NEW k \in Kind
    PROVE  InterCommandWait \in Nat /\ WireGapWait(k) \in Nat
  BY TimeAssumption DEF TypeOK, InterCommandWait, WireGapWait, MinSendInterval, Monus

-----------------------------------------------------------------------------
(* Type correctness.                                                       *)

LEMMA TypeInit == Init => TypeOK
  <1> SUFFICES ASSUME Init PROVE TypeOK
    OBVIOUS
  <1>1. Pending \in Outcome
    BY DEF Pending, Outcome
  <1>2. <<>> \in Seq(Client) /\ <<>> \in Seq(Frame)
    BY EmptySeq
  <1> QED BY <1>1, <1>2, TimeAssumption DEF Init, TypeOK

\* The types of the tasks, the part of TypeOK that every step of fetch() touches.
TasksOK == /\ mutex \in Seq(Client)
           /\ pc \in [Client -> {"idle", "lock"} \cup Working]
           /\ req \in [Client -> Kind]
           /\ attempt \in [Client -> 0..MaxRetries]
           /\ delay \in [Client -> Nat] /\ timer \in [Client -> Nat]
           /\ result \in [Client -> Outcome]

LEMMA BeginTypes ==
    ASSUME TypeOK, NEW c \in Client, BeginAttempts(c)
    PROVE  TasksOK'
  <1>1. InterCommandWait \in Nat
    BY WaitTypes DEF TypeOK
  <1> QED BY <1>1, TimeAssumption DEF TypeOK, TasksOK, BeginAttempts, Goto, Working, Waiting

LEMMA RetryTypes ==
    ASSUME TypeOK, NEW c \in Client, mutex # <<>>, RetryOrRaise(c)
    PROVE  TasksOK' /\ conn' \in {"closed", "open", "lost"}
  <1>1. CASE attempt[c] < MaxRetries
    <2>1. delay[c] * BackoffMultiplier \in Nat
      BY TimeAssumption DEF TypeOK
    <2> QED BY <1>1, <2>1 DEF RetryOrRaise, TypeOK, TasksOK, Goto, Working, Waiting
  <1>2. CASE ~(attempt[c] < MaxRetries)
    <2>1. conn' \in {"closed", "open", "lost"}
          /\ (Release(c, Failed("IOBoardError")) \/ Release(c, Failed("OtherError")))
      BY <1>2 DEF RetryOrRaise, TypeOK
    <2> QED BY <2>1, FailedOutcome, ReleaseTypes DEF TasksOK
  <1> QED BY <1>1, <1>2

\* A task that backs off has an attempt left.
RetriesLeft == \A c \in Client : pc[c] = "backoff" => attempt[c] < MaxRetries

\* Whoever works owns the mutex, so the queue that it leaves is not empty.
LEMMA OwnerQueue ==
    ASSUME TypeOK, Exclusive, NEW c \in Client, pc[c] \in Working
    PROVE  mutex # <<>> /\ Head(mutex) = c
  BY DEF Exclusive, Owns

LEMMA TypeStep == TypeOK /\ Exclusive /\ RetriesLeft /\ [Next]_vars => TypeOK'
  <1> SUFFICES ASSUME TypeOK, Exclusive, RetriesLeft, [Next]_vars PROVE TypeOK'
    OBVIOUS
  <1> USE DEF line, ages
  <1>1. ASSUME NEW c \in Client, NEW k \in Kind, Request(c, k) PROVE TypeOK'
    <2>1. Pending \in Outcome
      BY DEF Pending, Outcome
    <2>2. mutex' \in Seq(Client)
      BY <1>1, AppendProperties DEF Request, TypeOK
    <2> QED BY <1>1, <2>1, <2>2 DEF Request, TypeOK
  <1>2. ASSUME NEW c \in Client, Connect(c) PROVE TypeOK'
    <2>1. CASE Reuse(c)
      BY <2>1, BeginTypes DEF Reuse, TypeOK, TasksOK
    <2>2. CASE Open(c)
      <3>1. TasksOK'
        BY <2>2, BeginTypes, ReleaseTypes, FailedOutcome DEF Open, TasksOK, Owns
      <3>2. rx' = <<>> /\ conn' = "open" /\ UNCHANGED <<plugged, wire, lastSent, ages>>
        BY <2>2, Zenon DEF Open
      <3>3. rx' \in Seq(Frame)
        BY <3>2, EmptySeq
      <3> QED BY <3>1, <3>2, <3>3 DEF TypeOK, TasksOK
    <2>3. CASE OpenRefused(c) \/ Reclose(c)
      <3>1. TasksOK'
        BY <2>3, ReleaseTypes, FailedOutcome DEF OpenRefused, Reclose, TasksOK, Owns
      <3> QED BY <2>3, <3>1 DEF OpenRefused, Reclose, TypeOK, TasksOK
    <2> QED BY <1>2, <2>1, <2>2, <2>3 DEF Connect
  <1>3. ASSUME NEW c \in Client, GapDone(c) \/ MinGapDone(c) PROVE TypeOK'
    <2>1. WireGapWait(req[c]) \in Nat /\ DrainQuiet \in Nat
      BY WaitTypes, TimeAssumption DEF TypeOK
    <2>2. pc' \in [Client -> {"idle", "lock"} \cup Working] /\ timer' \in [Client -> Nat]
      BY <1>3, <2>1 DEF GapDone, MinGapDone, Goto, TypeOK, Working, Waiting, Reading
    <2> QED BY <1>3, <2>2 DEF GapDone, MinGapDone, TypeOK
  <1>4. ASSUME NEW c \in Client, DrainMore(c) PROVE TypeOK'
    BY <1>4, EmptySeq, TimeAssumption DEF DrainMore, Goto, TypeOK, Working, Reading
  <1>5. ASSUME NEW c \in Client, Transmit(c) PROVE TypeOK'
    <2>1. PICK answer \in Reaction(req[c]) : wire' = Older(wire) \o answer
      BY <1>5 DEF Transmit
    <2>2. wire' \in Seq(Frame) /\ rx' \in Seq(Frame)
      BY <1>5, <2>1, OlderFrames, ReactionFrames, ConcatProperties DEF TypeOK, Transmit
    <2>3. txAge' \in [Throttled -> 0..AgeCap]
      BY <1>5, TimeAssumption DEF TypeOK, Transmit
    <2> QED BY <1>5, <2>2, <2>3, TimeAssumption DEF Transmit, Goto, TypeOK, Working, Reading
  <1>6. ASSUME NEW c \in Client, Accept(c) PROVE TypeOK'
    <2>1. Head(rx) \in Frame /\ Tail(rx) \in Seq(Frame)
      BY <1>6 DEF Accept, TypeOK
    <2>2. Ok(Head(rx)) \in Outcome
      BY <2>1 DEF Ok, Outcome, Frame
    <2>3. mutex # <<>>
      BY <1>6, OwnerQueue DEF Accept, Working, Reading
    <2>4. TasksOK'
      BY <1>6, <2>2, <2>3, ReleaseTypes DEF Accept, TasksOK
    <2> QED BY <1>6, <2>1, <2>4, TimeAssumption DEF Accept, TypeOK, TasksOK
  <1>7. ASSUME NEW c \in Client, Reject(c) \/ TimedOut(c) PROVE TypeOK'
    <2>1. mutex # <<>>
      BY <1>7, OwnerQueue DEF Reject, TimedOut, Working, Reading
    <2>2. TasksOK' /\ conn' \in {"closed", "open", "lost"}
      BY <1>7, <2>1, RetryTypes DEF Reject, TimedOut
    <2>3. rx' \in Seq(Frame)
      <3>1. rx' = rx \/ (rx # <<>> /\ rx' = Tail(rx))
        BY <1>7 DEF Reject, TimedOut
      <3>2. rx # <<>> => Tail(rx) \in Seq(Frame)
        BY DEF TypeOK
      <3>3. rx \in Seq(Frame)
        BY DEF TypeOK
      <3> QED BY <3>1, <3>2, <3>3
    <2> QED BY <1>7, <2>2, <2>3, TimeAssumption DEF Reject, TimedOut, TypeOK, TasksOK
  <1>8. ASSUME NEW c \in Client, Stall(c) PROVE TypeOK'
    <2>1. Tail(rx) \in Seq(Frame)
      BY <1>8 DEF Stall, TypeOK
    <2> QED BY <1>8, <2>1, TimeAssumption DEF Stall, Goto, TypeOK, Working, Reading
  <1>9. ASSUME NEW c \in Client, BackoffDone(c) PROVE TypeOK'
    <2>1. InterCommandWait \in Nat
      BY WaitTypes DEF TypeOK
    <2>2. attempt[c] + 1 \in 0..MaxRetries
      BY <1>9, TimeAssumption DEF BackoffDone, RetriesLeft, TypeOK
    <2> QED BY <1>9, <2>1, <2>2 DEF BackoffDone, Goto, TypeOK, Working, Waiting
  <1>10. ASSUME NEW c \in Client, ReadFails(c) PROVE TypeOK'
    <2>1. mutex # <<>>
      BY <1>10, OwnerQueue DEF ReadFails, Working
    <2> QED BY <1>10, <2>1, ReleaseTypes, FailedOutcome DEF ReadFails, TypeOK
  <1>11. ASSUME NEW c \in Client, Cancel(c) PROVE TypeOK'
    <2>1. PICK i \in 1..Len(mutex) : mutex' = Without(mutex, i)
      BY <1>11 DEF Cancel
    <2>2. mutex' \in Seq(Client)
      BY <2>1, WithoutOne DEF TypeOK
    <2> QED BY <1>11, <2>2, LeaveTypes, FailedOutcome DEF Cancel, TypeOK
  <1>12. ASSUME Deliver PROVE TypeOK'
    <2>1. Head(wire) \in Frame /\ Tail(wire) \in Seq(Frame)
      BY <1>12 DEF Deliver, TypeOK
    <2>2. rx' \in Seq(Frame)
      BY <1>12, <2>1, AppendProperties DEF Deliver, TypeOK
    <2> QED BY <1>12, <2>1, <2>2 DEF Deliver, TypeOK, tasks
  <1>13. ASSUME Unplug \/ Replug PROVE TypeOK'
    BY <1>13, EmptySeq DEF Unplug, Replug, TypeOK, tasks
  <1>14. ASSUME Tick PROVE TypeOK'
    <2>1. wire' \in Seq(Frame)
      BY <1>14, GrownFrames DEF Tick, TypeOK
    <2>2. timer' \in [Client -> Nat]
      BY <1>14 DEF Tick, TypeOK, Countdown
    <2>3. txAge' \in [Throttled -> 0..AgeCap] /\ rxAge' \in 0..AgeCap
      BY <1>14, TimeAssumption DEF Tick, TypeOK, Aged
    <2> QED BY <1>14, <2>1, <2>2, <2>3 DEF Tick, TypeOK
  <1>15. CASE UNCHANGED vars
    BY <1>15 DEF vars, tasks, TypeOK
  <1> QED BY <1>1, <1>2, <1>3, <1>4, <1>5, <1>6, <1>7, <1>8, <1>9, <1>10, <1>11, <1>12,
             <1>13, <1>14, <1>15 DEF Next, Calls, Fetch, Exchange

-----------------------------------------------------------------------------
(* Exclusion.                                                              *)

\* The owner leaves: everybody moves up by one.
LEMMA LeaveQueue ==
    ASSUME TypeOK, Exclusive, NEW c \in Client, Owns(c),
           mutex' = Tail(mutex), pc' = [pc EXCEPT ![c] = "idle"]
    PROVE  Exclusive'
  <1>1. /\ Len(mutex) \in Nat \ {0} /\ mutex[1] = c
        /\ Len(mutex') = Len(mutex) - 1
        /\ \A i \in 1..(Len(mutex) - 1) : mutex'[i] = mutex[i + 1]
    BY DEF TypeOK, Owns
  <1>2. \A i, j \in 1..Len(mutex') : mutex'[i] = mutex'[j] => i = j
    BY <1>1 DEF Exclusive
  <1>3. ASSUME NEW d \in Client
        PROVE  pc'[d] # "idle" <=> \E i \in 1..Len(mutex') : mutex'[i] = d
    <2>1. CASE d = c
      BY <1>1, <2>1 DEF Exclusive, TypeOK
    <2>2. CASE d # c
      <3>1. pc'[d] = pc[d]
        BY <2>2 DEF TypeOK
      <3>2. ASSUME NEW i \in 1..Len(mutex), mutex[i] = d
            PROVE  \E j \in 1..Len(mutex') : mutex'[j] = d
        <4>1. i # 1
          BY <1>1, <2>2, <3>2
        <4>2. i - 1 \in 1..Len(mutex') /\ mutex'[i - 1] = mutex[i]
          BY <1>1, <4>1
        <4> QED BY <3>2, <4>2
      <3>3. ASSUME NEW i \in 1..Len(mutex'), mutex'[i] = d
            PROVE  \E j \in 1..Len(mutex) : mutex[j] = d
        BY <1>1, <3>3
      <3> QED BY <3>1, <3>2, <3>3 DEF Exclusive
    <2> QED BY <2>1, <2>2
  <1>4. ASSUME NEW d \in Client, pc'[d] \in Working PROVE Owns(d)'
    BY <1>1, <1>4 DEF Exclusive, TypeOK, Owns, Working, Waiting, Reading
  <1> QED BY <1>2, <1>3, <1>4 DEF Exclusive

\* The owner goes on, and keeps the mutex.
LEMMA KeepQueue ==
    ASSUME TypeOK, Exclusive, NEW c \in Client, Owns(c), pc[c] # "idle", UNCHANGED mutex,
           NEW w \in Working, pc' = [pc EXCEPT ![c] = w]
    PROVE  Exclusive'
  BY DEF Exclusive, TypeOK, Owns, Working, Waiting, Reading

\* A task joins the queue.
LEMMA JoinQueue ==
    ASSUME TypeOK, Exclusive, NEW c \in Client, pc[c] = "idle",
           mutex' = Append(mutex, c), pc' = [pc EXCEPT ![c] = "lock"]
    PROVE  Exclusive'
  <1>1. /\ Len(mutex) \in Nat /\ Len(mutex') = Len(mutex) + 1
        /\ \A i \in 1..Len(mutex) : mutex'[i] = mutex[i]
        /\ mutex'[Len(mutex) + 1] = c
    BY DEF TypeOK
  <1>2. \A i \in 1..Len(mutex) : mutex[i] # c
    BY DEF Exclusive
  <1>3. \A i, j \in 1..Len(mutex') : mutex'[i] = mutex'[j] => i = j
    BY <1>1, <1>2 DEF Exclusive
  <1>4. ASSUME NEW d \in Client
        PROVE  pc'[d] # "idle" <=> \E i \in 1..Len(mutex') : mutex'[i] = d
    BY <1>1 DEF Exclusive, TypeOK
  <1>5. ASSUME NEW d \in Client, pc'[d] \in Working PROVE Owns(d)'
    <2>1. d # c /\ pc[d] \in Working
      BY <1>5 DEF TypeOK, Working, Waiting, Reading
    <2>2. mutex # <<>> /\ Head(mutex) = d
      BY <2>1 DEF Exclusive, Owns
    <2>3. mutex \in Seq(Client) /\ mutex[1] = d /\ 1 \in 1..Len(mutex)
      BY <2>2 DEF TypeOK
    <2>4. mutex' \in Seq(Client) /\ mutex' # <<>> /\ mutex'[1] = d
      BY <1>1, <2>3, AppendProperties
    <2> QED BY <2>4 DEF Owns
  <1> QED BY <1>3, <1>4, <1>5 DEF Exclusive

\* A task is cancelled, wherever it is in the queue.
LEMMA QuitQueue ==
    ASSUME TypeOK, Exclusive, NEW c \in Client, pc' = [pc EXCEPT ![c] = "idle"],
           NEW i \in 1..Len(mutex), mutex[i] = c, mutex' = Without(mutex, i)
    PROVE  Exclusive'
  <1>1. /\ Len(mutex) \in Nat /\ Len(mutex') = Len(mutex) - 1
        /\ \A j \in 1..(Len(mutex) - 1) :
              mutex'[j] = IF j < i THEN mutex[j] ELSE mutex[j + 1]
        /\ mutex' \in Seq(Client)
    <2>1. mutex \in Seq(Client) /\ Len(mutex) \in Nat
      BY DEF TypeOK
    <2>2. /\ Without(mutex, i) \in Seq(Client)
          /\ Len(Without(mutex, i)) = Len(mutex) - 1
          /\ \A j \in 1..(Len(mutex) - 1) :
                Without(mutex, i)[j] = IF j < i THEN mutex[j] ELSE mutex[j + 1]
      BY <2>1, WithoutOne
    <2> QED BY <2>1, <2>2, Zenon
  <1> DEFINE old(j) == IF j < i THEN j ELSE j + 1
  <1>6. \A j \in 1..Len(mutex') : /\ old(j) \in 1..Len(mutex) /\ old(j) # i
                                 /\ mutex'[j] = mutex[old(j)]
    BY <1>1
  <1>7. \A j, k \in 1..Len(mutex') : old(j) = old(k) => j = k
    BY <1>1
  <1> HIDE DEF old
  <1>2. ASSUME NEW j \in 1..Len(mutex'), NEW k \in 1..Len(mutex'), mutex'[j] = mutex'[k]
        PROVE  j = k
    <2>1. mutex[old(j)] = mutex[old(k)] /\ old(j) \in 1..Len(mutex) /\ old(k) \in 1..Len(mutex)
      BY <1>2, <1>6
    <2>2. old(j) = old(k)
      BY <2>1 DEF Exclusive
    <2> QED BY <2>2, <1>7
  <1>3. ASSUME NEW d \in Client
        PROVE  pc'[d] # "idle" <=> \E j \in 1..Len(mutex') : mutex'[j] = d
    <2>1. CASE d = c
      <3>1. pc'[d] = "idle"
        BY <2>1 DEF TypeOK
      <3>2. ASSUME NEW j \in 1..Len(mutex'), mutex'[j] = c PROVE FALSE
        <4>1. old(j) \in 1..Len(mutex) /\ old(j) # i /\ mutex[old(j)] = c
          BY <1>6, <3>2
        <4> QED BY <4>1 DEF Exclusive
      <3> QED BY <2>1, <3>1, <3>2
    <2>2. CASE d # c
      <3>1. pc'[d] = pc[d]
        BY <2>2 DEF TypeOK
      <3>2. ASSUME NEW j \in 1..Len(mutex), mutex[j] = d
            PROVE  \E k \in 1..Len(mutex') : mutex'[k] = d
        <4>1. j # i
          BY <2>2, <3>2
        <4>2. CASE j < i
          BY <1>1, <3>2, <4>2
        <4>3. CASE j > i
          <5>1. j - 1 \in 1..Len(mutex') /\ mutex'[j - 1] = mutex[j]
            BY <1>1, <4>3
          <5> QED BY <3>2, <5>1
        <4> QED BY <4>1, <4>2, <4>3
      <3>3. ASSUME NEW j \in 1..Len(mutex'), mutex'[j] = d
            PROVE  \E k \in 1..Len(mutex) : mutex[k] = d
        BY <1>1, <3>3
      <3> QED BY <3>1, <3>2, <3>3 DEF Exclusive
    <2> QED BY <2>1, <2>2
  <1>4. ASSUME NEW d \in Client, pc'[d] \in Working PROVE Owns(d)'
    <2>1. d # c /\ pc[d] \in Working
      BY <1>4 DEF TypeOK, Working, Waiting, Reading
    <2>2. mutex # <<>> /\ mutex[1] = d
      BY <2>1 DEF Exclusive, Owns, TypeOK
    <2>3. i # 1
      BY <2>1, <2>2
    <2>4. mutex' # <<>> /\ mutex'[1] = d /\ mutex' \in Seq(Client)
      BY <1>1, <2>2, <2>3
    <2> QED BY <2>4 DEF Owns
  <1> QED BY <1>2, <1>3, <1>4 DEF Exclusive

\* What the failure of an attempt does to the queue.
LEMMA RetryQueue ==
    ASSUME TypeOK, Exclusive, NEW c \in Client, pc[c] \in Working, RetryOrRaise(c)
    PROVE  Exclusive'
  <1>1. Owns(c)
    BY DEF Exclusive
  <1>2. CASE attempt[c] < MaxRetries
    BY <1>1, <1>2, KeepQueue DEF RetryOrRaise, Goto, Working, Waiting, Reading
  <1>3. CASE ~(attempt[c] < MaxRetries)
    <2>1. mutex' = Tail(mutex) /\ pc' = [pc EXCEPT ![c] = "idle"]
      BY <1>3 DEF RetryOrRaise, Release, Leave, Goto
    <2> QED BY <1>1, <2>1, LeaveQueue
  <1> QED BY <1>2, <1>3

LEMMA ExclusiveStep == TypeOK /\ Exclusive /\ [Next]_vars => Exclusive'
  <1> SUFFICES ASSUME TypeOK, Exclusive, [Next]_vars PROVE Exclusive'
    OBVIOUS
  <1>1. ASSUME NEW c \in Client, NEW k \in Kind, Request(c, k) PROVE Exclusive'
    BY <1>1, JoinQueue DEF Request
  <1>2. ASSUME NEW c \in Client, Connect(c) PROVE Exclusive'
    <2>1. pc[c] = "lock" /\ Owns(c) /\ (BeginAttempts(c) \/ \E r \in Outcome : Release(c, r))
      BY <1>2, FailedOutcome DEF Connect, Reuse, Open, OpenRefused, Reclose
    <2>2. CASE BeginAttempts(c)
      BY <2>1, <2>2, KeepQueue DEF BeginAttempts, Goto, Working, Waiting
    <2>3. CASE \E r \in Outcome : Release(c, r)
      BY <2>1, <2>3, LeaveQueue DEF Release, Leave, Goto
    <2> QED BY <2>1, <2>2, <2>3
  <1>3. ASSUME NEW c \in Client, Exchange(c) PROVE Exclusive'
    <2>1. pc[c] \in Working
      BY <1>3 DEF Exchange, GapDone, MinGapDone, DrainMore, Transmit, Accept, Reject, Stall,
                  TimedOut, BackoffDone, ReadFails, Working, Waiting, Reading
    <2>2. Owns(c) /\ pc[c] # "idle"
      BY <2>1 DEF Exclusive, Working, Waiting, Reading
    <2>3. CASE Accept(c) \/ ReadFails(c)
      BY <2>2, <2>3, LeaveQueue DEF Accept, ReadFails, Release, Leave, Goto
    <2>4. CASE Reject(c) \/ TimedOut(c)
      BY <2>1, <2>4, RetryQueue DEF Reject, TimedOut
    <2>5. CASE GapDone(c) \/ MinGapDone(c) \/ DrainMore(c) \/ Transmit(c) \/ Stall(c) \/ BackoffDone(c)
      <3>1. UNCHANGED mutex /\ \E w \in Working : pc' = [pc EXCEPT ![c] = w]
        BY <2>5 DEF GapDone, MinGapDone, DrainMore, Transmit, Stall, BackoffDone, Goto,
                    Working, Waiting, Reading
      <3> QED BY <2>2, <3>1, KeepQueue
    <2> QED BY <1>3, <2>3, <2>4, <2>5 DEF Exchange
  <1>4. ASSUME NEW c \in Client, Cancel(c) PROVE Exclusive'
    BY <1>4, QuitQueue DEF Cancel, Leave, Goto
  <1>5. ASSUME Deliver \/ Unplug \/ Replug \/ Tick \/ UNCHANGED vars PROVE Exclusive'
    <2>1. UNCHANGED <<mutex, pc>>
      BY <1>5 DEF Deliver, Unplug, Replug, Tick, vars, tasks
    <2> QED BY <2>1 DEF Exclusive, Owns
  <1> QED BY <1>1, <1>2, <1>3, <1>4, <1>5 DEF Next, Calls, Fetch

\* Only the owner of the mutex is at work.
LEMMA OneWorks ==
    ASSUME Exclusive, NEW c \in Client, Owns(c), NEW d \in Client, d # c
    PROVE  pc[d] \notin Working
  BY DEF Exclusive, Owns

\* A step of one task leaves the locals of the others alone.
LEMMA Locality ==
    ASSUME TypeOK, NEW c \in Client, Calls(c), NEW d \in Client, d # c
    PROVE  /\ pc'[d] = pc[d] /\ req'[d] = req[d] /\ attempt'[d] = attempt[d]
           /\ timer'[d] = timer[d] /\ result'[d] = result[d]
  <1>1. ASSUME NEW k \in Kind, Request(c, k)
        PROVE  pc'[d] = pc[d] /\ req'[d] = req[d] /\ attempt'[d] = attempt[d]
               /\ timer'[d] = timer[d] /\ result'[d] = result[d]
    BY <1>1 DEF Request, TypeOK
  <1>2. CASE Connect(c)
    BY <1>2 DEF Connect, Reuse, Open, OpenRefused, Reclose, BeginAttempts, Release, Leave,
                Goto, TypeOK
  <1>3. CASE Accept(c) \/ ReadFails(c) \/ Cancel(c)
    BY <1>3 DEF Accept, ReadFails, Cancel, Release, Leave, Goto, TypeOK
  <1>4. CASE Reject(c) \/ TimedOut(c)
    BY <1>4 DEF Reject, TimedOut, RetryOrRaise, Release, Leave, Goto, TypeOK
  <1>5. CASE GapDone(c) \/ MinGapDone(c) \/ DrainMore(c)
    BY <1>5 DEF GapDone, MinGapDone, DrainMore, Goto, TypeOK
  <1>6. CASE Transmit(c) \/ Stall(c) \/ BackoffDone(c)
    BY <1>6 DEF Transmit, Stall, BackoffDone, Goto, TypeOK
  <1> QED BY <1>1, <1>2, <1>3, <1>4, <1>5, <1>6 DEF Calls, Fetch, Exchange

LEMMA RetriesStep == TypeOK /\ Exclusive /\ RetriesLeft /\ [Next]_vars => RetriesLeft'
  <1> SUFFICES ASSUME TypeOK, Exclusive, RetriesLeft, [Next]_vars,
                      NEW d \in Client, pc'[d] = "backoff"
               PROVE  attempt'[d] < MaxRetries
    BY DEF RetriesLeft
  <1>1. ASSUME NEW c \in Client, Calls(c), d # c PROVE attempt'[d] < MaxRetries
    BY <1>1, Locality DEF RetriesLeft
  <1>2. ASSUME Calls(d) PROVE attempt'[d] < MaxRetries
    <2>1. CASE Reject(d) \/ TimedOut(d)
      BY <2>1 DEF Reject, TimedOut, RetryOrRaise, Release, Leave, Goto, TypeOK
    <2>2. ASSUME ~(Reject(d) \/ TimedOut(d)) PROVE pc'[d] # "backoff"
      <3>1. CASE \E k \in Kind : Request(d, k)
        BY <3>1 DEF Request, TypeOK
      <3>2. CASE Connect(d)
        BY <3>2 DEF Connect, Reuse, Open, OpenRefused, Reclose, BeginAttempts, Release, Leave,
                    Goto, TypeOK
      <3>3. CASE Accept(d) \/ ReadFails(d) \/ Cancel(d)
        BY <3>3 DEF Accept, ReadFails, Cancel, Release, Leave, Goto, TypeOK
      <3>4. CASE GapDone(d) \/ MinGapDone(d) \/ DrainMore(d)
        BY <3>4 DEF GapDone, MinGapDone, DrainMore, Goto, TypeOK
      <3>5. CASE Transmit(d) \/ Stall(d) \/ BackoffDone(d)
        BY <3>5 DEF Transmit, Stall, BackoffDone, Goto, TypeOK
      <3> QED BY <1>2, <2>2, <3>1, <3>2, <3>3, <3>4, <3>5 DEF Calls, Fetch, Exchange
    <2> QED BY <2>1, <2>2
  <1>3. CASE Deliver \/ Unplug \/ Replug \/ Tick \/ UNCHANGED vars
    BY <1>3 DEF Deliver, Unplug, Replug, Tick, vars, tasks, RetriesLeft
  <1> QED BY <1>1, <1>2, <1>3 DEF Next

-----------------------------------------------------------------------------
(* The gaps between transmissions.                                         *)

\* A task that sleeps for a gap will have slept enough, and one that drains
\* has.  Nothing else resets the ages meanwhile: only the owner of the mutex
\* sends and reads.
GapOK(c) ==
    /\ pc[c] = "gap" => rxAge + timer[c] >= InterGap
    /\ pc[c] \in {"mingap", "drain"} => rxAge >= InterGap
    /\ pc[c] = "mingap" /\ req[c] \in Throttled => txAge[req[c]] + timer[c] >= RequestGap
    /\ pc[c] = "drain" /\ req[c] \in Throttled => txAge[req[c]] >= RequestGap

GapInv == \A c \in Client : GapOK(c)

LEMMA GapInit == Init => GapInv
  BY DEF Init, GapInv, GapOK

LEMMA GapStep == TypeOK /\ Exclusive /\ GapInv /\ [Next]_vars => GapInv'
  <1> SUFFICES ASSUME TypeOK, Exclusive, GapInv, [Next]_vars, NEW d \in Client
               PROVE  GapOK(d)'
    BY DEF GapInv
  <1> USE DEF ages
  <1>1. ASSUME NEW c \in Client, Calls(c), d # c PROVE GapOK(d)'
    <2>1. pc'[d] = pc[d] /\ req'[d] = req[d] /\ timer'[d] = timer[d]
      BY <1>1, Locality
    <2>2. CASE UNCHANGED ages
      BY <2>1, <2>2 DEF GapInv, GapOK
    <2>3. CASE pc[c] \in Working
      <3>1. pc[d] \notin Working
        BY <2>3, <1>1 DEF Exclusive, Owns
      <3> QED BY <2>1, <3>1 DEF GapOK, Working, Waiting, Reading
    <2>4. UNCHANGED ages \/ pc[c] \in Working
      BY <1>1 DEF Calls, Fetch, Request, Connect, Reuse, Open, OpenRefused, Reclose, Exchange,
                  GapDone, MinGapDone, DrainMore, Transmit, Accept, Reject, Stall, TimedOut,
                  BackoffDone, ReadFails, Cancel, Working, Waiting, Reading
    <2> QED BY <2>2, <2>3, <2>4
  <1>2. ASSUME Calls(d) PROVE GapOK(d)'
    <2>1. CASE \E k \in Kind : Request(d, k)
      BY <2>1 DEF Request, GapOK, TypeOK
    <2>2. CASE Reuse(d) \/ Open(d)
      <3>1. CASE BeginAttempts(d)
        BY <2>2, <3>1, TimeAssumption DEF Reuse, Open, BeginAttempts, Goto, GapOK, TypeOK,
                                          InterCommandWait, Monus
      <3>2. CASE Release(d, Failed("OtherError"))
        BY <3>2 DEF Release, Leave, Goto, GapOK, TypeOK
      <3> QED BY <2>2, <3>1, <3>2 DEF Reuse, Open
    <2>3. CASE OpenRefused(d) \/ Reclose(d) \/ Accept(d) \/ ReadFails(d) \/ Cancel(d)
      <3>1. pc'[d] = "idle"
        BY <2>3 DEF OpenRefused, Reclose, Accept, ReadFails, Cancel, Release, Leave, Goto, TypeOK
      <3> QED BY <3>1 DEF GapOK
    <2>4. CASE Reject(d) \/ TimedOut(d)
      <3>1. pc'[d] \in {"idle", "backoff"}
        BY <2>4 DEF Reject, TimedOut, RetryOrRaise, Release, Leave, Goto, TypeOK
      <3> QED BY <3>1 DEF GapOK
    <2>5. CASE GapDone(d)
      BY <2>5, TimeAssumption DEF GapDone, Goto, GapInv, GapOK, TypeOK, WireGapWait,
                                  MinSendInterval, Monus
    <2>6. CASE MinGapDone(d)
      BY <2>6, TimeAssumption DEF MinGapDone, Goto, GapInv, GapOK, TypeOK
    <2>7. CASE DrainMore(d)
      BY <2>7, TimeAssumption DEF DrainMore, Goto, GapInv, GapOK, TypeOK
    <2>8. CASE Transmit(d) \/ Stall(d)
      <3>1. pc'[d] \in {"await", "stall"}
        BY <2>8 DEF Transmit, Stall, Goto, TypeOK
      <3> QED BY <3>1 DEF GapOK
    <2>9. CASE BackoffDone(d)
      BY <2>9, TimeAssumption DEF BackoffDone, Goto, GapOK, TypeOK, InterCommandWait, Monus
    <2> QED BY <1>2, <2>1, <2>2, <2>3, <2>4, <2>5, <2>6, <2>7, <2>8, <2>9
            DEF Calls, Fetch, Connect, Exchange
  <1>3. CASE Tick
    <2>1. /\ pc'[d] = pc[d] /\ req'[d] = req[d] /\ timer'[d] = Countdown(timer[d])
          /\ rxAge' = Aged(rxAge)
          /\ req[d] \in Throttled => txAge'[req[d]] = Aged(txAge[req[d]])
      BY <1>3 DEF Tick, TypeOK
    <2>2. /\ timer[d] \in Nat /\ rxAge \in 0..AgeCap
          /\ req[d] \in Throttled => txAge[req[d]] \in 0..AgeCap
      BY DEF TypeOK
    <2> QED BY <2>1, <2>2, TimeAssumption DEF GapInv, GapOK, Countdown, Aged
  <1>4. CASE Deliver \/ Unplug \/ Replug \/ UNCHANGED vars
    BY <1>4 DEF Deliver, Unplug, Replug, vars, tasks, GapInv, GapOK
  <1> QED BY <1>1, <1>2, <1>3, <1>4 DEF Next

-----------------------------------------------------------------------------
(* What always holds, whatever the port, the board and the callers do.     *)

SafeInv == TypeOK /\ Exclusive /\ RetriesLeft /\ GapInv

LEMMA SafeInit == Init => SafeInv
  <1>1. Init => Exclusive
    BY DEF Init, Exclusive, Working, Waiting, Reading
  <1>2. Init => RetriesLeft
    BY DEF Init, RetriesLeft
  <1> QED BY <1>1, <1>2, TypeInit, GapInit DEF SafeInv

LEMMA SafeStep == SafeInv /\ [Next]_vars => SafeInv'
  BY TypeStep, ExclusiveStep, RetriesStep, GapStep DEF SafeInv

LEMMA Invariance == Safety => []SafeInv
  BY SafeInit, SafeStep, PTL DEF Safety

\* Every variable keeps its type; in particular no exchange makes more than
\* MaxRetries attempts.
THEOREM Types == Safety => []TypeOK
  <1>1. SafeInv => TypeOK
    BY DEF SafeInv
  <1> QED BY <1>1, Invariance, PTL

\* _serial_mutex serves one task at a time, through all of its retries.
THEOREM Exclusion == Safety => []Exclusive
  <1>1. SafeInv => Exclusive
    BY DEF SafeInv
  <1> QED BY <1>1, Invariance, PTL

\* No two transmissions of a throttled request, of whichever task or attempt,
\* are closer than RequestGap.
THEOREM RequestGaps == Safety => RequestGapKept
  <1>1. SafeInv => [\A c \in Client : Transmits(c) /\ req[c] \in Throttled =>
                       txAge[req[c]] >= RequestGap]_vars
    BY DEF SafeInv, GapInv, GapOK, Transmits
  <1> QED BY <1>1, Invariance, PTL DEF RequestGapKept

\* No transmission follows a frame that was read by less than InterGap.
THEOREM InterGaps == Safety => InterGapKept
  <1>1. SafeInv => [\A c \in Client : Transmits(c) => rxAge >= InterGap]_vars
    BY DEF SafeInv, GapInv, GapOK, Transmits
  <1> QED BY <1>1, Invariance, PTL DEF InterGapKept

-----------------------------------------------------------------------------
(* Fresh replies.                                                          *)

\* How far back the command of a reply can be.
Repeat == IF Replays THEN 1 ELSE 0

\* A reply still on the wire is as old as the time the exchange that asked for
\* it has waited: once that exchange gave up it is older than HeaderTimeout,
\* and once the next one drained the line it would be later than Latency.
WireInv ==
    /\ OneReplyInFlight
    /\ \A i \in 1..Len(wire) :
          /\ wire[i].back <= Repeat
          /\ \A c \in Client :
                /\ pc[c] = "await" => wire[i].age + timer[c] >= HeaderTimeout
                /\ pc[c] = "drain" => wire[i].age + timer[c] >= HeaderTimeout + DrainQuiet
          /\ (\A c \in Client : pc[c] \notin {"await", "drain"}) => wire[i].age >= HeaderTimeout
    /\ conn = "lost" => wire = <<>>

\* A drain does not end on bytes it has not read.
BufferInv ==
    /\ \A i \in 1..Len(rx) : rx[i].back <= Repeat
    /\ \A c \in Client : pc[c] = "drain" => /\ timer[c] <= DrainQuiet
                                            /\ rx # <<>> => timer[c] > 0

LineInv == WireInv /\ BufferInv

\* The assumptions: replies come in time, or in the drain that follows the
\* timeout; the event loop is not late; nobody is cancelled in mid-exchange.
Punctual == Latency < HeaderTimeout + DrainQuiet /\ LoopPrompt /\ ~AllowCancel

LEMMA LineInit == Init => LineInv
  BY DEF Init, LineInv, WireInv, BufferInv, OneReplyInFlight

\* When the request is written, nothing is under way.
LEMMA LineEmpty ==
    ASSUME Punctual, SafeInv, LineInv, NEW c \in Client, pc[c] = "drain", timer[c] = 0
    PROVE  wire = <<>> /\ rx = <<>>
  <1>1. rx = <<>>
    BY DEF LineInv, BufferInv
  <1>2. ASSUME wire # <<>> PROVE FALSE
    <2>1. 1 \in 1..Len(wire) /\ wire[1] \in Frame
      BY <1>2 DEF SafeInv, TypeOK
    <2>2. wire[1].age >= HeaderTimeout + DrainQuiet
      BY <2>1, TimeAssumption DEF LineInv, WireInv, Frame
    <2> QED BY <2>1, <2>2, TimeAssumption DEF Punctual, Frame
  <1> QED BY <1>1, <1>2

\* Steps that touch the line only to take everything off it.
LEMMA LineCleared ==
    ASSUME SafeInv, LineInv, wire' = <<>>, rx' = rx \/ rx' = <<>>,
           \A d \in Client : pc'[d] = "drain" => pc[d] = "drain" /\ timer'[d] = timer[d]
    PROVE  LineInv'
  BY DEF SafeInv, TypeOK, LineInv, WireInv, BufferInv, OneReplyInFlight

\* Steps of a task that is in none of the two phases WireInv speaks of.
LEMMA LineUntouched ==
    ASSUME SafeInv, LineInv, wire' = wire, rx' = rx \/ rx' = <<>>,
           conn' = "lost" => conn = "lost",
           NEW c \in Client, pc[c] \notin {"await", "drain"}, pc'[c] \notin {"await", "drain"},
           \A d \in Client \ {c} : pc'[d] = pc[d] /\ timer'[d] = timer[d]
    PROVE  LineInv'
  <1>1. OneReplyInFlight' /\ (conn' = "lost" => wire' = <<>>)
    BY DEF SafeInv, TypeOK, LineInv, WireInv, OneReplyInFlight
  <1>2. ASSUME NEW i \in 1..Len(wire')
        PROVE  /\ wire'[i].back <= Repeat
               /\ \A d \in Client :
                     /\ pc'[d] = "await" => wire'[i].age + timer'[d] >= HeaderTimeout
                     /\ pc'[d] = "drain" => wire'[i].age + timer'[d] >= HeaderTimeout + DrainQuiet
               /\ (\A d \in Client : pc'[d] \notin {"await", "drain"})
                     => wire'[i].age >= HeaderTimeout
    BY DEF LineInv, WireInv
  <1>3. BufferInv'
    BY DEF LineInv, BufferInv
  <1> QED BY <1>1, <1>2, <1>3 DEF LineInv, WireInv, Repeat

\* A complete or a cut frame is read: nothing is left of it, or of any other.
LEMMA LineRead ==
    ASSUME SafeInv, LineInv, rx # <<>>
    PROVE  wire = <<>> /\ Tail(rx) = <<>>
  BY DEF SafeInv, TypeOK, LineInv, WireInv, OneReplyInFlight

LEMMA LineMinGap ==
    ASSUME SafeInv, LineInv, NEW c \in Client, MinGapDone(c)
    PROVE  LineInv'
  <1>1. /\ pc' = [pc EXCEPT ![c] = "drain"] /\ timer' = [timer EXCEPT ![c] = DrainQuiet]
        /\ UNCHANGED <<wire, rx, conn>> /\ pc[c] = "mingap" /\ timer[c] = 0
    BY DEF MinGapDone, Goto, line
  <1>2. pc'[c] = "drain" /\ timer'[c] = DrainQuiet
    BY <1>1 DEF SafeInv, TypeOK
  <1>3. \A d \in Client \ {c} : pc[d] \notin Working /\ pc'[d] = pc[d] /\ timer'[d] = timer[d]
    BY <1>1, OneWorks DEF SafeInv, TypeOK, Exclusive, Working, Waiting
  <1>4. \A d \in Client : pc[d] \notin {"await", "drain"}
    BY <1>1, <1>3 DEF Working, Reading
  <1>5. ASSUME NEW i \in 1..Len(wire)
        PROVE  wire[i].age \in Nat /\ wire[i].age >= HeaderTimeout /\ wire[i].back <= Repeat
    <2>1. wire[i] \in Frame
      BY DEF SafeInv, TypeOK
    <2>2. wire[i].age >= HeaderTimeout /\ wire[i].back <= Repeat
      BY <1>4 DEF LineInv, WireInv
    <2> QED BY <2>1, <2>2, TimeAssumption DEF Frame
  <1>6. WireInv'
    <2>1. ASSUME NEW i \in 1..Len(wire'), NEW d \in Client
          PROVE  /\ wire'[i].back <= Repeat
                 /\ pc'[d] = "await" => wire'[i].age + timer'[d] >= HeaderTimeout
                 /\ pc'[d] = "drain" => wire'[i].age + timer'[d] >= HeaderTimeout + DrainQuiet
      BY <1>1, <1>2, <1>3, <1>5, TimeAssumption DEF Working, Reading
    <2> QED BY <1>1, <1>2, <2>1 DEF LineInv, WireInv, OneReplyInFlight, Repeat
  <1>7. BufferInv'
    BY <1>1, <1>2, <1>3, TimeAssumption DEF LineInv, BufferInv, Repeat, Working, Reading
  <1> QED BY <1>6, <1>7 DEF LineInv

LEMMA LineTransmit ==
    ASSUME Punctual, SafeInv, LineInv, NEW c \in Client, Transmit(c)
    PROVE  LineInv'
  <1>1. wire = <<>> /\ rx = <<>> /\ conn = "open" /\ conn' = conn /\ pc[c] = "drain"
    BY LineEmpty DEF Transmit
  <1>2. /\ pc'[c] = "await" /\ timer'[c] = HeaderTimeout
        /\ \A d \in Client \ {c} : pc'[d] = pc[d] /\ timer'[d] = timer[d]
    BY DEF Transmit, Goto, SafeInv, TypeOK
  <1>3. \A d \in Client \ {c} : pc[d] \notin Working
    BY <1>1, OneWorks DEF SafeInv, Exclusive, Working, Reading
  <1>4. Older(<<>>) = <<>>
    <2>1. <<>> \in Seq(Frame) /\ Len(<<>>) = 0
      BY EmptySeq
    <2>2. Older(<<>>) \in Seq(Frame) /\ Len(Older(<<>>)) = 0
      BY <2>1, OlderFrames
    <2> QED BY <2>2, EmptySeq
  <1>5. PICK answer \in Reaction(req[c]) : wire' = Older(wire) \o answer
    BY DEF Transmit
  <1>6. answer \in Seq(Frame) /\ (answer # <<>> => Len(answer) = 1 /\ answer[1].age = 0
                                                   /\ answer[1].back <= Repeat)
    BY ReactionFrames DEF SafeInv, TypeOK, Repeat
  <1>7. wire' = answer /\ rx' = <<>>
    <2>1. <<>> \o answer = answer
      BY <1>6, ConcatEmptySeq
    <2>2. Older(wire) = <<>> /\ rx' = Older(rx) /\ Older(rx) = <<>>
      BY <1>1, <1>4 DEF Transmit
    <2> QED BY <1>5, <2>1, <2>2
  <1>8. Len(wire') <= 1 /\ Len(wire') \in Nat
    <2>1. CASE answer = <<>>
      BY <1>7, <2>1
    <2>2. CASE answer # <<>>
      <3>1. Len(wire') = 1
        BY <1>6, <1>7, <2>2, Zenon
      <3> QED BY <3>1
    <2> QED BY <2>1, <2>2
  <1>9. ASSUME NEW i \in 1..Len(wire')
        PROVE  i = 1 /\ wire'[i].age = 0 /\ wire'[i].back <= Repeat
    <2>1. Len(wire') = 1
      BY <1>8, <1>9
    <2>2. answer # <<>>
      BY <1>7, <2>1
    <2> QED BY <1>6, <1>7, <2>1, <2>2
  <1>10. WireInv'
    BY <1>1, <1>2, <1>3, <1>7, <1>8, <1>9, TimeAssumption
       DEF WireInv, OneReplyInFlight, Repeat, Working, Reading
  <1>11. BufferInv'
    BY <1>2, <1>3, <1>7 DEF BufferInv, Working, Reading
  <1> QED BY <1>10, <1>11 DEF LineInv

\* An attempt fails for lack of an answer.
LEMMA LineTimedOut ==
    ASSUME SafeInv, LineInv, NEW c \in Client, TimedOut(c)
    PROVE  LineInv'
  <1>1. /\ UNCHANGED <<wire, rx>> /\ pc[c] \in {"await", "stall"} /\ timer[c] = 0
        /\ conn' = "lost" => conn = "lost"
    BY DEF TimedOut, RetryOrRaise
  <1>2. /\ pc'[c] \in {"backoff", "idle"}
        /\ \A d \in Client \ {c} : pc'[d] = pc[d] /\ timer'[d] = timer[d]
    BY DEF TimedOut, RetryOrRaise, Release, Leave, Goto, SafeInv, TypeOK
  <1>3. \A d \in Client \ {c} : pc[d] \notin Working
    BY <1>1, OneWorks DEF SafeInv, Exclusive, Working, Reading
  <1>4. \A d \in Client : pc'[d] \notin {"await", "drain"}
    BY <1>2, <1>3 DEF Working, Reading
  <1>5. ASSUME NEW i \in 1..Len(wire)
        PROVE  wire[i].age >= HeaderTimeout /\ wire[i].back <= Repeat
    <2>1. wire[i] \in Frame
      BY DEF SafeInv, TypeOK
    <2>2. CASE pc[c] = "await"
      <3>1. wire[i].age + timer[c] >= HeaderTimeout /\ wire[i].back <= Repeat
        BY <2>2 DEF LineInv, WireInv
      <3> QED BY <1>1, <2>1, <3>1, TimeAssumption DEF Frame
    <2>3. CASE pc[c] = "stall"
      <3>1. \A d \in Client : pc[d] \notin {"await", "drain"}
        BY <1>3, <2>3 DEF Working, Reading
      <3> QED BY <3>1 DEF LineInv, WireInv
    <2> QED BY <1>1, <2>2, <2>3
  <1>6. WireInv'
    BY <1>1, <1>4, <1>5 DEF LineInv, WireInv, OneReplyInFlight, Repeat
  <1>7. BufferInv'
    BY <1>1, <1>4 DEF LineInv, BufferInv, Repeat
  <1> QED BY <1>6, <1>7 DEF LineInv

LEMMA LineDeliver ==
    ASSUME Punctual, SafeInv, LineInv, Deliver
    PROVE  LineInv'
  <1>1. /\ Len(wire) = 1 /\ rx = <<>> /\ wire[1] \in Frame /\ Head(wire) = wire[1]
        /\ wire' = <<>>
    <2>1. wire \in Seq(Frame) /\ rx \in Seq(Frame) /\ wire # <<>> /\ wire' = Tail(wire)
      BY DEF Deliver, SafeInv, TypeOK
    <2>2. Len(wire) + Len(rx) <= 1
      BY DEF LineInv, WireInv, OneReplyInFlight
    <2>3. Len(wire) = 1 /\ rx = <<>>
      <3>1. Len(wire) \in Nat \ {0} /\ Len(rx) \in Nat
        BY <2>1, EmptySeq, LenProperties
      <3>2. \A a \in Nat \ {0}, b \in Nat : a + b <= 1 => a = 1 /\ b = 0
        OBVIOUS
      <3>3. Len(wire) = 1 /\ Len(rx) = 0
        BY <2>2, <3>1, <3>2, Zenon
      <3> QED BY <2>1, <3>3, EmptySeq
    <2>4. wire' \in Seq(Frame) /\ Len(wire') = 0
      <3>1. Len(Tail(wire)) = Len(wire) - 1 /\ Tail(wire) \in Seq(Frame)
        BY <2>1, HeadTailProperties
      <3> QED BY <2>1, <2>3, <3>1
    <2>5. wire' = <<>>
      BY <2>4, EmptySeq
    <2>6. wire[1] \in Frame /\ Head(wire) = wire[1]
      BY <2>1, <2>3
    <2> QED BY <2>3, <2>5, <2>6
  <1>2. wire[1].back <= Repeat
    BY <1>1 DEF LineInv, WireInv
  <1>3. rx' = <<>> \/ (Len(rx') = 1 /\ rx'[1] = wire[1])
    BY <1>1 DEF Deliver, SafeInv, TypeOK
  <1>4. UNCHANGED <<pc, timer, conn>>
    BY DEF Deliver, tasks
  <1>5. WireInv'
    BY <1>1, <1>3, <1>4 DEF WireInv, OneReplyInFlight
  <1>6. ASSUME NEW c \in Client, pc[c] = "drain" PROVE timer[c] > 0
    <2>1. wire[1].age + timer[c] >= HeaderTimeout + DrainQuiet
      BY <1>1, <1>6 DEF LineInv, WireInv
    <2>2. wire[1].age \in 0..Latency /\ timer[c] \in Nat
      BY <1>1 DEF Frame, SafeInv, TypeOK
    <2> QED BY <2>1, <2>2, TimeAssumption DEF Punctual
  <1>7. \A i \in 1..Len(rx') : rx'[i].back <= Repeat
    BY <1>2, <1>3
  <1>8. BufferInv'
    BY <1>4, <1>6, <1>7 DEF LineInv, BufferInv, Repeat
  <1> QED BY <1>5, <1>8 DEF LineInv

LEMMA LineTick ==
    ASSUME Punctual, SafeInv, LineInv, Tick
    PROVE  LineInv'
  <1>1. /\ \A c \in Client : timer'[c] = Countdown(timer[c]) /\ timer[c] \in Nat
        /\ UNCHANGED <<pc, conn, rx>> /\ wire' = Grown(wire)
        /\ rx # <<>> => \A c \in Client : pc[c] \notin Reading
    BY DEF Tick, SafeInv, TypeOK, Punctual
  <1>2. /\ Len(wire') = Len(wire) /\ Len(wire) \in Nat
        /\ \A i \in 1..Len(wire) : /\ wire[i] \in Frame
                                   /\ wire'[i].age = wire[i].age + 1
                                   /\ wire'[i].back = wire[i].back
    <2>1. wire \in Seq(Frame) /\ \A i \in 1..Len(wire) : wire[i].age < Latency
      BY DEF Tick, SafeInv, TypeOK
    <2>2. /\ Len(Grown(wire)) = Len(wire)
          /\ \A i \in 1..Len(wire) : /\ Grown(wire)[i].age = wire[i].age + 1
                                     /\ Grown(wire)[i].back = wire[i].back
      BY <2>1, GrownFrames
    <2> QED BY <1>1, <2>1, <2>2
  <1>3. ASSUME NEW i \in 1..Len(wire), NEW c \in Client
        PROVE  /\ pc[c] = "await" => wire'[i].age + timer'[c] >= HeaderTimeout
               /\ pc[c] = "drain" => wire'[i].age + timer'[c] >= HeaderTimeout + DrainQuiet
    <2>1. wire[i].age \in Nat
      BY <1>2, TimeAssumption DEF Frame
    <2>2. timer[c] \in Nat /\ timer'[c] = Countdown(timer[c])
      BY <1>1
    <2>3. /\ pc[c] = "await" => wire[i].age + timer[c] >= HeaderTimeout
          /\ pc[c] = "drain" => wire[i].age + timer[c] >= HeaderTimeout + DrainQuiet
      BY DEF LineInv, WireInv
    <2> QED BY <1>2, <2>1, <2>2, <2>3, TimeAssumption DEF Countdown
  <1>4. ASSUME NEW i \in 1..Len(wire), \A c \in Client : pc[c] \notin {"await", "drain"}
        PROVE  wire'[i].age >= HeaderTimeout
    <2>1. wire[i].age \in Nat /\ wire[i].age >= HeaderTimeout
      BY <1>2, <1>4, TimeAssumption DEF Frame, LineInv, WireInv
    <2> QED BY <1>2, <2>1, TimeAssumption
  <1>5. \A i \in 1..Len(wire) : wire'[i].back <= Repeat
    BY <1>2 DEF LineInv, WireInv
  <1>6. wire = <<>> => wire' = <<>>
    <2>1. wire' \in Seq(Frame)
      BY TypeStep DEF SafeInv, Next, TypeOK
    <2> QED BY <1>2, <2>1
  <1>7. WireInv'
    BY <1>1, <1>2, <1>3, <1>4, <1>5, <1>6 DEF LineInv, WireInv, OneReplyInFlight, Repeat
  <1>8. ASSUME NEW c \in Client, pc[c] = "drain"
        PROVE  timer'[c] <= DrainQuiet /\ rx' = <<>>
    BY <1>1, <1>8, TimeAssumption DEF LineInv, BufferInv, Countdown, Reading
  <1>9. BufferInv'
    BY <1>1, <1>8 DEF LineInv, BufferInv, Repeat
  <1> QED BY <1>7, <1>9 DEF LineInv

LEMMA LineStep ==
    ASSUME Punctual, SafeInv, LineInv, [Next]_vars
    PROVE  LineInv'
  <1>1. ASSUME NEW c \in Client, NEW k \in Kind, Request(c, k) PROVE LineInv'
    <2>1. /\ pc[c] = "idle" /\ pc'[c] = "lock" /\ UNCHANGED <<wire, rx, conn>>
          /\ \A d \in Client \ {c} : pc'[d] = pc[d] /\ timer'[d] = timer[d]
      BY <1>1 DEF Request, line, SafeInv, TypeOK
    <2> QED BY <2>1, LineUntouched
  <1>2. ASSUME NEW c \in Client, Connect(c) PROVE LineInv'
    <2>1. /\ pc[c] = "lock" /\ wire' = wire /\ (rx' = rx \/ rx' = <<>>)
          /\ conn' = "lost" => conn = "lost"
          /\ (BeginAttempts(c) \/ \E r \in Outcome : Release(c, r))
      BY <1>2, FailedOutcome DEF Connect, Reuse, Open, OpenRefused, Reclose, line
    <2>2. pc'[c] \in {"gap", "idle"}
      BY <2>1 DEF BeginAttempts, Release, Leave, Goto, SafeInv, TypeOK
    <2>3. \A d \in Client \ {c} : pc'[d] = pc[d] /\ timer'[d] = timer[d]
      BY <1>2, Locality DEF SafeInv, Calls, Fetch
    <2> QED BY <2>1, <2>2, <2>3, LineUntouched
  <1>3. ASSUME NEW c \in Client, GapDone(c) \/ BackoffDone(c) PROVE LineInv'
    <2>1. /\ pc[c] \in {"gap", "backoff"} /\ pc'[c] \in {"mingap", "gap"}
          /\ UNCHANGED <<wire, rx, conn>>
          /\ \A d \in Client \ {c} : pc'[d] = pc[d] /\ timer'[d] = timer[d]
      BY <1>3 DEF GapDone, BackoffDone, Goto, line, SafeInv, TypeOK
    <2> QED BY <2>1, LineUntouched
  <1>4. ASSUME NEW c \in Client, DrainMore(c) PROVE LineInv'
    <2>1. /\ rx # <<>> /\ rx' = <<>> /\ wire' = wire /\ conn' = conn
          /\ pc'[c] = "drain" /\ pc[c] = "drain" /\ timer'[c] = DrainQuiet
          /\ \A d \in Client \ {c} : pc'[d] = pc[d]
      BY <1>4 DEF DrainMore, Goto, SafeInv, TypeOK
    <2>2. wire' = <<>>
      BY <2>1, LineRead
    <2>3. \A d \in Client \ {c} : pc[d] # "drain"
      BY <2>1, OneWorks DEF SafeInv, Exclusive, Working, Reading
    <2> QED BY <2>1, <2>2, <2>3, TimeAssumption
            DEF LineInv, WireInv, BufferInv, OneReplyInFlight
  <1>5. ASSUME NEW c \in Client, Accept(c) \/ Reject(c) \/ Stall(c) PROVE LineInv'
    <2>1. rx # <<>> /\ rx' = Tail(rx) /\ wire' = wire
      BY <1>5 DEF Accept, Reject, Stall
    <2>2. pc'[c] # "drain"
      BY <1>5 DEF Accept, Reject, Stall, RetryOrRaise, Release, Leave, Goto, SafeInv, TypeOK
    <2>3. \A d \in Client : pc'[d] = "drain" => pc[d] = "drain" /\ timer'[d] = timer[d]
      BY <1>5, <2>2, Locality DEF SafeInv, Calls, Fetch, Exchange
    <2> QED BY <2>1, <2>3, LineRead, LineCleared
  <1>6. ASSUME NEW c \in Client, ReadFails(c) PROVE LineInv'
    <2>1. UNCHANGED <<wire, rx>> /\ conn = "lost" /\ pc'[c] # "drain"
      BY <1>6 DEF ReadFails, line, Release, Leave, Goto, SafeInv, TypeOK
    <2>2. wire' = <<>>
      BY <2>1 DEF LineInv, WireInv
    <2>3. \A d \in Client : pc'[d] = "drain" => pc[d] = "drain" /\ timer'[d] = timer[d]
      BY <1>6, <2>1, Locality DEF SafeInv, Calls, Fetch, Exchange
    <2> QED BY <2>1, <2>2, <2>3, LineCleared
  <1>7. ASSUME NEW c \in Client, Cancel(c) PROVE LineInv'
    BY <1>7 DEF Cancel, Punctual
  <1>8. CASE Unplug
    <2>1. wire' = <<>> /\ rx' = <<>> /\ UNCHANGED <<pc, timer>>
      BY <1>8 DEF Unplug, tasks
    <2> QED BY <2>1, LineCleared
  <1>9. CASE Replug \/ UNCHANGED vars
    BY <1>9 DEF Replug, vars, tasks, line, LineInv, WireInv, BufferInv, OneReplyInFlight, Repeat
  <1> QED BY <1>1, <1>2, <1>3, <1>4, <1>5, <1>6, <1>7, <1>8, <1>9,
             LineMinGap, LineTransmit, LineTimedOut, LineDeliver, LineTick
          DEF Next, Calls, Fetch, Exchange

-----------------------------------------------------------------------------

FreshInv == SafeInv /\ LineInv /\ FreshReply

LEMMA FreshStep ==
    ASSUME Punctual, SafeInv, LineInv, FreshReply, [Next]_vars
    PROVE  FreshReply'
  <1> SUFFICES ASSUME NEW d \in Client, result'[d].tag = "ok"
               PROVE  result'[d].back <= Repeat
    BY DEF FreshReply, Repeat
  <1>1. ASSUME NEW c \in Client, Calls(c), d # c PROVE result'[d].back <= Repeat
    BY <1>1, Locality DEF FreshReply, Repeat, SafeInv
  <1>2. CASE Accept(d)
    <2>1. rx # <<>> /\ result'[d] = Ok(Head(rx)) /\ Head(rx) = rx[1] /\ 1 \in 1..Len(rx)
      BY <1>2 DEF Accept, Release, Leave, SafeInv, TypeOK
    <2> QED BY <2>1 DEF Ok, LineInv, BufferInv
  <1>3. ASSUME Calls(d), ~Accept(d) PROVE result'[d].back <= Repeat
    <2>1. ASSUME NEW k \in Kind, Request(d, k) PROVE FALSE
      BY <2>1 DEF Request, Pending, SafeInv, TypeOK
    <2>2. CASE Connect(d) \/ ReadFails(d) \/ Cancel(d)
      <3>1. \/ UNCHANGED result
            \/ \E tag \in {"IOBoardError", "OtherError", "cancelled"} :
                  result' = [result EXCEPT ![d] = Failed(tag)]
        BY <2>2 DEF Connect, Reuse, Open, OpenRefused, Reclose, BeginAttempts, ReadFails,
                    Cancel, Release, Leave
      <3> QED BY <3>1 DEF Failed, FreshReply, Repeat, SafeInv, TypeOK
    <2>3. CASE Reject(d) \/ TimedOut(d)
      <3>1. \/ UNCHANGED result
            \/ \E tag \in {"IOBoardError", "OtherError"} :
                  result' = [result EXCEPT ![d] = Failed(tag)]
        BY <2>3 DEF Reject, TimedOut, RetryOrRaise, Release, Leave
      <3> QED BY <3>1 DEF Failed, FreshReply, Repeat, SafeInv, TypeOK
    <2>4. CASE GapDone(d) \/ MinGapDone(d) \/ DrainMore(d) \/ Transmit(d) \/ Stall(d) \/ BackoffDone(d)
      <3>1. UNCHANGED result
        BY <2>4 DEF GapDone, MinGapDone, DrainMore, Transmit, Stall, BackoffDone
      <3> QED BY <3>1 DEF FreshReply, Repeat
    <2> QED BY <1>3, <2>1, <2>2, <2>3, <2>4 DEF Calls, Fetch, Exchange
  <1>4. CASE Deliver \/ Unplug \/ Replug \/ Tick \/ UNCHANGED vars
    BY <1>4 DEF Deliver, Unplug, Replug, Tick, vars, tasks, FreshReply, Repeat
  <1> QED BY <1>1, <1>2, <1>3, <1>4 DEF Next

LEMMA FreshInvariance == ASSUME Punctual PROVE Safety => []FreshInv
  <1>1. Init => FreshInv
    BY SafeInit, LineInit DEF Init, FreshInv, FreshReply, Pending
  <1>2. FreshInv /\ [Next]_vars => FreshInv'
    BY SafeStep, LineStep, FreshStep DEF FreshInv
  <1> QED BY <1>1, <1>2, PTL DEF Safety

\* A punctual board has at most one reply under way, so no reply can be taken
\* for that of another request.
THEOREM OneReply == ASSUME Punctual PROVE Safety => []OneReplyInFlight
  <1>1. FreshInv => OneReplyInFlight
    BY DEF FreshInv, LineInv, WireInv
  <1> QED BY <1>1, FreshInvariance, PTL

\* What fetch() returns answers the request that its last attempt sent (or, if
\* the board repeats itself, the one before): the drain is long enough, and
\* draining in every attempt is often enough.
THEOREM Freshness == ASSUME Punctual PROVE Safety => []FreshReply
  <1>1. FreshInv => FreshReply
    BY DEF FreshInv
  <1> QED BY <1>1, FreshInvariance, PTL

-----------------------------------------------------------------------------
(* Failures.                                                               *)

\* Nothing is returned before the end.
NotYet == \A c \in Client : pc[c] # "idle" => result[c].tag = "none"

\* How a step of an exchange ends, if it does.
LEMMA ExchangeEnds ==
    ASSUME TypeOK, NEW c \in Client, Exchange(c)
    PROVE  /\ pc[c] \in Working
           /\ \/ UNCHANGED result /\ pc'[c] \in Working
              \/ \E r \in Outcome :
                    /\ Release(c, r)
                    /\ r.tag \in {"IOBoardError", "OtherError"} => conn' # "open"
                    /\ \/ r.tag \in {"IOBoardError", "OtherError"} /\ r.code = NoKind
                       \/ r.tag = "ok" /\ r.code = req[c]
  <1>1. CASE Accept(c)
    <2>1. Head(rx) \in Frame /\ pc[c] \in Working
      BY <1>1 DEF Accept, TypeOK, Working, Reading
    <2>2. Ok(Head(rx)) \in Outcome /\ Ok(Head(rx)).tag = "ok" /\ Ok(Head(rx)).code = req[c]
      BY <1>1, <2>1 DEF Accept, Answers, Ok, Outcome, Frame
    <2> QED BY <1>1, <2>1, <2>2 DEF Accept
  <1>2. CASE ReadFails(c)
    <2>1. Failed("OtherError") \in Outcome /\ Failed("OtherError").tag = "OtherError"
          /\ Failed("OtherError").code = NoKind
      BY FailedOutcome DEF Failed
    <2> QED BY <1>2, <2>1 DEF ReadFails, Working, line
  <1>3. CASE Reject(c) \/ TimedOut(c)
    <2>1. pc[c] \in Working /\ RetryOrRaise(c)
      BY <1>3 DEF Reject, TimedOut, Working, Reading
    <2>2. CASE attempt[c] < MaxRetries
      BY <2>1, <2>2 DEF RetryOrRaise, Goto, TypeOK, Working, Waiting
    <2>3. CASE ~(attempt[c] < MaxRetries)
      <3>1. \E tag \in {"IOBoardError", "OtherError"} : Release(c, Failed(tag)) /\ conn' # "open"
        BY <2>1, <2>3 DEF RetryOrRaise
      <3>2. \A tag \in {"IOBoardError", "OtherError"} :
               Failed(tag) \in Outcome /\ Failed(tag).tag = tag /\ Failed(tag).code = NoKind
        BY FailedOutcome DEF Failed
      <3> QED BY <2>1, <3>1, <3>2
    <2> QED BY <2>2, <2>3
  <1>4. CASE GapDone(c) \/ MinGapDone(c) \/ DrainMore(c)
    BY <1>4 DEF GapDone, MinGapDone, DrainMore, Goto, TypeOK, Working, Waiting, Reading
  <1>5. CASE Transmit(c) \/ Stall(c) \/ BackoffDone(c)
    BY <1>5 DEF Transmit, Stall, BackoffDone, Goto, TypeOK, Working, Waiting, Reading
  <1> QED BY <1>1, <1>2, <1>3, <1>4, <1>5 DEF Exchange

LEMMA NotYetStep == TypeOK /\ NotYet /\ [Next]_vars => NotYet'
  <1> SUFFICES ASSUME TypeOK, NotYet, [Next]_vars, NEW d \in Client, pc'[d] # "idle"
               PROVE  result'[d].tag = "none"
    BY DEF NotYet
  <1>1. ASSUME NEW c \in Client, Calls(c), d # c PROVE result'[d].tag = "none"
    BY <1>1, Locality DEF NotYet
  <1>2. ASSUME NEW k \in Kind, Request(d, k) PROVE result'[d].tag = "none"
    BY <1>2 DEF Request, Pending, TypeOK
  <1>3. CASE Connect(d)
    BY <1>3 DEF Connect, Reuse, Open, OpenRefused, Reclose, BeginAttempts, Release, Leave,
                Goto, TypeOK, NotYet
  <1>4. CASE Exchange(d)
    <2>1. CASE UNCHANGED result
      BY <1>4, <2>1, ExchangeEnds DEF NotYet, Working, Waiting, Reading
    <2>2. CASE \E r \in Outcome : Release(d, r)
      BY <2>2 DEF Release, Leave, Goto, TypeOK
    <2> QED BY <1>4, <2>1, <2>2, ExchangeEnds
  <1>5. CASE Cancel(d)
    BY <1>5 DEF Cancel, Leave, Goto, TypeOK
  <1>6. CASE Deliver \/ Unplug \/ Replug \/ Tick \/ UNCHANGED vars
    BY <1>6 DEF Deliver, Unplug, Replug, Tick, vars, tasks, NotYet
  <1> QED BY <1>1, <1>2, <1>3, <1>4, <1>5, <1>6 DEF Next, Calls, Fetch

LEMMA ResetStep ==
    ASSUME TypeOK, NotYet, [Next]_vars, NEW d \in Client, pc[d] \in Working,
           result'[d].tag \in {"IOBoardError", "OtherError"}
    PROVE  conn' # "open"
  <1>1. result[d].tag = "none" /\ pc[d] \notin {"idle", "lock"}
    BY DEF NotYet, Working, Waiting, Reading
  <1>2. result' # result
    BY <1>1
  <1>3. CASE Exchange(d)
    <2>1. PICK r \in Outcome : Release(d, r) /\ (r.tag \in {"IOBoardError", "OtherError"} => conn' # "open")
      BY <1>2, <1>3, ExchangeEnds
    <2>2. result'[d] = r
      BY <2>1 DEF Release, Leave, TypeOK
    <2> QED BY <2>1, <2>2
  <1>4. ASSUME NEW c \in Client, Calls(c), c # d PROVE FALSE
    BY <1>1, <1>4, Locality
  <1>5. CASE Cancel(d)
    BY <1>5 DEF Cancel, Leave, Failed, TypeOK
  <1>6. ASSUME (\E k \in Kind : Request(d, k)) \/ Connect(d) PROVE FALSE
    BY <1>1, <1>6 DEF Request, Connect, Reuse, Open, OpenRefused, Reclose
  <1>7. CASE Deliver \/ Unplug \/ Replug \/ Tick \/ UNCHANGED vars
    BY <1>2, <1>7 DEF Deliver, Unplug, Replug, Tick, vars, tasks
  <1> QED BY <1>3, <1>4, <1>5, <1>6, <1>7 DEF Next, Calls, Fetch

\* An exchange that raises has closed its connection, or lost it.
THEOREM Resets == Safety => FailureResets
  <1>1. Init => NotYet
    BY DEF Init, NotYet
  <1>2. TypeOK /\ NotYet /\ [Next]_vars => NotYet'
    BY NotYetStep
  <1>3. TypeOK /\ NotYet /\ [Next]_vars =>
           [\A c \in Client : pc[c] \in Working /\ result'[c].tag \in {"IOBoardError", "OtherError"}
                => conn' # "open"]_vars
    BY ResetStep
  <1> QED BY <1>1, <1>2, <1>3, Types, PTL DEF Safety, FailureResets

-----------------------------------------------------------------------------
(* fetch() implements the service, steps only: fairness stays with TLC.    *)

Seen(r) == [tag |-> r.tag, code |-> r.code]

LEMMA SeenUpdate ==
    ASSUME TypeOK, NEW c \in Client, NEW r, result' = [result EXCEPT ![c] = r]
    PROVE  [d \in Client |-> [tag |-> result'[d].tag, code |-> result'[d].code]]
           = [[d \in Client |-> [tag |-> result[d].tag, code |-> result[d].code]]
                 EXCEPT ![c] = Seen(r)]
  BY DEF TypeOK, Seen

LEMMA ReleaseServes ==
    ASSUME TypeOK, NEW c \in Client, NEW r \in Outcome, Owns(c), Release(c, r),
           \/ r.tag \in {"IOBoardError", "OtherError"} /\ r.code = NoKind
           \/ r.tag = "ok" /\ r.code = req[c]
    PROVE  Service!Serve(c)
  <1>1. Seen(r) \in Service!Replies(req[c]) \cup Service!Failures
    BY DEF Seen, Service!Replies, Service!Failures
  <1>2. result' = [result EXCEPT ![c] = r] /\ UNCHANGED req /\ mutex' = Tail(mutex)
    BY DEF Release, Leave
  <1> QED BY <1>1, <1>2, SeenUpdate DEF Service!Serve, Owns

LEMMA ServiceStep == TypeOK /\ Exclusive /\ [Next]_vars => [Service!SNext]_(Service!sVars)
  <1> SUFFICES ASSUME TypeOK, Exclusive, [Next]_vars
               PROVE  Service!SNext \/ UNCHANGED <<mutex, req, result>>
    BY DEF Service!sVars
  <1>1. ASSUME NEW c \in Client, NEW k \in Kind, Request(c, k) PROVE Service!Submit(c, k)
    <2>1. \A i \in 1..Len(mutex) : mutex[i] # c
      BY <1>1 DEF Request, Exclusive
    <2>2. Seen(Pending) = Service!Pending
      BY DEF Seen, Pending, Service!Pending
    <2> QED BY <1>1, <2>1, <2>2, SeenUpdate DEF Request, Service!Submit
  <1>2. ASSUME NEW c \in Client, Fetch(c)
        PROVE  Service!Serve(c) \/ UNCHANGED <<mutex, req, result>>
    <2>1. CASE Connect(c)
      <3>1. /\ Owns(c)
            /\ BeginAttempts(c) \/ \E tag \in {"IOBoardError", "OtherError"} : Release(c, Failed(tag))
        BY <2>1 DEF Connect, Reuse, Open, OpenRefused, Reclose
      <3>2. CASE BeginAttempts(c)
        BY <3>2 DEF BeginAttempts
      <3>3. ASSUME NEW tag \in {"IOBoardError", "OtherError"}, Release(c, Failed(tag))
            PROVE  Service!Serve(c)
        <4>1. Failed(tag) \in Outcome /\ Failed(tag).tag = tag /\ Failed(tag).code = NoKind
          BY FailedOutcome DEF Failed
        <4> QED BY <3>1, <3>3, <4>1, ReleaseServes
      <3> QED BY <3>1, <3>2, <3>3
    <2>2. CASE Exchange(c)
      <3>1. Owns(c)
        BY <2>2, ExchangeEnds DEF Exclusive
      <3>2. CASE \E r \in Outcome :
                    /\ Release(c, r)
                    /\ \/ r.tag \in {"IOBoardError", "OtherError"} /\ r.code = NoKind
                       \/ r.tag = "ok" /\ r.code = req[c]
        BY <3>1, <3>2, ReleaseServes
      <3>3. CASE UNCHANGED result /\ pc'[c] \in Working
        <4>1. UNCHANGED <<mutex, req>>
          <5>1. pc'[c] # "idle"
            BY <3>3 DEF Working, Waiting, Reading
          <5>2. ~Accept(c) /\ ~ReadFails(c)
            BY <5>1 DEF Accept, ReadFails, Release, Leave, Goto, TypeOK
          <5>3. CASE Reject(c) \/ TimedOut(c)
            BY <5>1, <5>3 DEF Reject, TimedOut, RetryOrRaise, Release, Leave, Goto, TypeOK
          <5>4. CASE ~(Reject(c) \/ TimedOut(c))
            BY <2>2, <5>2, <5>4 DEF Exchange, GapDone, MinGapDone, DrainMore, Transmit, Stall,
                                    BackoffDone
          <5> QED BY <5>3, <5>4
        <4> QED BY <3>3, <4>1
      <3> QED BY <2>2, <3>2, <3>3, ExchangeEnds
    <2> QED BY <1>2, <2>1, <2>2 DEF Fetch
  <1>3. ASSUME NEW c \in Client, Cancel(c) PROVE Service!Withdraw(c)
    <2>1. Seen(Failed("cancelled")) = Service!Withdrawn
      BY DEF Seen, Failed, Service!Withdrawn
    <2>2. \E i \in 1..Len(mutex) : mutex[i] = c /\ mutex' = Service!Remaining(mutex, i)
      BY <1>3 DEF Cancel, Without, Service!Remaining
    <2> QED BY <1>3, <2>1, <2>2, SeenUpdate DEF Cancel, Leave, Service!Withdraw
  <1>4. CASE Deliver \/ Unplug \/ Replug \/ Tick \/ UNCHANGED vars
    BY <1>4 DEF Deliver, Unplug, Replug, Tick, vars, tasks
  <1> QED BY <1>1, <1>2, <1>3, <1>4 DEF Next, Calls, Service!SNext

\* Timeouts, retries, resets, a dead port and cancellation included, a caller
\* of fetch() sees only the service of SerialService.
THEOREM Refinement == Safety => ServesInOrder
  <1>1. Init => Service!SInit
    <2>1. ASSUME Init
          PROVE  [c \in Client |-> [tag |-> result[c].tag, code |-> result[c].code]]
                 = [c \in Client |-> Service!Pending]
      BY <2>1 DEF Init, Pending, Service!Pending
    <2> QED BY <2>1 DEF Init, Service!SInit
  <1> QED BY <1>1, ServiceStep, Types, Exclusion, PTL DEF Safety, ServesInOrder, Service!SSafety

-----------------------------------------------------------------------------
(* The silence of the line.                                                *)

\* While a drain waits on an open line, the time since the last byte and what
\* is left of the drain make up the quiet time, or there are bytes to read.
Silence ==
    /\ byteAge \in 0..AgeCap
    /\ \A c \in Client : pc[c] = "drain" /\ conn = "open"
           => rx # <<>> \/ byteAge + timer[c] >= DrainQuiet

LEMMA SilenceCalls ==
    ASSUME Punctual, SafeInv, Silence, NEW c \in Client, Calls(c), UNCHANGED byteAge
    PROVE  Silence'
  <1> SUFFICES ASSUME NEW d \in Client, pc'[d] = "drain", conn' = "open"
               PROVE  rx' # <<>> \/ byteAge + timer'[d] >= DrainQuiet
    BY DEF Silence
  <1>1. CASE d # c
    <2>1. pc[d] = "drain" /\ timer'[d] = timer[d]
      BY <1>1, Locality DEF SafeInv
    <2>2. Owns(d) /\ ~Owns(c) /\ pc[c] \notin Working
      BY <1>1, <2>1 DEF SafeInv, Exclusive, Owns, Working, Reading
    <2>3. ~Connect(c) /\ ~Exchange(c)
      BY <2>2, ExchangeEnds DEF SafeInv, Connect, Reuse, Open, OpenRefused, Reclose
    <2>4. ~Cancel(c)
      BY DEF Cancel, Punctual
    <2>5. UNCHANGED <<rx, conn>>
      BY <2>3, <2>4 DEF Calls, Fetch, Request, line
    <2> QED BY <2>1, <2>5 DEF Silence
  <1>2. CASE d = c
    <2>1. MinGapDone(c) \/ DrainMore(c)
      <3>1. ~Connect(c)
        BY <1>2 DEF SafeInv, TypeOK, Connect, Reuse, Open, OpenRefused, Reclose,
                    BeginAttempts, Release, Leave, Goto
      <3>2. ~Cancel(c) /\ \A k \in Kind : ~Request(c, k)
        BY <1>2 DEF SafeInv, TypeOK, Cancel, Request, Punctual
      <3>3. ~GapDone(c) /\ ~Transmit(c) /\ ~Accept(c) /\ ~Stall(c) /\ ~BackoffDone(c) /\ ~ReadFails(c)
        BY <1>2 DEF SafeInv, TypeOK, GapDone, Transmit, Accept, Stall, BackoffDone, ReadFails,
                    Release, Leave, Goto
      <3>4. ~Reject(c) /\ ~TimedOut(c)
        BY <1>2 DEF SafeInv, TypeOK, Reject, TimedOut, RetryOrRaise, Release, Leave, Goto
      <3> QED BY <3>1, <3>2, <3>3, <3>4 DEF Calls, Fetch, Exchange
    <2>2. timer'[c] = DrainQuiet
      BY <2>1 DEF MinGapDone, DrainMore, Goto, SafeInv, TypeOK
    <2> QED BY <1>2, <2>2, TimeAssumption DEF Silence
  <1> QED BY <1>1, <1>2

LEMMA SilenceStep ==
    ASSUME Punctual, SafeInv, Silence, [QuietNext]_quietVars
    PROVE  Silence'
  <1>1. ASSUME NEW c \in Client, Calls(c), UNCHANGED byteAge PROVE Silence'
    BY <1>1, SilenceCalls
  <1>2. ASSUME Deliver \/ Unplug \/ Replug, Observe PROVE Silence'
    <2>1. byteAge' \in 0..AgeCap
      BY <1>2, TimeAssumption DEF Observe, Silence
    <2>2. UNCHANGED <<pc, timer>>
      BY <1>2 DEF Deliver, Unplug, Replug, tasks
    <2>3. conn' = "open" => rx' # <<>> \/ UNCHANGED <<rx, byteAge, conn>>
      <3>1. CASE Deliver
        <4>1. Head(wire) \in Frame
          BY <3>1 DEF Deliver, SafeInv, TypeOK
        <4>2. Append(rx, Head(wire)) # <<>>
          <5>1. rx \in Seq(Frame)
            BY DEF SafeInv, TypeOK
          <5>2. Len(Append(rx, Head(wire))) = Len(rx) + 1 /\ Len(rx) \in Nat
            BY <4>1, <5>1, AppendProperties, LenProperties
          <5>3. Len(<<>>) = 0
            BY EmptySeq
          <5> QED BY <5>2, <5>3
        <4>3. conn' = "open" => rx' = Append(rx, Head(wire))
          BY <3>1 DEF Deliver
        <4> QED BY <4>2, <4>3, Zenon
      <3>2. CASE Unplug
        BY <3>2 DEF Unplug, SafeInv, TypeOK
      <3>3. CASE Replug
        <4>1. rx' = rx /\ conn' = conn /\ Len(rx) \in Nat
          BY <3>3 DEF Replug, SafeInv, TypeOK
        <4> QED BY <1>2, <4>1 DEF Observe
      <3> QED BY <1>2, <3>1, <3>2, <3>3
    <2> QED BY <2>1, <2>2, <2>3 DEF Silence
  <1>3. ASSUME Tick, byteAge' = Aged(byteAge) PROVE Silence'
    <2>1. byteAge' \in 0..AgeCap
      BY <1>3, TimeAssumption DEF Aged, Silence
    <2>2. ASSUME NEW c \in Client, pc'[c] = "drain", conn' = "open"
          PROVE  byteAge' + timer'[c] >= DrainQuiet
      <3>1. pc[c] = "drain" /\ conn = "open" /\ timer[c] \in Nat /\ timer'[c] = Countdown(timer[c])
        BY <1>3, <2>2 DEF Tick, SafeInv, TypeOK
      <3>2. rx = <<>>
        BY <1>3, <3>1 DEF Tick, Punctual, Reading
      <3>3. byteAge + timer[c] >= DrainQuiet /\ byteAge \in 0..AgeCap
        BY <3>1, <3>2 DEF Silence
      <3> QED BY <1>3, <3>1, <3>3, QuietAssumption, TimeAssumption DEF Aged, Countdown
    <2> QED BY <2>1, <2>2 DEF Silence
  <1>4. CASE UNCHANGED quietVars
    BY <1>4 DEF quietVars, vars, tasks, line, Silence
  <1>5. CASE QuietNext
    <2>1. \/ \E c \in Client : Calls(c) /\ UNCHANGED byteAge
          \/ (Deliver \/ Unplug \/ Replug) /\ Observe
          \/ Tick /\ byteAge' = Aged(byteAge)
      BY <1>5, Zenon DEF QuietNext
    <2> QED BY <1>1, <1>2, <1>3, <2>1, Zenon
  <1> QED BY <1>4, <1>5

\* The observer sees steps of SerialIO.
LEMMA QuietIsSerial == [QuietNext]_quietVars => [Next]_vars
  BY DEF QuietNext, Next, quietVars

LEMMA SilenceEnds ==
    ASSUME Punctual, FreshInv, Silence, [Next]_vars, NEW c \in Client, Transmits(c)
    PROVE  rx = <<>> /\ wire = <<>> /\ byteAge >= DrainQuiet
  <1>1. ASSUME NEW d \in Client, Calls(d) PROVE d = c
    BY <1>1, Locality DEF FreshInv, SafeInv, Transmits
  <1>2. Calls(c)
    <2>1. ASSUME Deliver \/ Unplug \/ Replug \/ Tick \/ UNCHANGED vars PROVE pc' = pc
      BY <2>1 DEF Deliver, Unplug, Replug, Tick, vars, tasks
    <2> QED BY <1>1, <2>1 DEF Next, Transmits
  <1>3. Transmit(c)
    <2>1. ~Cancel(c) /\ ~Connect(c) /\ \A k \in Kind : ~Request(c, k)
      BY DEF Transmits, Punctual, Cancel, Request, Connect, Reuse, Open, OpenRefused, Reclose
    <2>2. ~DrainMore(c) /\ ~ReadFails(c)
      BY DEF Transmits, DrainMore, ReadFails, Release, Leave, Goto, FreshInv, SafeInv, TypeOK
    <2> QED BY <1>2, <2>1, <2>2 DEF Transmits, Calls, Fetch, Exchange, GapDone, MinGapDone,
                                    Accept, Reject, Stall, TimedOut, BackoffDone
  <1>4. pc[c] = "drain" /\ timer[c] = 0 /\ conn = "open"
    BY <1>3 DEF Transmit
  <1>5. wire = <<>> /\ rx = <<>>
    BY <1>4, LineEmpty DEF FreshInv
  <1> QED BY <1>4, <1>5 DEF Silence

\* A punctual request is the only thing on the line: nothing is unread, nothing
\* is under way, and the host has heard nothing for as long as the drain reads,
\* however often the reads of the drain found something.
THEOREM SilentLine == ASSUME Punctual PROVE QuietSafety => SilentBeforeRequest
  <1>1. QuietInit => Init /\ Silence
    BY TimeAssumption DEF QuietInit, Init, Silence
  <1>2. FreshInv /\ Silence /\ [QuietNext]_quietVars => Silence'
    BY SilenceStep DEF FreshInv
  <1>3. FreshInv /\ Silence /\ [QuietNext]_quietVars =>
           [\A c \in Client : Transmits(c) => rx = <<>> /\ wire = <<>> /\ byteAge >= DrainQuiet]_quietVars
    BY QuietIsSerial, SilenceEnds
  <1>4. Safety => []FreshInv
    BY FreshInvariance
  <1> QED BY <1>1, <1>2, <1>3, <1>4, QuietIsSerial, PTL DEF Safety, QuietSafety, SilentBeforeRequest

=============================================================================
