------------------------------ MODULE Sse_proofs ------------------------------
(***************************************************************************)
(* Safety of the streams, for any clients, weights and threshold: no dead  *)
(* queue is left with the service, and no theft is missed.                 *)
(***************************************************************************)
EXTENDS Sse, TLAPS

Events == {"loadcell.update", "loadcell.change", "loadcell.uncertainty",
           "door.update", "error"}

Types ==
    /\ stream \in {"loadcells", "doors"} /\ stopping \in BOOLEAN
    /\ connected \in [Queue -> BOOLEAN]
    /\ gen \in [Queue -> GenPlaces] /\ task \in [Queue -> TaskPlaces]
    /\ buffer \in [Queue -> Seq(Results)] /\ events \in [Queue -> Seq(Events)]
    /\ previous \in [Queue -> Int] /\ weighed \in [Queue -> Int]
    /\ alarmed \in [Queue -> BOOLEAN]
    /\ subscribers \subseteq Queue

\* A queue is shut by the finally block of its generator, which never runs again.
Shutting ==
    /\ NoDeadSubscriber
    /\ \A c \in shut : c \in Queue /\ gen[c] \in {"leaving", "ended"}

\* A task that was woken finds what it was woken for.
WokenFor == \A c \in Queue : task[c] = "ready" => buffer[c] # <<>>

\* The detector compares with the weight that was seen last, or an alarm has
\* been raised since; a status of the doors has no weight to compare.
Comparing == \A c \in Queue :
    /\ weighed[c] = previous[c] \/ alarmed[c]
    /\ stream = "doors" => previous[c] = None /\ weighed[c] = None

SseInv == Types /\ Shutting /\ WokenFor /\ Comparing
-----------------------------------------------------------------------------
LEMMA ResultTypes ==
  ASSUME Types, NEW r \in Results
  PROVE  /\ r.kind \in {"frame", "EEEEEE", "IOBoardError", "OtherError"}
         /\ r.w \in Int
         /\ stream = "doors" => r.w = None /\ r.kind # "EEEEEE"
<1>1. CASE stream = "doors"
  <2>1. PICK k \in Kinds \ {"EEEEEE"} : r = Result(k, None)
    BY <1>1 DEF Results
  <2> QED BY <2>1, SseAssumption DEF Result
<1>2. CASE stream # "doors"
  <2>1. \/ \E k \in Kinds \ {"frame"} : r = Result(k, 0)
        \/ \E w \in Weights : r = Result("frame", w)
    BY <1>2 DEF Results
  <2> QED BY <1>2, <2>1, SseAssumption DEF Result
<1> QED BY <1>1, <1>2

LEMMA ShortSequences ==
  ASSUME NEW S
  PROVE  /\ <<>> \in Seq(S)
         /\ \A a \in S : <<a>> \in Seq(S)
         /\ \A a, b \in S : <<a, b>> \in Seq(S)
         /\ \A s, t \in Seq(S) : s \o t \in Seq(S)
  OBVIOUS

LEMMA EmitsEvents ==
  ASSUME Types, NEW r \in Results, NEW p
  PROVE  Emits(p, r) \in Seq(Events)
<1> DEFINE More == IF Changed(p, r.w) THEN <<"loadcell.change">> ELSE <<>>
<1> USE ShortSequences DEF Events
<1>1. More \in Seq(Events) /\ <<"loadcell.update">> \in Seq(Events)
  <2>1. <<"loadcell.change">> \in Seq(Events) /\ <<>> \in Seq(Events)
    OBVIOUS
  <2> QED BY <2>1
<1>2. CASE stream # "doors" /\ r.kind = "frame"
  <2>1. Emits(p, r) = <<"loadcell.update">> \o More
    BY <1>2, Zenon DEF Emits, LoadcellEvents
  <2> HIDE DEF More
  <2> QED BY <1>1, <2>1
<1>3. CASE stream # "doors" /\ r.kind = "EEEEEE"
  <2>1. Emits(p, r) = <<"loadcell.update", "loadcell.uncertainty">>
    BY <1>3 DEF Emits, LoadcellEvents
  <2> QED BY <2>1
<1>4. CASE stream # "doors" /\ r.kind = "IOBoardError"
  <2>1. Emits(p, r) = <<"loadcell.uncertainty", "error">>
    BY <1>4 DEF Emits, LoadcellEvents
  <2> QED BY <2>1
<1>5. CASE stream # "doors" /\ r.kind = "OtherError"
  <2>1. Emits(p, r) = <<"error">>
    BY <1>5 DEF Emits, LoadcellEvents
  <2> QED BY <2>1
<1>6. CASE stream = "doors"
  <2>1. Emits(p, r) \in {<<"door.update">>, <<"error">>}
    BY <1>6 DEF Emits, DoorEvents
  <2> QED BY <2>1
<1> QED BY <1>2, <1>3, <1>4, <1>5, <1>6, ResultTypes

\* A failed poll of the weights raises an alarm, and so does a change.
LEMMA FailureAlarms ==
  ASSUME Types, NEW r \in Results, NEW p, stream # "doors",
         r.kind \in {"EEEEEE", "IOBoardError"}
  PROVE  Alarms \cap ToSet(Emits(p, r)) # {}
<1>1. CASE r.kind = "EEEEEE"
  <2>1. Emits(p, r) = <<"loadcell.update", "loadcell.uncertainty">>
    BY <1>1 DEF Emits, LoadcellEvents
  <2> QED BY <2>1 DEF Alarms, ToSet
<1>2. CASE r.kind = "IOBoardError"
  <2>1. Emits(p, r) = <<"loadcell.uncertainty", "error">>
    BY <1>2 DEF Emits, LoadcellEvents
  <2> QED BY <2>1 DEF Alarms, ToSet
<1> QED BY <1>1, <1>2

LEMMA ChangeEmitted ==
  ASSUME Types, NEW r \in Results, NEW p, stream # "doors",
         r.kind = "frame", Changed(p, r.w)
  PROVE  Emits(p, r) = <<"loadcell.update">> \o <<"loadcell.change">>
<1>1. Emits(p, r) = LoadcellEvents(p, r)
  BY DEF Emits
<1>2. LoadcellEvents(p, r) =
        <<"loadcell.update">> \o (IF Changed(p, r.w) THEN <<"loadcell.change">> ELSE <<>>)
  BY Zenon DEF LoadcellEvents
<1>3. (IF Changed(p, r.w) THEN <<"loadcell.change">> ELSE <<>>) = <<"loadcell.change">>
  BY Zenon
<1> QED BY <1>1, <1>2, <1>3, Zenon

\* One result, taken by the task of one client.
LEMMA ProcessKept ==
  ASSUME SseInv, NEW c \in Queue, NEW r \in Results, Process(c, r), stream' = stream
  PROVE  /\ events' \in [Queue -> Seq(Events)]
         /\ previous' \in [Queue -> Int] /\ weighed' \in [Queue -> Int]
         /\ alarmed' \in [Queue -> BOOLEAN]
         /\ Comparing'
<1> DEFINE Raised == Alarms \cap ToSet(Emits(previous[c], r)) # {}
<1> USE DEF SseInv
<1>1. events' \in [Queue -> Seq(Events)]
  <2>1. events[c] \o Emits(previous[c], r) \in Seq(Events)
    BY EmitsEvents DEF Types
  <2> QED BY <2>1 DEF Process, Types
<1>2. previous' \in [Queue -> Int] /\ weighed' \in [Queue -> Int]
  BY ResultTypes, SseAssumption DEF Process, Types, Remembers
<1>3. alarmed' = [alarmed EXCEPT ![c] = r.kind # "frame" /\ (alarmed[c] \/ Raised)]
  BY DEF Process, Types
<1>4. alarmed' \in [Queue -> BOOLEAN]
  <2> HIDE DEF Raised
  <2> QED BY <1>3, Zenon DEF Types
<1>5. ASSUME NEW d \in Queue, d # c
      PROVE  previous'[d] = previous[d] /\ weighed'[d] = weighed[d] /\ alarmed'[d] = alarmed[d]
  BY <1>5 DEF Process, Types
<1>6. previous'[c] = Remembers(previous[c], r)
  BY DEF Process, Types
<1>7. weighed'[c] = IF r.kind = "frame" THEN r.w ELSE weighed[c]
  BY DEF Process, Types
<1>8. alarmed'[c] <=> r.kind # "frame" /\ (alarmed[c] \/ Raised)
  <2> HIDE DEF Raised
  <2> QED BY <1>3, Zenon DEF Types
<1>9. weighed'[c] = previous'[c] \/ alarmed'[c]
  <2>1. CASE r.kind = "frame"
    BY <2>1, <1>6, <1>7 DEF Remembers
  <2>2. CASE r.kind = "OtherError"
    BY <2>2, <1>6, <1>7, <1>8 DEF Remembers, Comparing
  <2>3. CASE r.kind \in {"EEEEEE", "IOBoardError"} /\ stream # "doors"
    BY <2>3, <1>8, FailureAlarms
  <2>4. CASE r.kind = "IOBoardError" /\ stream = "doors"
    BY <2>4, <1>6, <1>7 DEF Remembers, Comparing
  <2> QED BY <2>1, <2>2, <2>3, <2>4, ResultTypes
<1>10. stream = "doors" => previous'[c] = None /\ weighed'[c] = None
  BY <1>6, <1>7, ResultTypes DEF Remembers, Comparing
<1>11. Comparing'
  BY <1>5, <1>9, <1>10 DEF Comparing
<1> QED BY <1>1, <1>2, <1>4, <1>11
-----------------------------------------------------------------------------
\* A step that leaves what a conjunct of the invariant is about.
LEMMA ResultsFixed == stream' = stream => Results' = Results
  BY DEF Results, Result

LEMMA TypesFrame ==
  ASSUME Types, stream' = stream,
         UNCHANGED <<buffer, events, previous, weighed, alarmed>>,
         stopping' \in BOOLEAN, connected' \in [Queue -> BOOLEAN],
         gen' \in [Queue -> GenPlaces], task' \in [Queue -> TaskPlaces],
         subscribers' \subseteq Queue
  PROVE  Types'
  BY ResultsFixed DEF Types

LEMMA ComparingFrame ==
  ASSUME Comparing, UNCHANGED <<stream, previous, weighed, alarmed>>
  PROVE  Comparing'
  BY DEF Comparing

\* The steps of a client's generator that only move it on.
LEMMA GenMoveKept ==
  ASSUME SseInv, NEW c \in Queue, NEW place \in GenPlaces, GenMove(c, place),
         gen[c] \in {"leaving", "ended"} => place \in {"leaving", "ended"}
  PROVE  SseInv'
<1> USE DEF SseInv, GenMove, pvars, service, queues, ghosts
<1>1. Types'
  BY TypesFrame DEF Types
<1>2. Shutting'
  BY DEF Shutting, NoDeadSubscriber, Types
<1>3. WokenFor'
  BY DEF WokenFor
<1>4. Comparing'
  BY ComparingFrame
<1> QED BY <1>1, <1>2, <1>3, <1>4

\* The finally block gives the subscription back before it shuts the queue.
LEMMA FinallyKept ==
  ASSUME SseInv, NEW c \in Queue, Finally(c)
  PROVE  SseInv'
<1> USE DEF SseInv, Finally, Unsubscribing, ghosts
<1>1. Types'
  BY TypesFrame DEF Types, GenPlaces, TaskPlaces
<1>2. Shutting'
  BY DEF Shutting, NoDeadSubscriber, Types
<1>3. WokenFor'
  BY DEF WokenFor, Types
<1>4. Comparing'
  BY ComparingFrame
<1> QED BY <1>1, <1>2, <1>3, <1>4

\* The steps of a client's task that take no result.
LEMMA TaskMoveKept ==
  ASSUME SseInv, NEW c \in Queue, NEW place \in TaskPlaces \ {"ready"}, TaskMove(c, place),
         UNCHANGED <<pvars, stream, stopping, connected, gen, events, previous, ghosts>>
  PROVE  SseInv'
<1> USE DEF SseInv, TaskMove, pvars, service, queues, ghosts
<1>1. Types'
  BY TypesFrame DEF Types
<1>2. Shutting'
  BY DEF Shutting, NoDeadSubscriber
<1>3. WokenFor'
  BY DEF WokenFor, Types
<1>4. Comparing'
  BY ComparingFrame
<1> QED BY <1>1, <1>2, <1>3, <1>4

LEMMA HeadTaken ==
  ASSUME NEW S, NEW s \in Seq(S), s # <<>>
  PROVE  Head(s) \in S /\ Tail(s) \in Seq(S)
  OBVIOUS

LEMMA TaskTakeKept ==
  ASSUME SseInv, NEW c \in Queue, buffer[c] # <<>>, TaskTake(c)
  PROVE  SseInv'
<1> USE DEF SseInv
<1>1. Head(buffer[c]) \in Results /\ Tail(buffer[c]) \in Seq(Results)
  BY HeadTaken DEF Types
<1>2. Process(c, Head(buffer[c])) /\ stream' = stream
  BY DEF TaskTake
<1>3. /\ events' \in [Queue -> Seq(Events)]
      /\ previous' \in [Queue -> Int] /\ weighed' \in [Queue -> Int]
      /\ alarmed' \in [Queue -> BOOLEAN] /\ Comparing'
  BY <1>1, <1>2, ProcessKept
<1>4. buffer' \in [Queue -> Seq(Results)]
  BY <1>1 DEF TaskTake, Types
<1>5. Types'
  BY <1>3, <1>4, ResultsFixed DEF Types, TaskTake, TaskMove, TaskPlaces, service
<1>6. Shutting'
  BY DEF Shutting, NoDeadSubscriber, TaskTake, service
<1>7. WokenFor'
  BY DEF WokenFor, TaskTake, TaskMove, Types
<1> QED BY <1>3, <1>5, <1>6, <1>7

LEMMA OpenKept ==
  ASSUME SseInv, NEW c \in Queue, Open(c)
  PROVE  SseInv'
<1> USE DEF SseInv, Open, Subscribing, queues, ghosts
<1>1. Types'
  BY TypesFrame DEF Types, GenPlaces, TaskPlaces
<1>2. Shutting'
  BY DEF Shutting, NoDeadSubscriber, Types
<1>3. WokenFor'
  BY DEF WokenFor, Types
<1>4. Comparing'
  BY ComparingFrame
<1> QED BY <1>1, <1>2, <1>3, <1>4

LEMMA Appended ==
  ASSUME NEW S, NEW s \in Seq(S), NEW e \in S
  PROVE  Append(s, e) \in Seq(S) /\ Append(s, e) # <<>>
<1>1. Append(s, e) \in Seq(S) /\ Len(Append(s, e)) = Len(s) + 1 /\ Len(s) \in Nat
  OBVIOUS
<1>2. Len(<<>>) = 0
  OBVIOUS
<1> QED BY <1>1, <1>2

LEMMA PublishKept ==
  ASSUME SseInv, Publish
  PROVE  SseInv'
<1> USE DEF SseInv, Publish, Broadcast
<1>1. PICK r \in Results : Broadcast(r)
  OBVIOUS
<1>2. PICK R \in Reached :
        buffer' = [q \in Queue |-> IF q \in R THEN Append(buffer[q], r) ELSE buffer[q]]
  BY <1>1
<1>3. \A q \in Queue : Append(buffer[q], r) \in Seq(Results) /\ Append(buffer[q], r) # <<>>
  <2>1. ASSUME NEW q \in Queue
        PROVE  buffer[q] \in Seq(Results)
    BY DEF Types
  <2> QED BY <2>1, Appended
<1>4. buffer' \in [Queue -> Seq(Results)]
  BY <1>2, <1>3 DEF Types
<1>5. Types'
  BY <1>1, <1>4, ResultsFixed DEF Types, TaskPlaces, ghosts
<1>6. Shutting'
  BY <1>1 DEF Shutting, NoDeadSubscriber
<1>7. WokenFor'
  BY <1>2, <1>3 DEF WokenFor, Types
<1>8. Comparing'
  BY ComparingFrame DEF ghosts
<1> QED BY <1>5, <1>6, <1>7, <1>8

\* A result is only taken from a queue that has one.
LEMMA TakenFrom ==
  ASSUME SseInv, NEW c \in Queue, TaskAsk(c) \/ TaskReceive(c)
  PROVE  \/ \E place \in TaskPlaces \ {"ready"} :
              /\ TaskMove(c, place)
              /\ UNCHANGED <<pvars, stream, stopping, connected, gen, events, previous, ghosts>>
         \/ buffer[c] # <<>> /\ TaskTake(c)
  BY DEF SseInv, WokenFor, TaskAsk, TaskReceive, TaskPlaces

LEMMA SseStart == SseInit => SseInv
<1> SUFFICES ASSUME SseInit PROVE SseInv
  OBVIOUS
<1> USE DEF SseInit, PInit
<1>1. <<>> \in Seq(Results) /\ <<>> \in Seq(Events)
  OBVIOUS
<1>2. Types
  <2>1. buffer \in [Queue -> Seq(Results)] /\ events \in [Queue -> Seq(Events)]
    BY <1>1
  <2>2. gen \in [Queue -> GenPlaces] /\ task \in [Queue -> TaskPlaces]
    BY DEF GenPlaces, TaskPlaces
  <2>3. previous \in [Queue -> Int] /\ weighed \in [Queue -> Int]
    BY SseAssumption
  <2>4. connected \in [Queue -> BOOLEAN] /\ alarmed \in [Queue -> BOOLEAN]
    OBVIOUS
  <2> QED BY <2>1, <2>2, <2>3, <2>4 DEF Types
<1>3. Shutting /\ WokenFor
  BY DEF Shutting, NoDeadSubscriber, WokenFor
<1>4. Comparing
  BY DEF Comparing
<1> QED BY <1>2, <1>3, <1>4 DEF SseInv

LEMMA SseStep ==
  ASSUME SseInv, [SseNext]_svars
  PROVE  SseInv'
<1>1. CASE UNCHANGED svars
  <2> USE <1>1 DEF SseInv, svars, pvars, service, queues, streams, ghosts
  <2>1. Types'
    BY TypesFrame DEF Types
  <2>2. Shutting' /\ WokenFor'
    BY DEF Shutting, NoDeadSubscriber, WokenFor
  <2>3. Comparing'
    BY ComparingFrame
  <2> QED BY <2>1, <2>2, <2>3
<1>2. CASE StopServer
  <2> USE <1>2 DEF SseInv, StopServer, pvars, service, queues, streams, ghosts
  <2>1. Types'
    BY TypesFrame DEF Types
  <2>2. Shutting' /\ WokenFor'
    BY DEF Shutting, NoDeadSubscriber, WokenFor
  <2>3. Comparing'
    BY ComparingFrame
  <2> QED BY <2>1, <2>2, <2>3
<1>3. CASE PollingStep
  <2> USE <1>3 DEF SseInv, PollingStep, Start, BeginPoll, Pause, queues, streams, ghosts
  <2>1. Types'
    BY TypesFrame DEF Types
  <2>2. Shutting' /\ WokenFor'
    BY DEF Shutting, NoDeadSubscriber, WokenFor
  <2>3. Comparing'
    BY ComparingFrame
  <2> QED BY <2>1, <2>2, <2>3
<1>4. CASE Publish
  BY <1>4, PublishKept
<1>5. ASSUME NEW c \in Queue, Open(c)
      PROVE  SseInv'
  BY <1>5, OpenKept
<1>6. ASSUME NEW c \in Queue, Disconnect(c)
      PROVE  SseInv'
  <2> USE <1>6 DEF SseInv, Disconnect, pvars, service, queues, ghosts
  <2>1. Types'
    BY TypesFrame DEF Types
  <2>2. Shutting' /\ WokenFor'
    BY DEF Shutting, NoDeadSubscriber, WokenFor
  <2>3. Comparing'
    BY ComparingFrame
  <2> QED BY <2>1, <2>2, <2>3
<1>7. ASSUME NEW c \in Queue, TaskStep(c)
      PROVE  SseInv'
  <2>1. CASE TaskCheck(c)
    BY <2>1, TaskMoveKept DEF TaskCheck, TaskPlaces
  <2>2. CASE TaskAsk(c) \/ TaskReceive(c)
    BY <2>2, TakenFrom, TaskMoveKept, TaskTakeKept
  <2>3. CASE TaskCancelled(c)
    BY <2>3, TaskMoveKept DEF TaskCancelled, TaskPlaces
  <2> QED BY <1>7, <2>1, <2>2, <2>3 DEF TaskStep
<1>8. ASSUME NEW c \in Queue, GenStep(c)
      PROVE  SseInv'
  <2>1. CASE GenSend(c)
    <3> USE <2>1 DEF SseInv, GenSend, pvars, service, queues, ghosts
    <3>1. Tail(events[c]) \in Seq(Events)
      BY HeadTaken DEF Types
    <3>2. events' \in [Queue -> Seq(Events)]
      BY <3>1 DEF Types
    <3>3. Types'
      BY <3>2, ResultsFixed DEF Types, GenPlaces
    <3>4. Shutting' /\ WokenFor'
      BY DEF Shutting, NoDeadSubscriber, WokenFor, Types
    <3>5. Comparing'
      BY ComparingFrame
    <3> QED BY <3>3, <3>4, <3>5
  <2>2. CASE GenCheck(c)
    BY <2>2, GenMoveKept, FinallyKept DEF GenCheck, GenPlaces
  <2>3. CASE GenAsk(c)
    BY <2>3, GenMoveKept, FinallyKept DEF GenAsk, GenPlaces
  <2>4. CASE GenTimeout(c)
    BY <2>4, GenMoveKept DEF GenTimeout, GenPlaces
  <2>5. CASE GenCancelled(c)
    BY <2>5, FinallyKept DEF GenCancelled
  <2>6. CASE GenEnded(c)
    BY <2>6, GenMoveKept DEF GenEnded, GenPlaces
  <2> QED BY <1>8, <2>1, <2>2, <2>3, <2>4, <2>5, <2>6 DEF GenStep
<1> QED BY <1>1, <1>2, <1>3, <1>4, <1>5, <1>6, <1>7, <1>8 DEF SseNext

LEMMA SseInvariant == SseSafety => []SseInv
<1>1. SseInit => SseInv
  BY SseStart
<1>2. SseInv /\ [SseNext]_svars => SseInv'
  BY SseStep
<1> QED BY <1>1, <1>2, PTL DEF SseSafety

-----------------------------------------------------------------------------
\* Whenever and wherever a stream ends, the service that feeds it never
\* broadcasts to a queue that is shut: the finally block of the generators
\* unsubscribes first, and nobody subscribes the queue again.
THEOREM StreamsLeaveNoDeadQueue == SseSafety => []NoDeadSubscriber
<1>1. SseInv => NoDeadSubscriber
  BY DEF SseInv, Shutting
<1> QED BY <1>1, SseInvariant, PTL

-----------------------------------------------------------------------------
LEMMA LastOfSuffix ==
  ASSUME NEW S, NEW s \in Seq(S), NEW t \in Seq(S), NEW i \in 1..Len(t)
  PROVE  t[i] \in ToSet(SubSeq(s \o t, Len(s) + 1, Len(s \o t)))
<1> DEFINE u == SubSeq(s \o t, Len(s) + 1, Len(s \o t))
<1>1. Len(s \o t) = Len(s) + Len(t) /\ s \o t \in Seq(S)
  OBVIOUS
<1>2. Len(u) = Len(t) /\ u[i] = (s \o t)[Len(s) + i]
  BY <1>1
<1>3. u[i] = t[i] /\ i \in DOMAIN u
  BY <1>1, <1>2
<1> QED BY <1>3 DEF ToSet

\* What the task makes of a result whose weight is too far from the last one.
LEMMA ChangeTold ==
  ASSUME SseInv, NEW c \in Queue, NEW r \in Results, Process(c, r),
         weighed[c] # None, Abs(weighed'[c] - weighed[c]) > Threshold, ~alarmed[c]
  PROVE  "loadcell.change" \in ToSet(Added(c))
<1> USE DEF SseInv
<1>1. previous[c] = weighed[c] /\ previous[c] \in Int
  BY DEF Comparing, Types
<1>2. stream # "doors"
  BY DEF Comparing
<1>3. weighed'[c] = IF r.kind = "frame" THEN r.w ELSE weighed[c]
  BY DEF Process, Types
<1>4. r.kind = "frame" /\ weighed'[c] = r.w
  <2>1. weighed'[c] = weighed[c] => Abs(weighed'[c] - weighed[c]) = 0
    BY DEF Abs, Types
  <2> QED BY <1>3, <2>1, SseAssumption
<1>5. Changed(previous[c], r.w)
  BY <1>1, <1>4 DEF Changed
<1> DEFINE told == <<"loadcell.update">> \o <<"loadcell.change">>
<1>6. Emits(previous[c], r) = told
  BY <1>2, <1>4, <1>5, ChangeEmitted
<1>7. told \in Seq(Events) /\ 2 \in 1..Len(told) /\ told[2] = "loadcell.change"
  BY DEF Events
<1>8. events'[c] = events[c] \o told /\ events[c] \in Seq(Events)
  BY <1>6 DEF Process, Types
<1> HIDE DEF told
<1>9. told[2] \in ToSet(SubSeq(events[c] \o told, Len(events[c]) + 1, Len(events[c] \o told)))
  BY <1>7, <1>8, LastOfSuffix
<1> QED BY <1>7, <1>8, <1>9, Zenon DEF Added

\* Whatever arrives between two weights that differ by more than the threshold,
\* error frames, failed polls or nothing, a client of the stream is told of a
\* change, or of an uncertainty since the first of the two: detector and stream
\* never swallow a removal.
THEOREM TheftsAreTold == SseSafety => NoTheftMissed
<1> DEFINE Told(c) == weighed[c] # None /\ Abs(weighed'[c] - weighed[c]) > Threshold
                      => alarmed[c] \/ "loadcell.change" \in ToSet(Added(c))
<1>1. ASSUME SseInv, NEW c \in Queue, weighed'[c] = weighed[c]
      PROVE  Told(c)
  <2>1. Abs(weighed'[c] - weighed[c]) = 0
    BY <1>1 DEF SseInv, Types, Abs
  <2> QED BY <2>1, SseAssumption
<1>2. ASSUME SseInv, [SseNext]_svars, NEW c \in Queue
      PROVE  Told(c)
  <2>1. CASE \E d \in Queue : buffer[d] # <<>> /\ TaskTake(d)
    <3>1. PICK d \in Queue : buffer[d] # <<>> /\ TaskTake(d)
      BY <2>1
    <3>2. Head(buffer[d]) \in Results /\ Process(d, Head(buffer[d]))
      BY <1>2, <3>1, HeadTaken DEF SseInv, Types, TaskTake
    <3>3. CASE d = c
      BY <1>2, <3>2, <3>3, ChangeTold
    <3>4. CASE d # c
      <4>1. weighed'[c] = weighed[c]
        BY <1>2, <3>2, <3>4 DEF Process, SseInv, Types
      <4> QED BY <1>1, <1>2, <4>1
    <3> QED BY <3>3, <3>4
  <2>2. CASE ~ \E d \in Queue : buffer[d] # <<>> /\ TaskTake(d)
    <3>1. \A d \in Queue : TaskAsk(d) \/ TaskReceive(d) => UNCHANGED weighed
      BY <1>2, <2>2, TakenFrom DEF ghosts
    <3>2. UNCHANGED weighed
      BY <1>2, <3>1 DEF SseNext, svars, ghosts, StopServer, PollingStep, Publish, Open,
        Disconnect, TaskStep, TaskCheck, TaskCancelled, GenStep, GenCheck, GenAsk, GenSend,
        GenTimeout, GenCancelled, GenEnded, GenMove, Finally
    <3> QED BY <1>1, <1>2, <3>2
  <2> QED BY <2>1, <2>2
<1>3. SseInv /\ [SseNext]_svars => [\A c \in Queue : Told(c)]_svars
  BY <1>2
<1>4. NoTheftMissed <=> [][\A c \in Queue : Told(c)]_svars
  BY PTL DEF NoTheftMissed
<1> QED BY <1>3, <1>4, SseInvariant, PTL DEF SseSafety
=============================================================================
