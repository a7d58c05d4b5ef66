--------------------------- MODULE Lifespan_proofs ---------------------------
(***************************************************************************)
(* Safety of Lifespan, for any set of clients and any bound on the queues. *)
(***************************************************************************)
EXTENDS Lifespan, TLAPS

\* What a service knows of its subscribers: the event says whether
\* there are any.
WOk == wAwake \in BOOLEAN /\ Weights!FlagMeansSubscribers
SOk == sAwake \in BOOLEAN /\ Status!FlagMeansSubscribers

\* Of the queues that are shut, none is subscribed; that of the recording, which
\* may be subscribed again at any time, is never shut.
FInv == WOk /\ SOk /\ NoDeadQueue /\ Recorder \notin wShut

\* subscribe() and unsubscribe() of either service keep the event true.
LEMMA Subscribe ==
    ASSUME NEW q
    PROVE  /\ WOk /\ Weights!Subscribing(q) => WOk' /\ wSubscribers' = wSubscribers \cup {q}
           /\ SOk /\ Status!Subscribing(q) => SOk' /\ sSubscribers' = sSubscribers \cup {q}
<1>1. ASSUME WOk, Weights!Subscribing(q)
      PROVE  WOk' /\ wSubscribers' = wSubscribers \cup {q}
  <2>1. wSubscribers' = wSubscribers \cup {q}
    BY <1>1 DEF WOk, Weights!Subscribing
  <2>2. IF wSubscribers' = {q} THEN wAwake' = TRUE ELSE wAwake' = wAwake
    BY <1>1, Zenon DEF Weights!Subscribing
  <2>3. wSubscribers' # {q} => wAwake = TRUE
    BY <1>1, <2>1 DEF WOk, Weights!FlagMeansSubscribers
  <2>4. wAwake' = TRUE /\ wSubscribers' # {}
    BY <2>1, <2>2, <2>3
  <2> QED
    BY <2>1, <2>4 DEF WOk, Weights!FlagMeansSubscribers
<1>2. ASSUME SOk, Status!Subscribing(q)
      PROVE  SOk' /\ sSubscribers' = sSubscribers \cup {q}
  <2>1. sSubscribers' = sSubscribers \cup {q}
    BY <1>2 DEF SOk, Status!Subscribing
  <2>2. IF sSubscribers' = {q} THEN sAwake' = TRUE ELSE sAwake' = sAwake
    BY <1>2, Zenon DEF Status!Subscribing
  <2>3. sSubscribers' # {q} => sAwake = TRUE
    BY <1>2, <2>1 DEF SOk, Status!FlagMeansSubscribers
  <2>4. sAwake' = TRUE /\ sSubscribers' # {}
    BY <2>1, <2>2, <2>3
  <2> QED
    BY <2>1, <2>4 DEF SOk, Status!FlagMeansSubscribers
<1> QED
  BY <1>1, <1>2

LEMMA Unsubscribe ==
    ASSUME NEW q
    PROVE  /\ WOk /\ Weights!Unsubscribing(q) => WOk' /\ wSubscribers' = wSubscribers \ {q}
           /\ SOk /\ Status!Unsubscribing(q) => SOk' /\ sSubscribers' = sSubscribers \ {q}
<1>1. ASSUME WOk, Weights!Unsubscribing(q)
      PROVE  WOk' /\ wSubscribers' = wSubscribers \ {q}
  <2>1. wSubscribers' = wSubscribers \ {q}
    BY <1>1 DEF WOk, Weights!Unsubscribing
  <2>2. wAwake' = (wAwake /\ (q \in wSubscribers => wSubscribers' # {}))
    BY <1>1 DEF Weights!Unsubscribing
  <2>3. wAwake \in BOOLEAN /\ (wAwake <=> wSubscribers # {})
    BY <1>1 DEF WOk, Weights!FlagMeansSubscribers
  <2>4. wAwake' \in BOOLEAN /\ (wAwake' <=> wSubscribers' # {})
    BY <2>1, <2>2, <2>3
  <2> QED
    BY <2>1, <2>4 DEF WOk, Weights!FlagMeansSubscribers
<1>2. ASSUME SOk, Status!Unsubscribing(q)
      PROVE  SOk' /\ sSubscribers' = sSubscribers \ {q}
  <2>1. sSubscribers' = sSubscribers \ {q}
    BY <1>2 DEF SOk, Status!Unsubscribing
  <2>2. sAwake' = (sAwake /\ (q \in sSubscribers => sSubscribers' # {}))
    BY <1>2 DEF Status!Unsubscribing
  <2>3. sAwake \in BOOLEAN /\ (sAwake <=> sSubscribers # {})
    BY <1>2 DEF SOk, Status!FlagMeansSubscribers
  <2>4. sAwake' \in BOOLEAN /\ (sAwake' <=> sSubscribers' # {})
    BY <2>1, <2>2, <2>3
  <2> QED
    BY <2>1, <2>4 DEF SOk, Status!FlagMeansSubscribers
<1> QED
  BY <1>1, <1>2

-----------------------------------------------------------------------------
\* The steps of the loops touch no subscription.
LEMMA LoopKeeps ==
    /\ WeightsPoll => UNCHANGED <<wAwake, wSubscribers, wShut, sAwake, sSubscribers, sShut>>
    /\ StatusPoll => UNCHANGED <<wAwake, wSubscribers, wShut, sAwake, sSubscribers, sShut>>
  BY DEF WeightsPoll, StatusPoll, weightVars, statusVars,
         Weights!LoopStep, Weights!BeginPoll, Weights!Pause, Weights!Ended, Weights!Broadcast, Weights!queues,
         Status!LoopStep, Status!BeginPoll, Status!Pause, Status!Ended, Status!Broadcast, Status!queues

LEMMA Untouched ==
    ASSUME FInv, UNCHANGED <<wAwake, wSubscribers, wShut, sAwake, sSubscribers, sShut>>
    PROVE  FInv'
  BY DEF FInv, WOk, SOk, NoDeadQueue, Weights!FlagMeansSubscribers, Status!FlagMeansSubscribers

LEMMA OpenKeeps ==
    ASSUME FInv, NEW c \in Client, NEW asked, Open(c, asked)
    PROVE  FInv'
<1>1. /\ wShut' = wShut \ {c} /\ sShut' = sShut \ {c}
      /\ IF "loadcells" \in asked THEN Weights!Subscribing(c) ELSE UNCHANGED <<wSubscribers, wAwake, wLoop>>
      /\ IF "doors" \in asked THEN Status!Subscribing(c) ELSE UNCHANGED <<sSubscribers, sAwake, sLoop>>
  BY DEF Open
<1>2. WOk' /\ wSubscribers' \subseteq wSubscribers \cup {c}
  <2>1. CASE "loadcells" \in asked
    BY <1>1, <2>1, Subscribe DEF FInv
  <2>2. CASE "loadcells" \notin asked
    BY <1>1, <2>2 DEF FInv, WOk, Weights!FlagMeansSubscribers
  <2> QED
    BY <2>1, <2>2
<1>3. SOk' /\ sSubscribers' \subseteq sSubscribers \cup {c}
  <2>1. CASE "doors" \in asked
    BY <1>1, <2>1, Subscribe DEF FInv
  <2>2. CASE "doors" \notin asked
    BY <1>1, <2>2 DEF FInv, SOk, Status!FlagMeansSubscribers
  <2> QED
    BY <2>1, <2>2
<1> QED
  BY <1>1, <1>2, <1>3 DEF FInv, NoDeadQueue

LEMMA LeaveKeeps ==
    ASSUME FInv, NEW c \in Client, Leave(c)
    PROVE  FInv'
<1>1. /\ Weights!Unsubscribing(c) /\ wShut' \subseteq wShut \cup {c}
      /\ Status!Unsubscribing(c) /\ sShut' \subseteq sShut \cup {c}
  BY DEF Leave
<1>2. WOk' /\ wSubscribers' = wSubscribers \ {c} /\ SOk' /\ sSubscribers' = sSubscribers \ {c}
  BY <1>1, Unsubscribe DEF FInv
<1> QED
  BY <1>1, <1>2, LifespanAssumption DEF FInv, NoDeadQueue

LEMMA FInvInductive == Safety => []FInv
<1>1. Init => FInv
  <2> SUFFICES ASSUME Init
               PROVE  FInv
    OBVIOUS
  <2>1. wAwake = FALSE /\ wSubscribers = {} /\ wShut = {}
    BY DEF Init
  <2>2. sAwake = TRUE /\ sSubscribers = {Tracker} /\ sShut = {}
    BY DEF Init
  <2>4. WOk
    BY <2>1 DEF WOk, Weights!FlagMeansSubscribers
  <2>5. SOk
    BY <2>2 DEF SOk, Status!FlagMeansSubscribers
  <2> QED
    BY <2>1, <2>2, <2>4, <2>5 DEF FInv, NoDeadQueue
<1>2. FInv /\ [Next]_aVars => FInv'
  <2> SUFFICES ASSUME FInv, [Next]_aVars
               PROVE  FInv'
    OBVIOUS
  <2> USE DEF weightVars, statusVars
  <2>1. CASE WeightsPoll
    BY <2>1, LoopKeeps, Untouched
  <2>2. CASE StatusPoll
    BY <2>2, LoopKeeps, Untouched
  <2>3. CASE StartRecording
    <3>1. WOk' /\ wSubscribers' = wSubscribers \cup {Recorder}
      BY <2>3, Subscribe DEF StartRecording, FInv
    <3>2. UNCHANGED <<wShut, sAwake, sSubscribers, sShut>>
      BY <2>3 DEF StartRecording
    <3>3. SOk'
      BY <3>2 DEF FInv, SOk, Status!FlagMeansSubscribers
    <3> QED
      BY <3>1, <3>2, <3>3 DEF FInv, NoDeadQueue
  <2>4. CASE StopRecording
    <3>1. WOk' /\ wSubscribers' = wSubscribers \ {Recorder}
      BY <2>4, Unsubscribe DEF StopRecording, FInv
    <3>2. UNCHANGED <<wShut, sAwake, sSubscribers, sShut>>
      BY <2>4 DEF StopRecording
    <3>3. SOk'
      BY <3>2 DEF FInv, SOk, Status!FlagMeansSubscribers
    <3> QED
      BY <3>1, <3>2, <3>3 DEF FInv, NoDeadQueue
  <2>5. CASE RecorderTakes \/ TrackerTakes \/ RecorderEnds \/ TrackerEnds
    BY <2>5, Untouched DEF RecorderTakes, TrackerTakes, RecorderEnds, TrackerEnds
  <2>6. CASE Shutdown \/ StopRecorder \/ Exit
    BY <2>6, Untouched DEF Shutdown, StopRecorder, Exit
  <2>7. CASE StopTracker
    <3>1. SOk' /\ sSubscribers' = sSubscribers \ {Tracker} /\ sShut' = sShut \cup {Tracker}
      BY <2>7, Unsubscribe DEF StopTracker, FInv
    <3>2. UNCHANGED <<wAwake, wSubscribers, wShut>>
      BY <2>7 DEF StopTracker
    <3>3. WOk'
      BY <3>2 DEF FInv, WOk, Weights!FlagMeansSubscribers
    <3> QED
      BY <3>1, <3>2, <3>3 DEF FInv, NoDeadQueue
  <2>8. CASE StopWeights
    BY <2>8, Untouched DEF StopWeights, Weights!Stop, Weights!queues
  <2>9. CASE StopStatus
    BY <2>9, Untouched DEF StopStatus, Status!Stop, Status!queues
  <2>10. ASSUME NEW c \in Client, Disconnect(c) \/ StreamEnds(c)
         PROVE  FInv'
    BY <2>10, Untouched DEF Disconnect, StreamEnds
  <2>11. ASSUME NEW c \in Client, Leave(c)
         PROVE  FInv'
    BY <2>11, LeaveKeeps
  <2>12. ASSUME NEW c \in Client, NEW s \in Streams, FeederStep(c, s)
         PROVE  FInv'
    BY <2>12, Untouched DEF FeederStep, FeederTakes, FeederEnds
  <2>13. ASSUME NEW c \in Client, NEW asked \in SUBSET Streams, Open(c, asked)
         PROVE  FInv'
    BY <2>13, OpenKeeps
  <2>14. CASE UNCHANGED aVars
    BY <2>14, Untouched DEF aVars
  <2> QED
    BY <2>1, <2>2, <2>3, <2>4, <2>5, <2>6, <2>7, <2>8, <2>9, <2>10, <2>11, <2>12, <2>13, <2>14
       DEF Next, LifespanStep
<1> QED
  BY <1>1, <1>2, PTL DEF Safety

\* The events of both services tell the truth, for any number of clients, at any
\* moment of the loops and of the stop.
THEOREM Flags == Safety => []FlagMeansSubscribers
<1>1. FInv => FlagMeansSubscribers
  BY DEF FInv, WOk, SOk, FlagMeansSubscribers
<1> QED
  BY <1>1, FInvInductive, PTL

\* Whoever leaves unsubscribes before the queue is shut, so no put() raises and
\* nobody goes without a result because of somebody else.
THEOREM NobodyGoesWithout == Safety => []NoDeadQueue
<1>1. FInv => NoDeadQueue
  BY DEF FInv
<1> QED
  BY <1>1, FInvInductive, PTL
=============================================================================
