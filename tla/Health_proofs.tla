----------------------------- MODULE Health_proofs -----------------------------
(***************************************************************************)
(* Safety of the deadbolt's operations, of the tracker and of GET /health, *)
(* for any set of tasks, any backlog and any of the time limits.           *)
(***************************************************************************)
EXTENDS Health, TLAPS

Status == [door : {"OPENED", "CLOSED", "failed"}, bolt : States \cup {"failed"}]

Types ==
    /\ buffer \in [Queue -> Seq(Status)]
    /\ bolt \in States /\ target \in States /\ door \in Doors
    /\ inFlight \in Status \cup {Unread}
    /\ holders \in Seq(Client)
    /\ pc \in [Client -> {"idle", "lock", "command", "settle", "status", "pause"}]
    /\ want \in [Client -> States]
    /\ expected \in States \cup {"none"}
    /\ engaged \in 0..(ApplyTimeout + 1) /\ asked \in 0..(ApplyTimeout + 1)
    /\ closedAgo \in 0..Never /\ openFor \in 0..Never
    /\ reached \in BOOLEAN /\ stale \in BOOLEAN

\* Past the lock is its owner only, and between its command and its answer the
\* actuator has nobody else's orders.
Operating ==
    /\ \A c \in Client : pc[c] \notin {"idle", "lock"} => Owner(c)
    /\ OwnCommand

\* No status that is on its way to the tracker shows the bolt at `state`.
NothingShows(state) ==
    /\ inFlight.bolt # state
    /\ \A i \in 1..Len(buffer[Tracker]) : buffer[Tracker][i].bolt # state

\* As long as the bolt has not been where the last request wanted it, and no
\* status from before is about, the tracker's clock for it runs.
Waiting == ~reached /\ ~stale =>
    /\ expected # "none" /\ engaged = asked
    /\ bolt # expected /\ NothingShows(expected)

\* The polls show the door open since they last showed it closed, or later.
DoorClocks == closedAgo # Never /\ openFor # Never => openFor <= closedAgo

DeadboltInv == Types /\ Operating /\ Waiting /\ DoorClocks

\* A lasting fault is there, and the verdicts on it that were taken are in
\* `told'.
Telling ==
    /\ lasting \subseteq Faults
    /\ probe \in {"idle", "weights", "status"}
    /\ probe = "idle" => lasting = {}
    /\ "leftOpen" \in lasting => "door" \in told
    /\ "stuck" \in lasting /\ probe = "status" => "deadbolt" \in told

HealthInv == DeadboltInv /\ Telling

-----------------------------------------------------------------------------
LEMMA StatusesApart ==
    /\ Tracker \in Queue
    /\ Failed \in Status /\ Unread \notin Status
    /\ \A state \in States : Failed.bolt # state /\ Unread.bolt # state /\ state # "none"
  BY DeadboltAssumption DEF Status, Failed, Unread, States

\* An age grows up to its limit, and stays there: the order of two is kept.
LEMMA OlderBounded ==
    ASSUME NEW limit \in Nat
    PROVE  /\ \A n \in 0..(limit + 1) : Older(n, limit) \in 0..(limit + 1)
           /\ \A n \in 0..(limit + 2) : Older(n, limit) \in 0..(limit + 2)
           /\ \A m, n \in 0..(limit + 1) : m <= n => Older(m, limit) <= Older(n, limit)
           /\ \A n \in 0..(limit + 2) : Older(n, limit) = limit + 2 <=> n = limit + 2
  BY DEF Older

\* put() appends to the tracker's queue, or raises.
LEMMA BroadcastQueues ==
    ASSUME Types, NEW item \in Status, Broadcast(item)
    PROVE  /\ buffer' \in [Queue -> Seq(Status)]
           /\ \/ buffer'[Tracker] = buffer[Tracker]
              \/ buffer'[Tracker] = Append(buffer[Tracker], item)
<1>1. PICK R \in Reached :
        buffer' = [q \in Queue |-> IF q \in R THEN Append(buffer[q], item) ELSE buffer[q]]
  BY DEF Broadcast
<1>2. \A q \in Queue : buffer[q] \in Seq(Status) /\ Append(buffer[q], item) \in Seq(Status)
  BY DEF Types
<1> QED
  BY <1>1, <1>2, StatusesApart

LEMMA TypesKept == Types /\ Operating /\ [DNext \/ MoveDoor]_dvars => Types'
<1> SUFFICES ASSUME Types, Operating, [DNext \/ MoveDoor]_dvars
             PROVE  Types'
  OBVIOUS
<1> USE DeadboltAssumption DEF Types, dvars, pvars, service, queues, world, operation, tracking,
        ghosts, Goto
<1>1. ASSUME NEW c \in Client, NEW s \in States, Request(c, s)
      PROVE  Types'
  BY <1>1 DEF Request
<1>2. ASSUME NEW c \in Client, Begin(c)
      PROVE  Types'
  <2>1. reached' \in BOOLEAN /\ stale' \in BOOLEAN
    BY <1>2, Zenon DEF Begin
  <2> QED
    BY <1>2, <2>1 DEF Begin
<1>3. ASSUME NEW c \in Client, CommandOk(c)
      PROVE  Types'
  BY <1>3 DEF CommandOk
<1>4. ASSUME NEW c \in Client, Leave(c), holders # <<>>, target' \in {target, want[c]},
             UNCHANGED <<pvars, bolt, door, inFlight, tracking, ghosts>>
      PROVE  Types'
  BY <1>4 DEF Leave, States
<1>5. ASSUME NEW c \in Client, Settled(c) \/ Paused(c)
      PROVE  Types'
  BY <1>5 DEF Settled, Paused
<1>6. ASSUME NEW c \in Client, StatusOk(c)
      PROVE  Types'
  <2>0. holders # <<>>
    BY <1>6 DEF StatusOk, Operating, Owner
  <2>1. CASE Leave(c) /\ UNCHANGED nap
    BY <1>6, <2>0, <2>1, <1>4 DEF StatusOk
  <2>2. CASE Goto(c, "pause") /\ UNCHANGED <<holders, want, spent>>
    BY <1>6, <2>2 DEF StatusOk
  <2> QED
    BY <1>6, <2>1, <2>2 DEF StatusOk
<1>7. CASE PollingStep
  BY <1>7 DEF PollingStep, BeginPoll, Pause
<1>8. CASE Measure
  BY <1>8 DEF Measure, Status
<1>9. CASE Deliver
  BY <1>9, BroadcastQueues DEF Deliver, Broadcast
<1>10. CASE PollFails
  BY <1>10, BroadcastQueues, StatusesApart DEF PollFails, Broadcast
<1>11. CASE Track
  <2>1. buffer' \in [Queue -> Seq(Status)]
    BY <1>11, StatusesApart DEF Track
  <2>2. closedAgo' \in {0, closedAgo} /\ openFor' \in {0, openFor, Never}
    BY <1>11 DEF Track
  <2>3. expected' \in {"none", expected} /\ engaged' \in {0, engaged}
    BY <1>11 DEF Track
  <2> QED
    BY <1>11, <2>1, <2>2, <2>3 DEF Track, Never
<1>12. CASE Actuate
  <2>1. reached' \in BOOLEAN
    BY <1>12, Zenon DEF Actuate
  <2> QED
    BY <1>12, <2>1 DEF Actuate
<1>13. CASE Tick
  <2>1. engaged' \in {0, Older(engaged, ApplyTimeout)} /\ asked' = Older(asked, ApplyTimeout)
        /\ closedAgo' = Older(closedAgo, DoorLimit) /\ openFor' = Older(openFor, DoorLimit)
    BY <1>13 DEF Tick
  <2>2. /\ Older(engaged, ApplyTimeout) \in 0..(ApplyTimeout + 1)
        /\ Older(asked, ApplyTimeout) \in 0..(ApplyTimeout + 1)
        /\ Older(closedAgo, DoorLimit) \in 0..Never
        /\ Older(openFor, DoorLimit) \in 0..Never
    BY OlderBounded DEF Never
  <2>3. 0 \in 0..(ApplyTimeout + 1)
    OBVIOUS
  <2> QED
    BY <1>13, <2>1, <2>2, <2>3 DEF Tick
<1>14. CASE MoveDoor
  BY <1>14 DEF MoveDoor
<1>15. CASE UNCHANGED dvars
  BY <1>15
<1>16. ASSUME NEW c \in Client, CommandFails(c) \/ StatusFails(c)
      PROVE  Types'
  <2>1. Owner(c)
    BY <1>16 DEF CommandFails, StatusFails, Operating
  <2>2. Leave(c) /\ target' \in {target, want[c]}
        /\ UNCHANGED <<pvars, bolt, door, inFlight, tracking, ghosts>>
    BY <1>16 DEF CommandFails, StatusFails
  <2> QED
    BY <2>1, <2>2, <1>4 DEF Owner
<1> QED
  BY <1>1, <1>2, <1>3, <1>5, <1>6, <1>7, <1>8, <1>9, <1>10, <1>11, <1>12, <1>13, <1>14, <1>15, <1>16
     DEF DNext, OperationStep

-----------------------------------------------------------------------------
\* Who comes last does not take the lock from its owner.
LEMMA OwnerStays ==
    ASSUME Types, NEW c \in Client, Owner(c), NEW d \in Client, holders' = Append(holders, d)
    PROVE  Owner(c)'
<1>1. holders \in Seq(Client) /\ holders # <<>> /\ Head(holders) = c
  BY DEF Types, Owner
<1>2. Append(holders, d) # <<>> /\ Head(Append(holders, d)) = Head(holders)
  BY <1>1
<1> QED
  BY <1>1, <1>2 DEF Owner

\* Past the lock is one task at a time.
LEMMA OneOperation ==
    ASSUME Operating, NEW c \in Client, NEW d \in Client,
           pc[c] \notin {"idle", "lock"}, Owner(d)
    PROVE  c = d
  BY DEF Operating, Owner

LEMMA OperatingKept == Types /\ Operating /\ [DNext \/ MoveDoor]_dvars => Operating'
<1> SUFFICES ASSUME Types, Operating, [DNext \/ MoveDoor]_dvars
             PROVE  Operating'
  OBVIOUS
<1>1. ASSUME NEW c \in Client, NEW s \in States, Request(c, s)
      PROVE  Operating'
  <2>1. \A d \in Client : Owner(d) => Owner(d)'
    BY <1>1, OwnerStays DEF Request
  <2>2. \A d \in Client : d # c => pc'[d] = pc[d] /\ want'[d] = want[d]
    BY <1>1 DEF Request, Goto, Types
  <2>3. pc'[c] = "lock" /\ target' = target
    BY <1>1 DEF Request, Goto, Types, world
  <2> QED
    BY <2>1, <2>2, <2>3 DEF Operating, OwnCommand
<1>2. ASSUME NEW c \in Client, Begin(c) \/ CommandOk(c) \/ Settled(c) \/ Paused(c)
      PROVE  Operating'
  <2>1. Owner(c) /\ UNCHANGED <<holders, want>>
    BY <1>2 DEF Begin, CommandOk, Settled, Paused, Operating
  <2>2. \A d \in Client : d # c => pc'[d] = pc[d] /\ pc[d] \in {"idle", "lock"}
    BY <1>2, <2>1, OneOperation DEF Begin, CommandOk, Settled, Paused, Goto, Types
  <2>3. \/ pc'[c] = "command"
        \/ pc'[c] = "settle" /\ target' = want[c]
        \/ pc'[c] = "status" /\ target' = target /\ pc[c] \in {"settle", "pause"}
    BY <1>2 DEF Begin, CommandOk, Settled, Paused, Goto, Types, world
  <2> QED
    BY <2>1, <2>2, <2>3 DEF Operating, OwnCommand, Owner
<1>3. ASSUME NEW c \in Client, Owner(c), Leave(c)
      PROVE  Operating'
  <2>1. \A d \in Client : pc'[d] \in {"idle", "lock"}
    BY <1>3, OneOperation DEF Leave, Goto, Types
  <2> QED
    BY <2>1 DEF Operating, OwnCommand
<1>4. ASSUME NEW c \in Client, StatusOk(c), ~Leave(c)
      PROVE  Operating'
  <2>1. pc[c] = "status" /\ pc' = [pc EXCEPT ![c] = "pause"] /\ UNCHANGED <<holders, want, target>>
    BY <1>4 DEF StatusOk, Goto, world
  <2> QED
    BY <2>1 DEF Operating, OwnCommand, Owner, Types
<1>5. ASSUME NEW c \in Client, CommandFails(c) \/ StatusOk(c) \/ StatusFails(c)
      PROVE  Owner(c)
  BY <1>5 DEF CommandFails, StatusOk, StatusFails, Operating
<1>6. CASE UNCHANGED <<holders, pc, want, target>>
  BY <1>6 DEF Operating, OwnCommand, Owner
<1>7. (PollingStep \/ Measure \/ Deliver \/ PollFails \/ Track \/ Actuate \/ Tick
        \/ MoveDoor \/ UNCHANGED dvars)
      => UNCHANGED <<holders, pc, want, target>>
  BY DEF PollingStep, Measure, Deliver, PollFails, Track, Actuate, Tick, MoveDoor, dvars,
         operation, world
<1>8. ASSUME NEW c \in Client, CommandFails(c) \/ StatusFails(c)
      PROVE  Leave(c)
  BY <1>8 DEF CommandFails, StatusFails
<1> QED
  BY <1>1, <1>2, <1>3, <1>4, <1>5, <1>6, <1>7, <1>8 DEF DNext, OperationStep

-----------------------------------------------------------------------------
LEMMA TailShifts ==
    ASSUME NEW X, NEW s \in Seq(X), s # <<>>
    PROVE  \A i \in 1..Len(Tail(s)) : i + 1 \in 1..Len(s) /\ Tail(s)[i] = s[i + 1]
<1>1. Len(s) \in Nat /\ Len(Tail(s)) = Len(s) - 1
  OBVIOUS
<1> QED
  BY <1>1

\* What is in a queue after an item is put at its end.
LEMMA AppendAdds ==
    ASSUME NEW X, NEW s \in Seq(X), NEW x \in X
    PROVE  \A i \in 1..Len(Append(s, x)) :
             Append(s, x)[i] = x \/ (i \in 1..Len(s) /\ Append(s, x)[i] = s[i])
<1>1. Len(s) \in Nat /\ Len(Append(s, x)) = Len(s) + 1
  OBVIOUS
<1>2. Append(s, x)[Len(s) + 1] = x
  OBVIOUS
<1>3. \A i \in 1..Len(s) : Append(s, x)[i] = s[i]
  OBVIOUS
<1>4. \A i \in 1..(Len(s) + 1) : i \in 1..Len(s) \/ i = Len(s) + 1
  BY <1>1
<1> QED
  BY <1>1, <1>2, <1>3, <1>4, Zenon

\* What Waiting speaks of.
watched == <<buffer, bolt, inFlight, expected, engaged, asked, reached, stale>>

LEMMA WaitingKept == Types /\ Waiting /\ [DNext \/ MoveDoor]_dvars => Waiting'
<1> SUFFICES ASSUME Types, Waiting, [DNext \/ MoveDoor]_dvars, ~reached', ~stale'
             PROVE  /\ expected' # "none" /\ engaged' = asked'
                    /\ bolt' # expected' /\ NothingShows(expected)'
  BY DEF Waiting
<1> DEFINE Goal == /\ expected' # "none" /\ engaged' = asked'
                   /\ bolt' # expected' /\ NothingShows(expected)'
<1> USE StatusesApart
<1>1. ASSUME NEW c \in Client, Begin(c)
      PROVE  Goal
  <2>1. expected' = want[c] /\ want[c] \in States /\ engaged' = 0 /\ asked' = 0
    BY <1>1 DEF Begin, Types
  <2>2. bolt # want[c] /\ inFlight = Unread /\ buffer[Tracker] = <<>>
    BY <1>1, Zenon DEF Begin
  <2>3. UNCHANGED <<bolt, inFlight, buffer>>
    BY <1>1 DEF Begin, world, pvars, queues
  <2> QED
    BY <2>1, <2>2, <2>3 DEF NothingShows
<1>2. ASSUME UNCHANGED <<reached, stale>>
      PROVE  /\ expected # "none" /\ engaged = asked
             /\ bolt # expected /\ NothingShows(expected)
  BY <1>2 DEF Waiting
<1>3. CASE Measure
  <2>1. UNCHANGED <<reached, stale, expected, engaged, asked, bolt, buffer>>
        /\ inFlight'.bolt = bolt
    BY <1>3 DEF Measure, ghosts, tracking, pvars, queues
  <2> QED
    BY <1>2, <2>1 DEF NothingShows
<1>4. ASSUME NEW item \in Status, Broadcast(item), item.bolt # expected, inFlight' = Unread,
             UNCHANGED <<bolt, tracking, ghosts>>
      PROVE  Goal
  <2>1. UNCHANGED <<reached, stale, expected, engaged, asked, bolt>>
    BY <1>4 DEF ghosts, tracking
  <2>2. buffer[Tracker] \in Seq(Status)
    BY DEF Types
  <2>3. \A i \in 1..Len(buffer'[Tracker]) :
          \/ buffer'[Tracker][i].bolt = item.bolt
          \/ i \in 1..Len(buffer[Tracker]) /\ buffer'[Tracker][i] = buffer[Tracker][i]
    <3>1. CASE buffer'[Tracker] = buffer[Tracker]
      BY <3>1, Zenon
    <3>2. CASE buffer'[Tracker] = Append(buffer[Tracker], item)
      <4>1. \A i \in 1..Len(buffer'[Tracker]) :
              \/ buffer'[Tracker][i] = item
              \/ i \in 1..Len(buffer[Tracker]) /\ buffer'[Tracker][i] = buffer[Tracker][i]
        BY <2>2, <3>2, AppendAdds
      <4> QED
        BY <4>1, Zenon
    <3>3. \/ buffer'[Tracker] = buffer[Tracker]
          \/ buffer'[Tracker] = Append(buffer[Tracker], item)
      BY <1>4, BroadcastQueues
    <3> QED
      BY <3>1, <3>2, <3>3
  <2>4. expected \in States
    BY <1>2, <2>1 DEF Types
  <2> QED
    BY <1>2, <1>4, <2>1, <2>3, <2>4 DEF NothingShows
<1>5. CASE Deliver
  <2>1. inFlight \in Status /\ Broadcast(inFlight) /\ inFlight' = Unread
        /\ UNCHANGED <<bolt, tracking, ghosts>>
    BY <1>5 DEF Deliver, Types
  <2>2. inFlight.bolt # expected
    BY <1>2, <2>1 DEF ghosts, NothingShows
  <2> QED
    BY <1>4, <2>1, <2>2
<1>6. CASE PollFails
  <2>1. Broadcast(Failed) /\ inFlight' = Unread /\ UNCHANGED <<bolt, tracking, ghosts>>
    BY <1>6 DEF PollFails
  <2>2. Failed.bolt # expected
    BY <1>2, <2>1 DEF ghosts, Types
  <2> QED
    BY <1>4, <2>1, <2>2
<1>7. CASE Track
  <2>1. UNCHANGED <<reached, stale, asked, bolt, inFlight>> /\ buffer[Tracker] # <<>>
        /\ buffer' = [buffer EXCEPT ![Tracker] = Tail(@)]
    BY <1>7 DEF Track, world
  <2>2. buffer[Tracker] \in Seq(Status) /\ buffer'[Tracker] = Tail(buffer[Tracker])
    BY <2>1 DEF Types
  <2>3. Head(buffer[Tracker]) = buffer[Tracker][1] /\ 1 \in 1..Len(buffer[Tracker])
    BY <2>1, <2>2
  <2>4. ~Settles(Head(buffer[Tracker]))
    BY <1>2, <2>1, <2>3 DEF Settles, NothingShows
  <2>5. UNCHANGED <<expected, engaged>>
    BY <1>7, <2>4 DEF Track
  <2>6. \A i \in 1..Len(buffer'[Tracker]) :
          i + 1 \in 1..Len(buffer[Tracker]) /\ buffer'[Tracker][i] = buffer[Tracker][i + 1]
    BY <2>1, <2>2, TailShifts
  <2> QED
    BY <1>2, <2>1, <2>5, <2>6 DEF NothingShows
<1>8. CASE Actuate
  <2>1. ~reached /\ bolt' # expected
    BY <1>8, Zenon DEF Actuate
  <2>2. UNCHANGED <<stale, asked, engaged, expected, inFlight, buffer>>
    BY <1>8 DEF Actuate, tracking, pvars, queues
  <2> QED
    BY <2>1, <2>2 DEF Waiting, NothingShows
<1>9. CASE Tick
  <2>1. UNCHANGED <<reached, stale, expected, bolt, inFlight, buffer>>
        /\ asked' = Older(asked, ApplyTimeout)
        /\ engaged' = IF expected = "none" THEN 0 ELSE Older(engaged, ApplyTimeout)
    BY <1>9 DEF Tick, world, pvars, queues
  <2> QED
    BY <1>2, <2>1 DEF NothingShows
<1>10. ASSUME UNCHANGED watched
       PROVE  Goal
  BY <1>2, <1>10 DEF watched, NothingShows
<1>11. ASSUME NEW c \in Client, \/ CommandOk(c) \/ CommandFails(c) \/ Settled(c) \/ StatusOk(c)
                               \/ StatusFails(c) \/ Paused(c) \/ \E s \in States : Request(c, s)
       PROVE  UNCHANGED watched
  BY <1>11 DEF watched, CommandOk, CommandFails, Settled, StatusOk, StatusFails, Paused, Request,
               pvars, queues, world, tracking, ghosts
<1>12. PollingStep \/ MoveDoor \/ UNCHANGED dvars => UNCHANGED watched
  BY DEF watched, PollingStep, BeginPoll, Pause, MoveDoor, dvars, pvars, queues, world, tracking,
         ghosts
<1> QED
  BY <1>1, <1>3, <1>5, <1>6, <1>7, <1>8, <1>9, <1>10, <1>11, <1>12 DEF DNext, OperationStep

-----------------------------------------------------------------------------
LEMMA DoorClocksKept == Types /\ DoorClocks /\ [DNext \/ MoveDoor]_dvars => DoorClocks'
<1> SUFFICES ASSUME Types, DoorClocks, [DNext \/ MoveDoor]_dvars
             PROVE  DoorClocks'
  OBVIOUS
<1> USE DeadboltAssumption
<1>1. CASE Track
  <2>1. \/ closedAgo' = 0 /\ openFor' = Never
        \/ closedAgo' = closedAgo /\ openFor' \in {0, openFor}
    BY <1>1 DEF Track, ShowsClosed
  <2> QED
    BY <2>1 DEF DoorClocks, Types, Never
<1>2. CASE Tick
  <2>1. closedAgo' = Older(closedAgo, DoorLimit) /\ openFor' = Older(openFor, DoorLimit)
    BY <1>2 DEF Tick
  <2>2. ASSUME closedAgo' # Never, openFor' # Never
        PROVE  /\ closedAgo \in 0..(DoorLimit + 1) /\ openFor \in 0..(DoorLimit + 1)
               /\ openFor <= closedAgo
    BY <2>1, <2>2, OlderBounded DEF DoorClocks, Types, Never
  <2> QED
    BY <2>1, <2>2, OlderBounded DEF DoorClocks
<1>3. CASE UNCHANGED <<closedAgo, openFor>>
  BY <1>3 DEF DoorClocks
<1>4. ASSUME NEW c \in Client, OperationStep(c) \/ \E s \in States : Request(c, s)
      PROVE  UNCHANGED <<closedAgo, openFor>>
  BY <1>4 DEF OperationStep, Begin, CommandOk, CommandFails, Settled, StatusOk, StatusFails, Paused,
              Request, tracking, ghosts
<1>5. (PollingStep \/ Measure \/ Deliver \/ PollFails \/ Actuate \/ MoveDoor \/ UNCHANGED dvars)
      => UNCHANGED <<closedAgo, openFor>>
  BY DEF PollingStep, Measure, Deliver, PollFails, Actuate, MoveDoor, dvars, tracking, ghosts
<1> QED
  BY <1>1, <1>2, <1>3, <1>4, <1>5 DEF DNext

-----------------------------------------------------------------------------
LEMMA DeadboltInit == DInit => DeadboltInv
<1> SUFFICES ASSUME DInit
             PROVE  DeadboltInv
  OBVIOUS
<1> USE DeadboltAssumption, StatusesApart DEF DInit
<1>1. <<>> \in Seq(Status) /\ <<>> \in Seq(Client)
  OBVIOUS
<1>2. Types
  <2>1. buffer \in [Queue -> Seq(Status)] /\ holders \in Seq(Client)
    BY <1>1
  <2>2. /\ pc \in [Client -> {"idle", "lock", "command", "settle", "status", "pause"}]
        /\ want \in [Client -> States]
    BY DEF States
  <2>3. /\ engaged \in 0..(ApplyTimeout + 1) /\ asked \in 0..(ApplyTimeout + 1)
        /\ closedAgo \in 0..Never /\ openFor \in 0..Never
    BY DEF Never
  <2> QED
    BY <2>1, <2>2, <2>3 DEF Types
<1>3. Operating
  BY DEF Operating, OwnCommand
<1>4. Waiting
  BY DEF Waiting
<1>5. DoorClocks
  BY DEF DoorClocks
<1> QED
  BY <1>2, <1>3, <1>4, <1>5 DEF DeadboltInv

LEMMA DeadboltKept == DeadboltInv /\ [DNext \/ MoveDoor]_dvars => DeadboltInv'
  BY TypesKept, OperatingKept, WaitingKept, DoorClocksKept DEF DeadboltInv

\* What the invariant says of the two verdicts of the tracker.
LEMMA TrackerReports == DeadboltInv => StuckBoltReported /\ OpenDoorReported
<1> SUFFICES ASSUME DeadboltInv
             PROVE  StuckBoltReported /\ OpenDoorReported
  OBVIOUS
<1>1. StuckBoltReported
  BY DEF DeadboltInv, Waiting, StuckBoltReported, DeadboltInError
<1>2. OpenDoorReported
  BY DeadboltAssumption DEF DeadboltInv, DoorClocks, Types, OpenDoorReported, DoorInError, Never
<1> QED
  BY <1>1, <1>2

\* Between its command and its answer the operation of a task has the deadbolt
\* for itself, for any number of tasks that serve POST /deadbolt.
THEOREM OwnCommandHolds == DSafety => []OwnCommand
<1>1. DInit => DeadboltInv
  BY DeadboltInit
<1>2. DeadboltInv /\ [DNext]_dvars => DeadboltInv'
  BY DeadboltKept
<1>3. DeadboltInv => OwnCommand
  BY DEF DeadboltInv, Operating
<1> QED
  BY <1>1, <1>2, <1>3, PTL DEF DSafety

-----------------------------------------------------------------------------
LEMMA FaultsMean ==
    /\ "stuck" \in Faults <=> Stuck
    /\ "lockedOpen" \in Faults <=> LockedOpen
    /\ "leftOpen" \in Faults <=> LeftOpen
  BY DEF Faults

\* A fault the tracker knows of when get_health asks for its verdict is found.
LEMMA TrackerFinds ==
    ASSUME DeadboltInv
    PROVE  /\ "leftOpen" \in Faults => DoorInError
           /\ "stuck" \in Faults => DeadboltInError
  BY FaultsMean, TrackerReports DEF StuckBoltReported, OpenDoorReported, Stuck, LeftOpen

\* What get_health keeps to itself while the world stands still.
LEMMA StandingStill == UNCHANGED dvars => Faults' = Faults
<1> SUFFICES ASSUME UNCHANGED dvars
             PROVE  Faults' = Faults
  OBVIOUS
<1>1. UNCHANGED <<bolt, door, closedAgo, asked, reached, stale, openFor>>
  BY DEF dvars, world, tracking, ghosts
<1>2. Stuck' = Stuck /\ LockedOpen' = LockedOpen /\ LeftOpen' = LeftOpen
  BY <1>1, Zenon DEF Stuck, LockedOpen, LeftOpen
<1> QED
  BY <1>2, Zenon DEF Faults

LEMMA TellingKept == DeadboltInv /\ Telling /\ [HNext]_hvars => Telling'
<1> SUFFICES ASSUME DeadboltInv, Telling, [HNext]_hvars
             PROVE  Telling'
  OBVIOUS
<1> USE DEF Telling
<1>1. CASE Meanwhile
  <2>1. lasting' \subseteq lasting /\ lasting' \subseteq Faults' /\ UNCHANGED <<probe, told>>
    BY <1>1 DEF Meanwhile
  <2> QED
    BY <2>1
<1>2. CASE Ask
  <2>1. lasting' = Faults' /\ probe' = "weights"
    BY <1>2, StandingStill DEF Ask
  <2>2. "leftOpen" \in Faults => told' = {"door"}
    BY <1>2, TrackerFinds DEF Ask
  <2> QED
    BY <1>2, <2>1, <2>2 DEF Ask
<1>3. CASE WeightsCome
  <2>1. lasting' = lasting /\ Faults' = Faults /\ probe' = "status"
    BY <1>3, StandingStill DEF WeightsCome
  <2>2. told \subseteq told' /\ ("stuck" \in lasting => "deadbolt" \in told')
    BY <1>3, TrackerFinds DEF WeightsCome
  <2> QED
    BY <2>1, <2>2
<1>4. ASSUME NEW v, Tell(v), told \subseteq v, LockedOpen => "deadbolt" \in v, probe = "status"
      PROVE  Telling'
  <2>1. \A f \in lasting : About(f) \in v
    <3>1. lasting \subseteq {"stuck", "lockedOpen", "leftOpen"}
      BY DEF Faults
    <3>2. About("leftOpen") = "door" /\ About("stuck") = "deadbolt" /\ About("lockedOpen") = "deadbolt"
      BY DEF About
    <3>3. "lockedOpen" \in lasting => "deadbolt" \in v
      BY <1>4, FaultsMean
    <3> QED
      BY <1>4, <3>1, <3>2, <3>3
  <2>2. lasting' = {} /\ probe' = "idle"
    BY <1>4, <2>1 DEF Tell
  <2> QED
    BY <2>2
<1>5. CASE StatusComes
  BY <1>4, <1>5 DEF StatusComes
<1>6. CASE StatusMissing
  BY <1>4, <1>6 DEF StatusMissing
<1>7. CASE UNCHANGED hvars
  BY <1>7, StandingStill DEF hvars
<1> QED
  BY <1>1, <1>2, <1>3, <1>5, <1>6, <1>7 DEF HNext, HealthStep

LEMMA HealthInvariant == HSafety => []HealthInv
<1>1. HInit => HealthInv
  BY DeadboltInit DEF HInit, HealthInv, Telling
<1>2. [HNext]_hvars => [DNext \/ MoveDoor]_dvars
  BY DEF HNext, Meanwhile, HealthStep, Ask, WeightsCome, StatusComes, StatusMissing, Tell, hvars
<1>3. HealthInv /\ [HNext]_hvars => HealthInv'
  BY <1>2, DeadboltKept, TellingKept DEF HealthInv
<1> QED
  BY <1>1, <1>3, PTL DEF HSafety

\* A bolt that does not get where the last request wanted it in time is in the
\* tracker as an error, whatever polls fail or come late, unless a status from
\* before the request was about.
THEOREM StuckBoltReportedHolds == HSafety => []StuckBoltReported
<1>1. HealthInv => StuckBoltReported
  BY TrackerReports DEF HealthInv
<1> QED
  BY <1>1, HealthInvariant, PTL

\* A door the polls have shown closed, and then open beyond the limit, is in the
\* tracker as an error, also while polls fail.
THEOREM OpenDoorReportedHolds == HSafety => []OpenDoorReported
<1>1. HealthInv => OpenDoorReported
  BY TrackerReports DEF HealthInv
<1> QED
  BY <1>1, HealthInvariant, PTL

\* GET /health tells every fault that lasts from the question to the answer,
\* although it takes its verdicts at three moments with the world going on in
\* between.
THEOREM LastingFaultsToldHolds == HSafety => []LastingFaultsTold
<1>1. HealthInv => LastingFaultsTold
  BY DEF HealthInv, Telling, LastingFaultsTold
<1> QED
  BY <1>1, HealthInvariant, PTL
=============================================================================
