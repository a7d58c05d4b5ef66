------------------------------- MODULE Deadbolt -------------------------------
(***************************************************************************)
(* The deadbolt: POST /deadbolt (api/v1/routers/machine.py), one operation *)
(* at a time from the command to the confirmation by the sensor; the       *)
(* tracker of services/error_state_mgmt.py, fed by the polling of the IO   *)
(* status; and the verdicts on deadbolt and door that GET /health reads    *)
(* off the tracker.  Bolt and door are the environment; nothing here turns *)
(* on the door, and who moves it comes in Health.                          *)
(*                                                                         *)
(* The tracker's task takes a poll before the clock moves on, so a poll is *)
(* as old as its timestamp when it is taken.                               *)
(***************************************************************************)
EXTENDS Polling

CONSTANTS Client,         \* tasks that serve POST /deadbolt
          Tracker,        \* the StreamQueue of the tracker
          Settle,         \* DEADBOLT_SETTLE_SECONDS, in ticks
          StatusPause,    \* DEADBOLT_STATUS_POLL_SECONDS
          Doors,          \* the states of the door that occur
          ApplyTimeout,   \* deadbolt_apply_timeout_seconds
          DoorLimit       \* door_open_error_seconds

ASSUME DeadboltAssumption ==
    /\ Queue = {Tracker} /\ Doors \subseteq {"OPENED", "CLOSED"}
    /\ Settle \in Nat \ {0} /\ StatusPause \in Nat \ {0}
    /\ ApplyTimeout \in Nat /\ DoorLimit \in Nat

States == {"UNLOCK", "LOCKED"}      \* DeadboltState; actions are named by their goal

VARIABLES
    bolt, door,   \* what the sensors see
    target,       \* where the actuator was told to go
    inFlight,     \* the status the board measured for the poll, or Unread
    holders,      \* deadbolt_operation_lock: its owner, then its waiters
    pc, want,     \* of each task: where it stands, and the state it asks for
    nap,          \* ticks left of its sleep
    spent,        \* ticks since the settle time, up to ApplyTimeout
    expected,     \* deadbolt_engaged_state
    engaged,      \* ticks since deadbolt_engaged_time, up to ApplyTimeout + 1
    closedAgo,    \* ticks since door_last_closed_time, up to DoorLimit + 1; or Never
    asked,        \* ghost: ticks since the last request was recorded, likewise
    reached,      \* ghost: the bolt was where that request wanted it since
    stale,        \* ghost: a status from before that request was on its way
    openFor       \* ghost: ticks since the polls show the door open; or Never

world     == <<bolt, door, target, inFlight>>
operation == <<holders, pc, want, nap, spent>>
tracking  == <<expected, engaged, closedAgo>>
ghosts    == <<asked, reached, stale, openFor>>
dvars     == <<pvars, world, operation, tracking, ghosts>>

Unread == [door |-> "unread", bolt |-> "unread"]
Failed == [door |-> "failed", bolt |-> "failed"]
Never  == DoorLimit + 2

Owner(c) == holders # <<>> /\ Head(holders) = c

\* deadbolt_error and door_error, which are FALSE for an error.
DeadboltInError == expected # "none" /\ engaged > ApplyTimeout
DoorInError     == closedAgo # Never /\ closedAgo > DoorLimit

-----------------------------------------------------------------------------
\* After lifespan has started the services.
DInit ==
    /\ running = TRUE /\ loop = "start" /\ awake = TRUE /\ subscribers = {Tracker}
    /\ buffer = [q \in Queue |-> <<>>] /\ shut = {}
    /\ bolt \in States /\ door \in Doors /\ target = bolt /\ inFlight = Unread
    /\ holders = <<>> /\ pc = [c \in Client |-> "idle"]
    /\ want = [c \in Client |-> "LOCKED"] /\ nap = 0 /\ spent = 0
    /\ expected = "none" /\ engaged = 0 /\ closedAgo = Never
    /\ asked = 0 /\ reached = TRUE /\ stale = FALSE /\ openFor = Never

Goto(c, place) == pc' = [pc EXCEPT ![c] = place]

Request(c, state) ==
    /\ pc[c] = "idle"
    /\ holders' = Append(holders, c)
    /\ want' = [want EXCEPT ![c] = state]
    /\ Goto(c, "lock")
    /\ UNCHANGED <<pvars, world, nap, spent, tracking, ghosts>>

\* Mutant: an operation does not wait for the one before it.
BeginAtOnce(c) ==
    /\ pc[c] = "lock"
    /\ Goto(c, "command")
    /\ expected' = want[c] /\ engaged' = 0
    /\ asked' = 0 /\ reached' = (bolt = want[c]) /\ stale' = (inFlight # Unread \/ buffer[Tracker] # <<>>)
    /\ UNCHANGED <<pvars, world, holders, want, nap, spent, closedAgo, openFor>>

\* The lock is taken, set_deadbolt_action records the request, and the command
\* queues for the serial line.
Begin(c) ==
    /\ pc[c] = "lock" /\ Owner(c)
    /\ Goto(c, "command")
    /\ expected' = want[c] /\ engaged' = 0
    /\ asked' = 0 /\ reached' = (bolt = want[c]) /\ stale' = (inFlight # Unread \/ buffer[Tracker] # <<>>)
    /\ UNCHANGED <<pvars, world, holders, want, nap, spent, closedAgo, openFor>>

CommandOk(c) ==
    /\ pc[c] = "command"
    /\ target' = want[c]
    /\ nap' = Settle
    /\ Goto(c, "settle")
    /\ UNCHANGED <<pvars, bolt, door, inFlight, holders, want, spent, tracking, ghosts>>

\* The owner leaves the lock, which goes to the first waiter, and the handler: the
\* locals of the call are gone.
Leave(c) ==
    /\ holders' = Tail(holders)
    /\ Goto(c, "idle")
    /\ want' = [want EXCEPT ![c] = "LOCKED"]
    /\ spent' = 0

\* Mutant: the lock stays with a task that failed.
CommandFailsLocked(c) ==
    /\ pc[c] = "command"
    /\ target' \in {target, want[c]}
    /\ Goto(c, "idle")
    /\ want' = [want EXCEPT ![c] = "LOCKED"] /\ spent' = 0
    /\ UNCHANGED <<pvars, bolt, door, inFlight, holders, nap, tracking, ghosts>>

\* The exception leaves the lock and the handler; the tracker keeps the request.
\* The board may have got the command all the same.
CommandFails(c) ==
    /\ pc[c] = "command"
    /\ target' \in {target, want[c]}
    /\ Leave(c)
    /\ UNCHANGED <<pvars, bolt, door, inFlight, nap, tracking, ghosts>>

Settled(c) ==
    /\ pc[c] = "settle" /\ nap = 0
    /\ spent' = 0
    /\ Goto(c, "status")
    /\ UNCHANGED <<pvars, world, holders, want, nap, tracking, ghosts>>

\* get_status(): the sensor confirms, or time is up, or once more.
StatusOk(c) ==
    /\ pc[c] = "status"
    /\ IF bolt = want[c] \/ spent >= ApplyTimeout
       THEN Leave(c) /\ UNCHANGED nap
       ELSE Goto(c, "pause") /\ nap' = StatusPause /\ UNCHANGED <<holders, want, spent>>
    /\ UNCHANGED <<pvars, world, tracking, ghosts>>

StatusFails(c) ==
    /\ pc[c] = "status"
    /\ Leave(c)
    /\ UNCHANGED <<pvars, world, nap, tracking, ghosts>>

Paused(c) ==
    /\ pc[c] = "pause" /\ nap = 0
    /\ Goto(c, "status")
    /\ UNCHANGED <<pvars, world, holders, want, nap, spent, tracking, ghosts>>

OperationStep(c) == \/ Begin(c) \/ CommandOk(c) \/ CommandFails(c) \/ Settled(c)
                    \/ StatusOk(c) \/ StatusFails(c) \/ Paused(c)

-----------------------------------------------------------------------------
\* The poll: the board measures, and the answer arrives, or an error does.
Measure ==
    /\ loop = "fetch" /\ inFlight = Unread
    /\ inFlight' = [door |-> door, bolt |-> bolt]
    /\ UNCHANGED <<pvars, bolt, door, target, operation, tracking, ghosts>>

Deliver ==
    /\ inFlight # Unread
    /\ Broadcast(inFlight)
    /\ inFlight' = Unread
    /\ UNCHANGED <<bolt, door, target, operation, tracking, ghosts>>

PollFails ==
    /\ Broadcast(Failed)
    /\ inFlight' = Unread
    /\ UNCHANGED <<bolt, door, target, operation, tracking, ghosts>>

\* Mutants: the request stays recorded; it is settled by any status.
NeverSettles(status) == FALSE
AlwaysSettles(status) == status # Failed

Settles(status) == status.bolt = expected

\* Mutant: any status refreshes the time.
AnyStatus(status) == status # Failed

ShowsClosed(status) == status.door = "CLOSED"

\* _loop of the tracker takes a poll; one that failed raises, and is logged.
Track ==
    /\ buffer[Tracker] # <<>>
    /\ buffer' = [buffer EXCEPT ![Tracker] = Tail(@)]
    /\ LET status == Head(buffer[Tracker]) IN
       /\ closedAgo' = IF ShowsClosed(status) THEN 0 ELSE closedAgo
       /\ expected' = IF Settles(status) THEN "none" ELSE expected
       /\ engaged' = IF Settles(status) THEN 0 ELSE engaged
       /\ openFor' = CASE status.door = "CLOSED" -> Never
                       [] status.door = "OPENED" /\ openFor = Never -> 0
                       [] OTHER -> openFor
    /\ UNCHANGED <<service, shut, world, operation, asked, reached, stale>>

PollingStep == (BeginPoll \/ Pause) /\ UNCHANGED <<world, operation, tracking, ghosts>>

-----------------------------------------------------------------------------
\* The actuator gets where it was told to go, late perhaps, or never.
Actuate ==
    /\ bolt # target
    /\ bolt' = target
    /\ reached' = (reached \/ (bolt' = expected))
    /\ UNCHANGED <<pvars, door, target, inFlight, operation, tracking, asked, stale, openFor>>

Older(n, limit) == IF n > limit THEN n ELSE n + 1

Confirming == \E c \in Client : pc[c] \in {"status", "pause"}

Tick ==
    /\ buffer[Tracker] = <<>>
    /\ nap' = IF nap > 0 THEN nap - 1 ELSE 0
    /\ spent' = IF Confirming /\ spent < ApplyTimeout THEN spent + 1 ELSE spent
    /\ engaged' = IF expected = "none" THEN 0 ELSE Older(engaged, ApplyTimeout)
    /\ closedAgo' = Older(closedAgo, DoorLimit)
    /\ asked' = Older(asked, ApplyTimeout)
    /\ openFor' = Older(openFor, DoorLimit)
    /\ UNCHANGED <<pvars, world, holders, pc, want, expected, reached, stale>>

DNext == \/ \E c \in Client : \/ OperationStep(c)
                              \/ \E s \in States : Request(c, s)
         \/ PollingStep \/ Measure \/ Deliver \/ PollFails \/ Track
         \/ Actuate \/ Tick

DSafety == DInit /\ [][DNext]_dvars

\* Exchanges with the board end (Returns of SerialIO), the clock moves on, and
\* the line works again and again.
DSpec == /\ DSafety
         /\ \A c \in Client : WF_dvars(OperationStep(c))
         /\ WF_dvars(PollingStep) /\ SF_dvars(Measure) /\ SF_dvars(Deliver)
         /\ WF_dvars(Track) /\ SF_dvars(Tick)

-----------------------------------------------------------------------------
\* From its command to its answer an operation has the deadbolt for itself: the
\* state that confirms it, or fails to, is not another request's.
OwnCommand == \A c \in Client :
    pc[c] \in {"settle", "status", "pause"} => target = want[c]

\* A bolt that has not been where the last request wanted it is reported when
\* the time for it is over, except that a status measured before the request
\* may be taken for its effect.
StuckBoltReported == asked > ApplyTimeout /\ ~reached /\ ~stale => DeadboltInError

\* The comment at the head of error_state_mgmt.py has no exception.
EveryStuckBoltReported == asked > ApplyTimeout /\ ~reached => DeadboltInError

\* A door that the polls have shown closed once, and then open for longer than
\* the limit, is reported, failed polls or not.
OpenDoorReported == closedAgo # Never /\ openFor # Never /\ openFor > DoorLimit => DoorInError

\* Every POST /deadbolt is answered: the wait for the sensor is bounded, and the
\* lock is passed on after failures too.
Answered == \A c \in Client : pc[c] # "idle" ~> pc[c] = "idle"

\* A bolt that has got there is not reported for ever: some later poll clears
\* the tracker.
Cleared == ~<>[](expected # "none" /\ bolt = expected)
=============================================================================
