-------------------------------- MODULE Health --------------------------------
(***************************************************************************)
(* GET /health (api/v1/routers/machine.py) beside the operations on the    *)
(* deadbolt, the polling and the tracker of Deadbolt.  It takes the        *)
(* verdict on the door first, waits for a frame of weights, takes the      *)
(* tracker's verdict on the deadbolt, and waits for a status.              *)
(*                                                                         *)
(* The verdict on the weights is a function of the one frame, and is left  *)
(* out.                                                                    *)
(***************************************************************************)
EXTENDS Deadbolt

VARIABLES
    probe,   \* where get_health stands: idle, weights or status
    told,    \* what it has found UNHEALTHY
    lasting  \* ghost: the faults that have been there since it began; when it has
             \* ended, those of them it did not tell

hvars == <<dvars, probe, told, lasting>>

\* What somebody in front of the cabinet would complain of.
Stuck      == asked > ApplyTimeout /\ ~reached /\ ~stale
LockedOpen == bolt = "LOCKED" /\ door = "OPENED"
LeftOpen   == closedAgo # Never /\ openFor # Never /\ openFor > DoorLimit

Faults == {f \in {"stuck", "lockedOpen", "leftOpen"} :
             CASE f = "stuck"      -> Stuck
               [] f = "lockedOpen" -> LockedOpen
               [] f = "leftOpen"   -> LeftOpen}

About(f) == IF f = "leftOpen" THEN "door" ELSE "deadbolt"

-----------------------------------------------------------------------------
HInit == DInit /\ probe = "idle" /\ told = {} /\ lasting = {}

\* door_error(), and the request for the weights.
Ask ==
    /\ probe = "idle"
    /\ probe' = "weights"
    /\ told' = IF DoorInError THEN {"door"} ELSE {}
    /\ lasting' = Faults
    /\ UNCHANGED dvars

\* get_loadcells() returns or raises; then deadbolt_error(), and the request for
\* the status.
WeightsCome ==
    /\ probe = "weights"
    /\ probe' = "status"
    /\ told' = IF DeadboltInError THEN told \cup {"deadbolt"} ELSE told
    /\ UNCHANGED <<dvars, lasting>>

\* The answer, with the verdicts v.
Tell(v) ==
    /\ probe' = "idle" /\ told' = {}
    /\ lasting' = {f \in lasting : About(f) \notin v}
    /\ UNCHANGED dvars

\* Mutant: a status in order makes up for the tracker's verdict.
StatusDecides ==
    /\ probe = "status"
    /\ Tell(IF LockedOpen THEN told \cup {"deadbolt"} ELSE told \ {"deadbolt"})

StatusComes ==
    /\ probe = "status"
    /\ Tell(IF LockedOpen THEN told \cup {"deadbolt"} ELSE told)

\* The request for the status fails.
StatusMissing ==
    /\ probe = "status"
    /\ Tell(told \cup {"deadbolt"})

HealthStep == Ask \/ WeightsCome \/ StatusComes \/ StatusMissing

\* People open and close the door, locked or not.
MoveDoor ==
    /\ \E d \in Doors \ {door} : door' = d
    /\ UNCHANGED <<pvars, bolt, target, inFlight, operation, tracking, ghosts>>

Meanwhile == /\ DNext \/ MoveDoor
             /\ lasting' = lasting \cap Faults'
             /\ UNCHANGED <<probe, told>>

HNext == Meanwhile \/ HealthStep

HSafety == HInit /\ [][HNext]_hvars

-----------------------------------------------------------------------------
\* A fault that lasts from the question to the answer is told: a bolt that does
\* not follow, one that is locked while the door is open, a door left open.  The
\* verdicts are taken at three moments, and operations, polls and failures of
\* the board come between them.
LastingFaultsTold == probe = "idle" => lasting = {}
=============================================================================
