--------------------------------- MODULE Sse ---------------------------------
(***************************************************************************)
(* api/v1/routers/sse.py, with the change detector of io_board/events.py:  *)
(* for each client a generator that sends events, and a task that turns    *)
(* the polls of its queue into events.  A stream ends when its client goes *)
(* or the server stops, at any of the suspensions of the two.              *)
(*                                                                         *)
(* A client asks for one stream, loadcells or doors, and the polling is    *)
(* that of the stream.                                                     *)
(*                                                                         *)
(* One loadcell stands for the ten: detector and sanitizer keep each       *)
(* channel apart.                                                          *)
(***************************************************************************)
EXTENDS Polling, Integers, SequencesExt

CONSTANTS Weights,      \* the weights that are compared, after the filter
          None,         \* no weight
          Threshold,    \* of the change detection
          Kinds,        \* the kinds of poll results that occur
          MaxEvents     \* bound: events that wait in a stream

ASSUME SseAssumption ==
    /\ Weights \subseteq Int /\ None \in Int \ Weights /\ Threshold \in Nat
    /\ "frame" \in Kinds
    /\ Kinds \subseteq {"frame",        \* a reading
                        "EEEEEE",       \* a frame with an error in it
                        "IOBoardError", \* the poll failed with an error of the service
                        "OtherError"}   \* with any other exception

VARIABLES
    stream,      \* which of the two streams; never changes
    stopping,    \* stop_event
    connected,   \* has the client not gone?
    gen,         \* where each generator stands
    task,        \* where each poll_loadcells task stands
    events,      \* event_queue
    previous,    \* _previous_filtered (or _previous_raw) of the detector
    weighed,     \* ghost: the last weight processed
    alarmed      \* ghost: a change or an uncertainty was reported since

streams == <<stream, connected, gen, task, events, previous>>
ghosts  == <<weighed, alarmed>>
svars   == <<pvars, stopping, streams, ghosts>>

\* The results of the polls: a status of the doors carries no weight, and has
\* no values that stand for an error.
Result(k, w) == [kind |-> k, w |-> w]
Results ==
    IF stream = "doors" THEN {Result(k, None) : k \in Kinds \ {"EEEEEE"}}
    ELSE {Result(k, 0) : k \in Kinds \ {"frame"}} \cup {Result("frame", w) : w \in Weights}

GenPlaces  == {"none", "check", "asked", "wait", "leaving", "ended"}
TaskPlaces == {"none", "check", "asked", "get", "ready", "cancelled", "ended"}

-----------------------------------------------------------------------------
\* process() and detect_uncertainties() for one result, and what is emitted.
Abs(x) == IF x < 0 THEN -x ELSE x

Changed(p, w) == p # None /\ Abs(w - p) > Threshold

\* Mutant: an error frame leaves the last weight, and is not reported.
LoadcellEventsSilent(p, r) ==
    CASE r.kind = "frame"        -> <<"loadcell.update">> \o
                                    (IF Changed(p, r.w) THEN <<"loadcell.change">> ELSE <<>>)
      [] r.kind = "EEEEEE"       -> <<"loadcell.update">>
      [] r.kind = "IOBoardError" -> <<"loadcell.uncertainty", "error">>
      [] OTHER                   -> <<"error">>

LoadcellEvents(p, r) ==
    CASE r.kind = "frame"        -> <<"loadcell.update">> \o
                                    (IF Changed(p, r.w) THEN <<"loadcell.change">> ELSE <<>>)
      [] r.kind = "EEEEEE"       -> <<"loadcell.update", "loadcell.uncertainty">>
      [] r.kind = "IOBoardError" -> <<"loadcell.uncertainty", "error">>
      [] OTHER                   -> <<"error">>

DoorEvents(r) == IF r.kind = "frame" THEN <<"door.update">> ELSE <<"error">>

Emits(p, r) == IF stream = "doors" THEN DoorEvents(r) ELSE LoadcellEvents(p, r)

Remembers(p, r) == CASE r.kind = "frame" -> r.w
                     [] r.kind \in {"EEEEEE", "IOBoardError"} -> None
                     [] OTHER -> p

Alarms == {"loadcell.change", "loadcell.uncertainty"}

Process(c, r) ==
    /\ Len(events[c]) < MaxEvents
    /\ events' = [events EXCEPT ![c] = @ \o Emits(previous[c], r)]
    /\ previous' = [previous EXCEPT ![c] = Remembers(previous[c], r)]
    /\ weighed' = [weighed EXCEPT ![c] = IF r.kind = "frame" THEN r.w ELSE @]
    /\ alarmed' = [alarmed EXCEPT ![c] = /\ r.kind # "frame"
                                         /\ @ \/ Alarms \cap ToSet(Emits(previous[c], r)) # {}]

-----------------------------------------------------------------------------
SseInit ==
    /\ PInit
    /\ stream \in {"loadcells", "doors"} /\ stopping = FALSE
    /\ connected = [c \in Queue |-> FALSE]
    /\ gen = [c \in Queue |-> "none"] /\ task = [c \in Queue |-> "none"]
    /\ events = [c \in Queue |-> <<>>] /\ previous = [c \in Queue |-> None]
    /\ weighed = [c \in Queue |-> None] /\ alarmed = [c \in Queue |-> FALSE]

\* The generator starts: it subscribes, and creates the detector and the task.
Open(c) ==
    /\ gen[c] = "none" /\ ~stopping
    /\ connected' = [connected EXCEPT ![c] = TRUE]
    /\ Subscribing(c)
    /\ gen' = [gen EXCEPT ![c] = "check"]
    /\ task' = [task EXCEPT ![c] = "check"]
    /\ UNCHANGED <<running, queues, stream, stopping, events, previous, ghosts>>

Disconnect(c) ==
    /\ connected[c]
    /\ connected' = [connected EXCEPT ![c] = FALSE]
    /\ UNCHANGED <<pvars, stream, stopping, gen, task, events, previous, ghosts>>

StopServer ==
    /\ ~stopping /\ stopping' = TRUE
    /\ UNCHANGED <<pvars, streams, ghosts>>

\* A poll goes to the subscribers and wakes the tasks that wait for it.
Publish ==
    /\ \E r \in Results : Broadcast(r)
    /\ task' = [c \in Queue |-> IF task[c] = "get" /\ buffer'[c] # <<>> THEN "ready" ELSE task[c]]
    /\ UNCHANGED <<stream, stopping, connected, gen, events, previous, ghosts>>

-----------------------------------------------------------------------------
\* poll_loadcells: the head of the loop, with its two tests.
TaskMove(c, place) == task' = [task EXCEPT ![c] = place]

TaskCheck(c) ==
    /\ task[c] = "check"
    /\ TaskMove(c, IF stopping THEN "ended" ELSE "asked")
    /\ UNCHANGED <<pvars, stream, stopping, connected, gen, events, previous, ghosts>>

TaskTake(c) ==
    /\ Process(c, Head(buffer[c]))
    /\ buffer' = [buffer EXCEPT ![c] = Tail(@)]
    /\ TaskMove(c, "check")
    /\ UNCHANGED <<service, shut, stream, stopping, connected, gen>>

TaskAsk(c) ==
    /\ task[c] = "asked"
    /\ \/ /\ ~connected[c] /\ TaskMove(c, "ended")
          /\ UNCHANGED <<pvars, stream, stopping, connected, gen, events, previous, ghosts>>
       \/ /\ connected[c] /\ buffer[c] = <<>> /\ TaskMove(c, "get")
          /\ UNCHANGED <<pvars, stream, stopping, connected, gen, events, previous, ghosts>>
       \/ connected[c] /\ buffer[c] # <<>> /\ TaskTake(c)

TaskReceive(c) == task[c] = "ready" /\ TaskTake(c)

TaskCancelled(c) ==
    /\ task[c] = "cancelled"
    /\ TaskMove(c, "ended")
    /\ UNCHANGED <<pvars, stream, stopping, connected, gen, events, previous, ghosts>>

TaskStep(c) == TaskCheck(c) \/ TaskAsk(c) \/ TaskReceive(c) \/ TaskCancelled(c)

-----------------------------------------------------------------------------
\* Mutant: the queue is shut and left subscribed.
FinallySubscribed(c) ==
    /\ shut' = shut \cup {c}
    /\ task' = [task EXCEPT ![c] = IF @ = "ended" THEN @ ELSE "cancelled"]
    /\ gen' = [gen EXCEPT ![c] = "leaving"]
    /\ UNCHANGED <<service, buffer, stream, stopping, connected, events, previous, ghosts>>

\* The finally block, up to gather(): no suspension between its steps.
Finally(c) ==
    /\ Unsubscribing(c)
    /\ shut' = shut \cup {c}
    /\ task' = [task EXCEPT ![c] = IF @ = "ended" THEN @ ELSE "cancelled"]
    /\ gen' = [gen EXCEPT ![c] = "leaving"]
    /\ UNCHANGED <<running, buffer, stream, stopping, connected, events, previous, ghosts>>

GenMove(c, place) ==
    /\ gen' = [gen EXCEPT ![c] = place]
    /\ UNCHANGED <<pvars, stream, stopping, connected, task, events, previous, ghosts>>

GenCheck(c) == /\ gen[c] = "check"
               /\ IF stopping THEN Finally(c) ELSE GenMove(c, "asked")

GenAsk(c) == /\ gen[c] = "asked"
             /\ IF connected[c] THEN GenMove(c, "wait") ELSE Finally(c)

\* wait_for(event_queue.get(), 0.5)
GenSend(c) ==
    /\ gen[c] = "wait" /\ events[c] # <<>>
    /\ events' = [events EXCEPT ![c] = Tail(@)]
    /\ gen' = [gen EXCEPT ![c] = "check"]
    /\ UNCHANGED <<pvars, stream, stopping, connected, task, previous, ghosts>>

\* Mutant: get() without a timeout.
GenWaitsOn(c) == gen[c] = "wait" /\ events[c] = <<>> /\ GenMove(c, "wait")

GenTimeout(c) == gen[c] = "wait" /\ events[c] = <<>> /\ GenMove(c, "check")

\* The response is cancelled, or closed, when its client has gone.
GenCancelled(c) == gen[c] \in {"check", "asked", "wait"} /\ ~connected[c] /\ Finally(c)

GenEnded(c) == gen[c] = "leaving" /\ task[c] = "ended" /\ GenMove(c, "ended")

GenStep(c) == \/ GenCheck(c) \/ GenAsk(c) \/ GenSend(c) \/ GenTimeout(c)
              \/ GenCancelled(c) \/ GenEnded(c)

-----------------------------------------------------------------------------
PollingStep == (Start \/ BeginPoll \/ Pause) /\ UNCHANGED <<stopping, streams, ghosts>>

SseNext == \/ StopServer \/ PollingStep \/ Publish
           \/ \E c \in Queue : Open(c) \/ Disconnect(c) \/ TaskStep(c) \/ GenStep(c)

SseSafety == SseInit /\ [][SseNext]_svars

\* The event loop runs every task that can run; nobody is made to connect, to
\* go or to stop the server.
SseSpec == SseSafety /\ \A c \in Queue : WF_svars(TaskStep(c)) /\ WF_svars(GenStep(c))

-----------------------------------------------------------------------------
\* A stream that ends, at whatever point, does not leave its dead queue with
\* the service, where it would make every later broadcast raise.
NoDeadSubscriber == subscribers \cap shut = {}

\* A stream whose client has gone, or that the server wants stopped, gives its
\* subscription back and ends, with its task.
Released == \A c \in Queue :
    (gen[c] # "none" /\ (stopping \/ ~connected[c]))
        ~> (gen[c] = "ended" /\ task[c] = "ended" /\ c \notin subscribers)

\* What a step adds to the events of a stream.
Added(c) == SubSeq(events'[c], Len(events[c]) + 1, Len(events'[c]))

\* A weight that differs from the one weighed before it by more than the
\* threshold is reported as a change, or an uncertainty has been reported in
\* between: no error frame and no failure hides what was taken meanwhile.
NoTheftMissed == [][\A c \in Queue :
    weighed[c] # None /\ Abs(weighed'[c] - weighed[c]) > Threshold
    => alarmed[c] \/ "loadcell.change" \in ToSet(Added(c))]_svars
=============================================================================
