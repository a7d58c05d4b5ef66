------------------------------ MODULE Recording ------------------------------
(***************************************************************************)
(* services/recording.py over the polling of the loadcells: a background   *)
(* task that records what its queue delivers, and the requests that start, *)
(* restart and stop a recording.  stop_recording() shuts the queue down    *)
(* and puts a new one in its place, whatever the task is doing with the    *)
(* old one; queues are numbered in the order of their creation.            *)
(***************************************************************************)
EXTENDS Polling, SequencesExt

CONSTANTS MaxStops,     \* bound: calls of stop_recording()
          MaxPolls,     \* bound: polls
          Other         \* another subscriber's queue

ASSUME RecordingAssumption ==
    /\ MaxStops \in Nat /\ MaxPolls \in Nat
    /\ Queue = (0..MaxStops) \cup {Other} /\ Other \notin 0..MaxStops

VARIABLES
    recording,   \* _recording_running
    current,     \* _queue
    task,        \* where _loop of the recording stands; see Stations
    from,        \* the queue whose get() the task waits in
    recordings,  \* the numbers of the polls recorded
    polls,       \* ghost: the polls broadcast so far
    good,        \* ghost: those that succeeded
    since        \* ghost: the polls before start_recording()

rvars  == <<recording, current, task, from, recordings>>
gvars  == <<polls, good, since>>
allVars == <<pvars, rvars, gvars>>

Stations == {"off", "start",
             "idle",        \* in _recording_running.wait()
             "woken",       \* the event was set; wait() returns whatever it is by then
             "get",         \* in _queue.get()
             "ready"}       \* the future of that get() is done

\* What taking these results, one after the other, adds to the recording: a
\* failed poll raises, and leaves nothing.
Taken(items) ==
    LET taken[k \in 0..Len(items)] ==
          IF k = 0 THEN <<>>
          ELSE IF items[k].ok THEN Append(taken[k - 1], items[k].n) ELSE taken[k - 1]
    IN  taken[Len(items)]

-----------------------------------------------------------------------------
RInit == /\ PInit
         /\ recording = FALSE /\ current = 0 /\ task = "off" /\ from = 0
         /\ recordings = <<>>
         /\ polls = 0 /\ good = {} /\ since = 0

StartService ==
    /\ task = "off" /\ running
    /\ task' = "start"
    /\ UNCHANGED <<pvars, recording, current, from, recordings, gvars>>

\* Mutant: the task is not woken.
StartRecordingAsleep ==
    /\ recordings' = <<>> /\ since' = polls
    /\ recording' = TRUE
    /\ Subscribing(current)
    /\ UNCHANGED <<running, queues, current, task, from, polls, good>>

\* start_recording(clear=True).
StartRecording ==
    /\ recordings' = <<>> /\ since' = polls
    /\ recording' = TRUE
    /\ task' = IF task = "idle" THEN "woken" ELSE task
    /\ Subscribing(current)
    /\ UNCHANGED <<running, queues, current, from, polls, good>>

\* Mutant: a queue that is shut down and kept.
StopRecordingSameQueue ==
    /\ recording' = FALSE
    /\ Unsubscribing(current)
    /\ shut' = shut \cup {current}
    /\ current < MaxStops
    /\ task' = IF task = "get" /\ from = current THEN "ready" ELSE task
    /\ UNCHANGED <<running, buffer, current, from, recordings, gvars>>

\* stop_recording.
StopRecording ==
    /\ recording' = FALSE
    /\ Unsubscribing(current)
    /\ shut' = shut \cup {current}
    /\ current < MaxStops /\ current' = current + 1
    /\ task' = IF task = "get" /\ from = current THEN "ready" ELSE task
    /\ UNCHANGED <<running, buffer, from, recordings, gvars>>

\* A poll goes out to the subscribers, and wakes the task that waits for it.
Publish ==
    /\ polls < MaxPolls /\ polls' = polls + 1
    /\ \E ok \in BOOLEAN :
         /\ Broadcast([n |-> polls', ok |-> ok])
         /\ good' = IF ok THEN good \cup {polls'} ELSE good
    /\ task' = IF task = "get" /\ buffer'[from] # <<>> THEN "ready" ELSE task
    /\ UNCHANGED <<recording, current, from, recordings, since>>

-----------------------------------------------------------------------------
\* The get() that was waiting returns the oldest result of its queue, or raises
\* QueueShutDown.
Received == IF task = "ready" /\ buffer[from] # <<>> THEN <<Head(buffer[from])>> ELSE <<>>

\* While the event is set the loop goes on, without a suspension, until the
\* current queue is empty.
Remainder(q) == IF task = "ready" /\ q = from /\ buffer[q] # <<>> THEN Tail(buffer[q]) ELSE buffer[q]

\* Mutant: the whole queue is taken newest first.
DrainedBackwards ==
    IF recording THEN LET r == Remainder(current)
                      IN [i \in 1..Len(r) |-> r[Len(r) + 1 - i]]
    ELSE <<>>

Drained == IF recording THEN Remainder(current) ELSE <<>>

\* Mutant: one result per wakeup, the rest are dropped.
TaskStepOne ==
    /\ task \in {"start", "woken", "ready"}
    /\ recordings' = recordings \o Taken(Received)
    /\ buffer' = [q \in Queue |-> IF q = current /\ recording THEN <<>> ELSE Remainder(q)]
    /\ IF recording \/ task = "woken"
       THEN task' = "get" /\ from' = current
       ELSE task' = "idle" /\ UNCHANGED from
    /\ UNCHANGED <<service, shut, recording, current, gvars>>

\* _loop, from one suspension to the next.
TaskStep ==
    /\ task \in {"start", "woken", "ready"}
    /\ recordings' = recordings \o Taken(Received \o Drained)
    /\ buffer' = [q \in Queue |-> IF q = current /\ recording THEN <<>> ELSE Remainder(q)]
    /\ IF recording \/ task = "woken"
       THEN task' = "get" /\ from' = current
       ELSE task' = "idle" /\ UNCHANGED from
    /\ UNCHANGED <<service, shut, recording, current, gvars>>

\* Another subscriber, the SSE stream of one client, say.
OtherComes  == Subscribing(Other) /\ UNCHANGED <<running, queues, rvars, gvars>>
OtherLeaves == Unsubscribing(Other) /\ UNCHANGED <<running, queues, rvars, gvars>>
OtherTakes  == /\ buffer[Other] # <<>>
               /\ buffer' = [buffer EXCEPT ![Other] = Tail(@)]
               /\ UNCHANGED <<service, shut, rvars, gvars>>

\* The shutdown of the program: stop() of the recording, then of the polling.
StopService ==
    /\ task # "off"
    /\ task' = "off"
    /\ Stop
    /\ UNCHANGED <<recording, current, from, recordings, gvars>>

PollingStep == (BeginPoll \/ Pause \/ Ended) /\ UNCHANGED <<rvars, gvars>>

RNext == \/ Start /\ UNCHANGED <<rvars, gvars>>
         \/ StartService \/ StartRecording \/ StopRecording \/ StopService
         \/ PollingStep \/ Publish \/ TaskStep
         \/ OtherComes \/ OtherLeaves \/ OtherTakes

RSafety == RInit /\ [][RNext]_allVars

\* A task that can run does, and the polls go on.
RSpec == RSafety /\ WF_allVars(TaskStep)

-----------------------------------------------------------------------------
\* No broadcast meets a queue that is shut, which would deprive the other
\* subscribers of the poll; and get() is never called on one, which with the
\* event set would spin without ever suspending.
OpenQueues == current \notin shut /\ subscribers \cap shut = {}

\* Every poll is recorded once at most, in the order of the polls, through any
\* number of restarts: the old queue's rest never comes after the new queue's.
RecordedInOrder == \A i, j \in 1..Len(recordings) : i < j => recordings[i] < recordings[j]

\* Every good poll since start_recording() is recorded, or in the queue that is
\* recorded from; so the route that reads the recording misses what is queued only.
NothingMissed == recording =>
    {n \in good : n > since}
        \subseteq ToSet(recordings) \cup {item.n : item \in ToSet(buffer[current])}

\* What is queued while a recording runs gets recorded, unless it is stopped.
Caught == (recording /\ buffer[current] # <<>> /\ task # "off")
          ~> (buffer[current] = <<>> \/ ~recording \/ task = "off")

\* The event, says the comment, stops the recording.
NothingAfterStop == [][~recording /\ ~recording' => recordings' = recordings]_allVars
=============================================================================
