------------------------------- MODULE Lifespan -------------------------------
(***************************************************************************)
(* main.py: the life of the application, from the moment lifespan has      *)
(* started its four services to the moment it has stopped them, one after  *)
(* the other: the polling of the weights and that of the IO status, two    *)
(* instances of Polling; the recording, which subscribes to the first on   *)
(* request; the error state tracker, which subscribes to the second.       *)
(* Clients of /sse subscribe to either or both, and the server waits for   *)
(* their streams before lifespan goes on, though not for ever.             *)
(*                                                                         *)
(* What the streams do with a result is in Sse, what the tracker and the   *)
(* recording do with it in Deadbolt and Recording: here they take it.      *)
(***************************************************************************)
EXTENDS Naturals, Sequences, FiniteSets

CONSTANTS Client,       \* SSE clients; a client's name stands for its queues
          Recorder,     \* the queue of the recording
          Tracker,      \* the queue of the tracker
          MaxBacklog    \* bound: results in a queue

ASSUME LifespanAssumption ==
    /\ Recorder \notin Client /\ Tracker \notin Client
    /\ MaxBacklog \in Nat \ {0}

VARIABLES
    wRunning, wLoop, wAwake, wSubscribers, wBuffer, wShut,  \* the polling of the weights
    sRunning, sLoop, sAwake, sSubscribers, sBuffer, sShut,  \* the polling of the IO status
    recorder, tracker,  \* the tasks of the two services
    gen,                \* where the generator of each stream stands; gone: its client is
    feeders,            \* the poll_loadcells and poll_doors tasks that are left
    app                 \* where the application stands; see Stages

weightVars == <<wRunning, wLoop, wAwake, wSubscribers, wBuffer, wShut>>
statusVars == <<sRunning, sLoop, sAwake, sSubscribers, sBuffer, sShut>>
aVars      == <<weightVars, statusVars, recorder, tracker, gen, feeders, app>>

Weights == INSTANCE Polling WITH
    Queue <- Client \cup {Recorder}, running <- wRunning, loop <- wLoop, awake <- wAwake,
    subscribers <- wSubscribers, buffer <- wBuffer, shut <- wShut

Status == INSTANCE Polling WITH
    Queue <- Client \cup {Tracker}, running <- sRunning, loop <- sLoop, awake <- sAwake,
    subscribers <- sSubscribers, buffer <- sBuffer, shut <- sShut

Streams == {"loadcells", "doors"}

Stages == {"up",
           "draining",   \* stop_event is set; the server waits for the requests
           "recorder",   \* lifespan waits in stop() of the recording,
           "tracker",    \* ... of the tracker,
           "weights",    \* ... of the polling of the weights,
           "status",     \* ... of the polling of the IO status
           "exited"}

Stopping == app # "up"                  \* stop_event.is_set()
Serving  == app \in {"up", "draining"}   \* requests that came in still run

GenPlaces  == {"none", "open", "gone", "leaving", "ended"}
TaskPlaces == {"running", "cancelled", "ended"}

-----------------------------------------------------------------------------
\* Nothing suspends between the first start() and the yield.
Init ==
    /\ wRunning = TRUE /\ wLoop = "start" /\ wAwake = FALSE /\ wSubscribers = {}
    /\ wBuffer = [q \in Client \cup {Recorder} |-> <<>>] /\ wShut = {}
    /\ sRunning = TRUE /\ sLoop = "start" /\ sAwake = TRUE /\ sSubscribers = {Tracker}
    /\ sBuffer = [q \in Client \cup {Tracker} |-> <<>>] /\ sShut = {}
    /\ recorder = "running" /\ tracker = "running"
    /\ gen = [c \in Client |-> "none"] /\ feeders = [c \in Client |-> {}]
    /\ app = "up"

\* The two polling loops, whatever else goes on.
WeightsPoll ==
    /\ Weights!LoopStep
    /\ UNCHANGED <<statusVars, recorder, tracker, gen, feeders, app>>

StatusPoll ==
    /\ Status!LoopStep
    /\ UNCHANGED <<weightVars, recorder, tracker, gen, feeders, app>>

-----------------------------------------------------------------------------
\* POST /recording/start and /recording/stop.  The queue that stop_recording
\* shuts is replaced by a new one, which gets its name.
StartRecording ==
    /\ Serving
    /\ Weights!Subscribing(Recorder)
    /\ UNCHANGED <<wRunning, wBuffer, wShut, statusVars, recorder, tracker, gen, feeders, app>>

StopRecording ==
    /\ Serving
    /\ Weights!Unsubscribing(Recorder)
    /\ wBuffer' = [wBuffer EXCEPT ![Recorder] = <<>>]
    /\ UNCHANGED <<wRunning, wShut, statusVars, recorder, tracker, gen, feeders, app>>

RecorderTakes ==
    /\ recorder = "running" /\ wBuffer[Recorder] # <<>>
    /\ wBuffer' = [wBuffer EXCEPT ![Recorder] = Tail(@)]
    /\ UNCHANGED <<wRunning, wLoop, wAwake, wSubscribers, wShut,
                   statusVars, recorder, tracker, gen, feeders, app>>

TrackerTakes ==
    /\ tracker = "running" /\ sBuffer[Tracker] # <<>>
    /\ sBuffer' = [sBuffer EXCEPT ![Tracker] = Tail(@)]
    /\ UNCHANGED <<sRunning, sLoop, sAwake, sSubscribers, sShut,
                   weightVars, recorder, tracker, gen, feeders, app>>

\* A task that was cancelled ends when it runs.
RecorderEnds ==
    /\ recorder = "cancelled" /\ recorder' = "ended"
    /\ UNCHANGED <<weightVars, statusVars, tracker, gen, feeders, app>>

TrackerEnds ==
    /\ tracker = "cancelled" /\ tracker' = "ended"
    /\ UNCHANGED <<weightVars, statusVars, recorder, gen, feeders, app>>

-----------------------------------------------------------------------------
\* GET /sse: the generator subscribes to what was asked for, with new queues,
\* and creates a task for each.
Open(c, asked) ==
    /\ Serving /\ gen[c] \in {"none", "ended"} /\ asked # {}
    /\ gen' = [gen EXCEPT ![c] = "open"]
    /\ feeders' = [feeders EXCEPT ![c] = asked]
    /\ wBuffer' = [wBuffer EXCEPT ![c] = <<>>] /\ wShut' = wShut \ {c}
    /\ sBuffer' = [sBuffer EXCEPT ![c] = <<>>] /\ sShut' = sShut \ {c}
    /\ IF "loadcells" \in asked THEN Weights!Subscribing(c)
                                ELSE UNCHANGED <<wSubscribers, wAwake, wLoop>>
    /\ IF "doors" \in asked THEN Status!Subscribing(c)
                            ELSE UNCHANGED <<sSubscribers, sAwake, sLoop>>
    /\ UNCHANGED <<wRunning, sRunning, recorder, tracker, app>>

FeederTakes(c, s) ==
    /\ s \in feeders[c]
    /\ \/ /\ s = "loadcells" /\ wBuffer[c] # <<>>
          /\ wBuffer' = [wBuffer EXCEPT ![c] = Tail(@)]
          /\ UNCHANGED sBuffer
       \/ /\ s = "doors" /\ sBuffer[c] # <<>>
          /\ sBuffer' = [sBuffer EXCEPT ![c] = Tail(@)]
          /\ UNCHANGED wBuffer
    /\ UNCHANGED <<wRunning, wLoop, wAwake, wSubscribers, wShut,
                   sRunning, sLoop, sAwake, sSubscribers, sShut,
                   recorder, tracker, gen, feeders, app>>

Disconnect(c) ==
    /\ gen[c] = "open"
    /\ gen' = [gen EXCEPT ![c] = "gone"]
    /\ UNCHANGED <<weightVars, statusVars, recorder, tracker, feeders, app>>

\* The finally block up to gather(): the generator has seen that the client has
\* gone or that stop_event is set, or the server, out of patience, cancelled it.
Leave(c) ==
    /\ gen[c] = "gone" \/ (gen[c] = "open" /\ Stopping)
    /\ gen' = [gen EXCEPT ![c] = "leaving"]
    /\ Weights!Unsubscribing(c)
    /\ wShut' = IF c \in wSubscribers THEN wShut \cup {c} ELSE wShut
    /\ Status!Unsubscribing(c)
    /\ sShut' = IF c \in sSubscribers THEN sShut \cup {c} ELSE sShut
    /\ UNCHANGED <<wRunning, wBuffer, sRunning, sBuffer, recorder, tracker, feeders, app>>

\* A feeder ends: cancelled by the clean-up, or at its own test of the client and
\* of stop_event.
FeederEnds(c, s) ==
    /\ s \in feeders[c]
    /\ gen[c] \in {"gone", "leaving"} \/ Stopping
    /\ feeders' = [feeders EXCEPT ![c] = @ \ {s}]
    /\ UNCHANGED <<weightVars, statusVars, recorder, tracker, gen, app>>

StreamEnds(c) ==
    /\ gen[c] = "leaving" /\ feeders[c] = {}
    /\ gen' = [gen EXCEPT ![c] = "ended"]
    /\ UNCHANGED <<weightVars, statusVars, recorder, tracker, feeders, app>>

-----------------------------------------------------------------------------
Reach(stage) == app' = stage

\* GracefulShutdownServer.shutdown.
Shutdown ==
    /\ app = "up" /\ Reach("draining")
    /\ UNCHANGED <<weightVars, statusVars, recorder, tracker, gen, feeders>>

\* The streams have ended, or timeout_graceful_shutdown is over and those that
\* are left are cancelled and not waited for.  stop() of the recording leaves
\* its queue subscribed.
StopRecorder ==
    /\ app = "draining" /\ Reach("recorder")
    /\ recorder' = "cancelled"
    /\ UNCHANGED <<weightVars, statusVars, tracker, gen, feeders>>

\* Mutant: the tracker shuts its queue and leaves it subscribed.
StopTrackerSubscribed ==
    /\ app = "recorder" /\ recorder = "ended" /\ Reach("tracker")
    /\ sShut' = sShut \cup {Tracker}
    /\ tracker' = "cancelled"
    /\ UNCHANGED <<weightVars, sRunning, sLoop, sAwake, sSubscribers, sBuffer, recorder, gen, feeders>>

StopTracker ==
    /\ app = "recorder" /\ recorder = "ended" /\ Reach("tracker")
    /\ Status!Unsubscribing(Tracker)
    /\ sShut' = sShut \cup {Tracker}
    /\ tracker' = "cancelled"
    /\ UNCHANGED <<weightVars, sRunning, sBuffer, recorder, gen, feeders>>

\* Mutant: the flag alone is cleared, and the loop has to see it.
StopWeightsByFlag ==
    /\ app = "tracker" /\ tracker = "ended" /\ Reach("weights")
    /\ wRunning' = FALSE
    /\ wLoop' = IF wLoop \in {"start", "sleep"} THEN "cancelled" ELSE wLoop
    /\ UNCHANGED <<wAwake, wSubscribers, wBuffer, wShut, statusVars, recorder, tracker, gen, feeders>>

StopWeights ==
    /\ app = "tracker" /\ tracker = "ended" /\ Reach("weights")
    /\ Weights!Stop
    /\ UNCHANGED <<statusVars, recorder, tracker, gen, feeders>>

StopStatus ==
    /\ app = "weights" /\ wLoop = "off" /\ Reach("status")
    /\ Status!Stop
    /\ UNCHANGED <<weightVars, recorder, tracker, gen, feeders>>

Exit ==
    /\ app = "status" /\ sLoop = "off" /\ Reach("exited")
    /\ UNCHANGED <<weightVars, statusVars, recorder, tracker, gen, feeders>>

LifespanStep == StopRecorder \/ StopTracker \/ StopWeights \/ StopStatus \/ Exit

-----------------------------------------------------------------------------
FeederStep(c, s) == FeederTakes(c, s) \/ FeederEnds(c, s)

Next == \/ WeightsPoll \/ StatusPoll
        \/ StartRecording \/ StopRecording \/ RecorderTakes \/ TrackerTakes
        \/ RecorderEnds \/ TrackerEnds
        \/ Shutdown \/ LifespanStep
        \/ \E c \in Client : \/ Disconnect(c) \/ Leave(c) \/ StreamEnds(c)
                             \/ \E s \in Streams : FeederStep(c, s)
                             \/ \E asked \in SUBSET Streams : Open(c, asked)

Safety == Init /\ [][Next]_aVars

\* fetch() returns (Returns of SerialIO), sleeps end, tasks that can run do.
\* Nobody must connect or leave, nor the server be told to stop.
Spec == /\ Safety
        /\ WF_aVars(WeightsPoll) /\ WF_aVars(StatusPoll)
        /\ WF_aVars(RecorderTakes) /\ WF_aVars(TrackerTakes)
        /\ WF_aVars(RecorderEnds) /\ WF_aVars(TrackerEnds)
        /\ WF_aVars(LifespanStep)
        /\ \A c \in Client : WF_aVars(Leave(c))
        /\ \A c \in Client, s \in Streams : WF_aVars(FeederStep(c, s))

-----------------------------------------------------------------------------
\* The event that paces a polling loop says the truth about its subscribers:
\* recording, tracker and streams that come and go in any state of the loop,
\* and their clean-up at the stop.
FlagMeansSubscribers == Weights!FlagMeansSubscribers /\ Status!FlagMeansSubscribers

\* No broadcast meets a queue that is shut, also while the services stop one
\* after the other and streams are still cleaning up.
NoDeadQueue == wSubscribers \cap wShut = {} /\ sSubscribers \cap sShut = {}

\* Whoever subscribes to a service is fed, whoever else comes and goes.
Fed == Weights!Fed /\ Status!Fed

\* A service without subscribers comes to rest: no serial traffic for nobody.
Rests == Weights!Rests /\ Status!Rests

\* A server that is told to stop gets there, in whatever state the loops, the
\* recording and the streams are; no stop() waits for what has stopped before.
Exits == Stopping ~> app = "exited"
=============================================================================
