------------------------------- MODULE Polling -------------------------------
(***************************************************************************)
(* services/polling: a PollingService, which fetches from one data source  *)
(* while anybody subscribes and puts each result into the StreamQueue of   *)
(* every subscriber, and the queues themselves.                            *)
(*                                                                         *)
(* asyncio runs one task at a time, up to its next suspension: an action   *)
(* is what one task does between two suspensions.  subscribe(),            *)
(* unsubscribe() and put() on these unbounded queues never suspend.        *)
(***************************************************************************)
EXTENDS Naturals, Sequences, FiniteSets

CONSTANTS Queue,        \* the StreamQueue objects
          MaxBacklog    \* bound: results in a queue

ASSUME PollingAssumption == MaxBacklog \in Nat \ {0}

VARIABLES
    running,     \* _running
    loop,        \* where _loop stands; see Places
    awake,       \* _has_subscribers
    subscribers,
    buffer,      \* what each queue holds
    shut         \* the queues that shutdown() was called on

service == <<running, loop, awake, subscribers>>
queues  == <<buffer, shut>>
pvars   == <<service, queues>>

Places == {"off",        \* no task
           "start",      \* at the top of the loop
           "wait",       \* in _has_subscribers.wait()
           "woken",      \* the event was set; wait() returns whatever it is by then
           "fetch",      \* in data_source.fetch()
           "sleep",      \* between two polls, or in the backoff after an error
           "cancelled"}

Start ==
    /\ loop = "off" /\ ~running
    /\ running' = TRUE /\ loop' = "start"
    /\ UNCHANGED <<awake, subscribers, queues>>

\* stop() cancels the task, and waits for it.
Stop ==
    /\ running
    /\ running' = FALSE /\ loop' = "cancelled"
    /\ UNCHANGED <<awake, subscribers, queues>>

Ended ==
    /\ loop = "cancelled"
    /\ loop' = "off"
    /\ UNCHANGED <<running, awake, subscribers, queues>>

-----------------------------------------------------------------------------
\* Mutant: wakes the loop at the second subscriber.
SubscribingLate(q) ==
    /\ subscribers' = subscribers \cup {q}
    /\ IF Cardinality(subscribers) = 1
       THEN /\ awake' = TRUE
            /\ loop' = IF loop = "wait" THEN "woken" ELSE loop
       ELSE UNCHANGED <<awake, loop>>

\* subscribe: with one subscriber now, set the event.
Subscribing(q) ==
    /\ subscribers' = subscribers \cup {q}
    /\ IF subscribers' = {q}
       THEN /\ awake' = TRUE
            /\ loop' = IF loop = "wait" THEN "woken" ELSE loop
       ELSE UNCHANGED <<awake, loop>>

\* Mutant: the event is cleared whoever else is left.
UnsubscribingAll(q) ==
    /\ subscribers' = subscribers \ {q}
    /\ awake' = (q \notin subscribers /\ awake)
    /\ UNCHANGED loop

\* unsubscribe; not for a queue that is not subscribed.
Unsubscribing(q) ==
    /\ subscribers' = subscribers \ {q}
    /\ awake' = (awake /\ (q \in subscribers => subscribers' # {}))
    /\ UNCHANGED loop

-----------------------------------------------------------------------------
\* Mutant: the loop polls on with nobody there.
BeginPollAnyway ==
    /\ loop \in {"woken", "start", "sleep"}
    /\ loop' = "fetch"
    /\ UNCHANGED <<running, awake, subscribers, queues>>

BeginPoll ==
    /\ \/ loop = "woken"
       \/ loop \in {"start", "sleep"} /\ awake
    /\ loop' = "fetch"
    /\ UNCHANGED <<running, awake, subscribers, queues>>

Pause ==
    /\ loop \in {"start", "sleep"} /\ ~awake
    /\ loop' = "wait"
    /\ UNCHANGED <<running, awake, subscribers, queues>>

\* put() raises for a queue that is shut, and whoever the loop has not reached
\* by then goes without.
Reached == IF subscribers \cap shut = {} THEN {subscribers}
           ELSE SUBSET (subscribers \ shut)

Broadcast(item) ==
    /\ loop = "fetch"
    /\ \A q \in subscribers : Len(buffer[q]) < MaxBacklog
    /\ \E R \in Reached :
         buffer' = [q \in Queue |-> IF q \in R THEN Append(buffer[q], item) ELSE buffer[q]]
    /\ loop' = "sleep"
    /\ UNCHANGED <<running, awake, subscribers, shut>>

PInit == /\ running = FALSE /\ loop = "off"
         /\ awake = FALSE /\ subscribers = {}
         /\ buffer = [q \in Queue |-> <<>>] /\ shut = {}

\* What a poll yields matters to those who take it.
LoopStep == BeginPoll \/ Pause \/ Ended \/ Broadcast("result")

-----------------------------------------------------------------------------
\* The event that paces the loop says the truth about the subscribers, through
\* any number of them that come and go in any state of the loop.
FlagMeansSubscribers == awake <=> subscribers # {}

\* Whoever subscribes is fed, also when the loop sat waiting, or slept, or was
\* in a poll nobody listened to any more.
Fed == \A q \in Queue : (q \in subscribers /\ running)
                        ~> (buffer[q] # <<>> \/ q \notin subscribers \/ ~running)

\* Without subscribers the loop comes to rest: no serial traffic for nobody.
Rests == (subscribers = {} /\ running) ~> (loop = "wait" \/ subscribers # {} \/ ~running)
=============================================================================
