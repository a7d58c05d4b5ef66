------------------------------- MODULE SerialIO -------------------------------
(***************************************************************************)
(* services/io_board/serial_io.py: every command to the IO board is one    *)
(* fetch(), an exchange with retries over one shared serial connection     *)
(* that is owned through _serial_mutex.                                    *)
(*                                                                         *)
(* Time is counted in ticks.  A duration of the configuration is a         *)
(* constant; a timestamp of the code is an age, the ticks since, which     *)
(* saturates at AgeCap because nothing distinguishes larger ones.  A timer *)
(* counts down to 0, and the task that waits for it runs at some later     *)
(* moment: a sleep never ends early and may end late.                      *)
(***************************************************************************)
EXTENDS Naturals, Sequences

CONSTANTS
    Client,             \* the tasks that call fetch()
    Kind,               \* the CMD/SUBCMD codes
    NoKind,             \* "no code"
    Throttled,          \* kinds sent with a positive min_send_interval (RQ/IW)
    RequestGap,         \* that interval, _loadcell_min_gap
    InterGap,           \* inter_command_gap
    DrainQuiet,         \* the read timeout of _drain_stale_input
    HeaderTimeout, BodyTimeout, ChecksumTimeout,
    MaxRetries, InitialRetryDelay, BackoffMultiplier,
    AgeCap,             \* ages count up to here
    Backlog,            \* bound: the board is silent while so many replies are under way
    Latency,            \* a reply the board sends is delivered within Latency
    Shapes,             \* how a reply can reach the host, see Shape
    Replays,            \* the board may answer with the previous command's reply
    Unplugs,            \* the port can go away and come back
    LowLatencyRefused,  \* the driver rejects set_low_latency_mode
    AllowCancel,        \* callers may be cancelled
    LoopPrompt          \* the event loop runs a reader before its timeout is due

\* whole: as sent.  corrupt: complete, but its checksum does not match.
\* nobody: the header byte and no ETX.  nolrc: all but the checksum byte.
Shape == {"whole", "corrupt", "nobody", "nolrc"}

\* The bounds are those of core/config.py, in ticks.
ASSUME KindAssumption == NoKind \notin Kind /\ Throttled \subseteq Kind
ASSUME TimeAssumption ==
    /\ RequestGap \in Nat /\ InterGap \in Nat
    /\ DrainQuiet \in Nat \ {0} /\ HeaderTimeout \in Nat \ {0}
    /\ BodyTimeout \in Nat \ {0} /\ ChecksumTimeout \in Nat \ {0}
    /\ MaxRetries \in Nat \ {0} /\ InitialRetryDelay \in Nat \ {0}
    /\ BackoffMultiplier \in Nat \ {0}
    /\ AgeCap \in Nat /\ AgeCap >= RequestGap /\ AgeCap >= InterGap
    /\ Latency \in Nat /\ Backlog \in Nat \ {0}
ASSUME FaultAssumption ==
    /\ Shapes \subseteq Shape
    /\ Replays \in BOOLEAN /\ Unplugs \in BOOLEAN /\ LowLatencyRefused \in BOOLEAN
    /\ AllowCancel \in BOOLEAN /\ LoopPrompt \in BOOLEAN

VARIABLES
    mutex,      \* _serial_mutex: its owner, then its waiters in FIFO order
    pc,         \* where each task is in fetch()
    req,        \* the kind each task asks for
    attempt,    \* the attempt number of the retry loop
    delay,      \* retry_delay
    timer,      \* what is left of the sleep or read timeout the task is in
    result,     \* what the last fetch() of each task returned or raised
    conn,       \* the global reader and writer
    plugged,    \* the port exists
    wire,       \* replies of the board that have not arrived yet
    rx,         \* the receive buffer of the stream reader
    lastSent,   \* the command the board received last
    txAge,      \* age of _last_request_tx, for the throttled kinds
    rxAge       \* age of _last_rx_complete_time

tasks == <<mutex, pc, req, attempt, delay, timer, result>>
line  == <<conn, plugged, wire, rx, lastSent>>
ages  == <<txAge, rxAge>>
vars  == <<tasks, line, ages>>

-----------------------------------------------------------------------------
Pending     == [tag |-> "none", code |-> NoKind, back |-> 0]
Failed(tag) == [tag |-> tag, code |-> NoKind, back |-> 0]
Ok(f)       == [tag |-> "ok", code |-> f.code, back |-> f.back]

Outcome == [tag : {"none", "ok", "IOBoardError", "OtherError", "cancelled"},
            code : Kind \cup {NoKind}, back : 0..2]

\* back: how many transmissions ago the command was sent that the reply
\* answers, 2 standing for two or more.  age: ticks since the board answered.
Frame == [code : Kind, back : 0..2, age : 0..Latency, shape : Shape]

Monus(a, b)  == IF a > b THEN a - b ELSE 0
Aged(a)      == IF a < AgeCap THEN a + 1 ELSE a
Countdown(t) == IF t > 0 THEN t - 1 ELSE 0

\* The min_send_interval argument that commands._send_command passes.
MinSendInterval(k) == IF k \in Throttled THEN RequestGap ELSE 0

\* Mutant: nothing waits after a reply; the drain alone is shorter than the gap.
NoInterCommandWait == 0

\* What _respect_inter_command_gap and _respect_wire_min_gap still have to sleep.
InterCommandWait == Monus(InterGap, rxAge)
WireGapWait(k)   == IF k \in Throttled THEN Monus(MinSendInterval(k), txAge[k]) ELSE 0

Waiting == {"gap", "mingap", "backoff"}     \* asleep, holding the mutex
Reading == {"drain", "await", "stall"}      \* in a read of the serial stream
Working == Waiting \cup Reading

Complete(f) == f.shape \in {"whole", "corrupt"}
\* Mutant: the code of a reply is not compared with the request's.
AnswersAnything(f, k) == f.shape = "whole"

Answers(f, k) == f.shape = "whole" /\ f.code = k

Without(q, i) == SubSeq(q, 1, i - 1) \o SubSeq(q, i + 1, Len(q))

-----------------------------------------------------------------------------
Init == /\ mutex = <<>>
        /\ pc = [c \in Client |-> "idle"]
        /\ req \in [Client -> Kind]
        /\ attempt = [c \in Client |-> 0]
        /\ delay = [c \in Client |-> 0]
        /\ timer = [c \in Client |-> 0]
        /\ result = [c \in Client |-> Pending]
        /\ conn = "closed" /\ plugged = TRUE
        /\ wire = <<>> /\ rx = <<>> /\ lastSent = NoKind
        /\ txAge = [k \in Throttled |-> AgeCap]
        /\ rxAge = AgeCap

Goto(c, label, t) == /\ pc' = [pc EXCEPT ![c] = label]
                     /\ timer' = [timer EXCEPT ![c] = t]

\* Leaving "async with _serial_mutex": the locals of the call are gone.
Leave(c, r) == /\ Goto(c, "idle", 0)
               /\ attempt' = [attempt EXCEPT ![c] = 0]
               /\ delay' = [delay EXCEPT ![c] = 0]
               /\ result' = [result EXCEPT ![c] = r]
               /\ UNCHANGED req

Release(c, r) == Leave(c, r) /\ mutex' = Tail(mutex)

\* A task calls fetch() and queues for the mutex.
Request(c, k) ==
    /\ pc[c] = "idle"
    /\ mutex' = Append(mutex, c)
    /\ pc' = [pc EXCEPT ![c] = "lock"]
    /\ req' = [req EXCEPT ![c] = k]
    /\ result' = [result EXCEPT ![c] = Pending]
    /\ UNCHANGED <<attempt, delay, timer, line, ages>>

Owns(c) == mutex # <<>> /\ Head(mutex) = c

-----------------------------------------------------------------------------
\* get_serial_connection: reuse a live connection, open a new one, or fail.

BeginAttempts(c) ==
    /\ Goto(c, "gap", InterCommandWait)
    /\ attempt' = [attempt EXCEPT ![c] = 1]
    /\ delay' = [delay EXCEPT ![c] = InitialRetryDelay]
    /\ UNCHANGED <<mutex, req, result>>

Reuse(c) ==
    /\ pc[c] = "lock" /\ Owns(c) /\ conn = "open"
    /\ BeginAttempts(c)
    /\ UNCHANGED <<line, ages>>

\* The driver's input buffer is empty after an open.
Open(c) ==
    /\ pc[c] = "lock" /\ Owns(c) /\ conn = "closed" /\ plugged
    /\ conn' = "open" /\ rx' = <<>>
    /\ IF LowLatencyRefused     \* ValueError, with reader and writer already set
       THEN Release(c, Failed("OtherError"))
       ELSE BeginAttempts(c)
    /\ UNCHANGED <<plugged, wire, lastSent, ages>>

\* Mutant: the mutex is not released when the port cannot be opened.
OpenRefusedLocked(c) ==
    /\ pc[c] = "lock" /\ Owns(c) /\ conn = "closed" /\ ~plugged
    /\ Leave(c, Failed("IOBoardError"))
    /\ UNCHANGED <<mutex, line, ages>>

OpenRefused(c) ==
    /\ pc[c] = "lock" /\ Owns(c) /\ conn = "closed" /\ ~plugged
    /\ Release(c, Failed("IOBoardError"))
    /\ UNCHANGED <<line, ages>>

\* writer.wait_closed() raises the exception the connection died of, so the
\* globals keep the dead connection.
Reclose(c) ==
    /\ pc[c] = "lock" /\ Owns(c) /\ conn = "lost"
    /\ Release(c, Failed("OtherError"))
    /\ UNCHANGED <<line, ages>>

-----------------------------------------------------------------------------
\* One attempt of the retry loop.

GapDone(c) ==
    /\ pc[c] = "gap" /\ timer[c] = 0
    /\ Goto(c, "mingap", WireGapWait(req[c]))
    /\ UNCHANGED <<mutex, req, attempt, delay, result, line, ages>>

\* Mutant: only what is in the buffer already is drained.
MinGapDoneEager(c) ==
    /\ pc[c] = "mingap" /\ timer[c] = 0
    /\ Goto(c, "drain", 0)
    /\ UNCHANGED <<mutex, req, attempt, delay, result, line, ages>>

MinGapDone(c) ==
    /\ pc[c] = "mingap" /\ timer[c] = 0
    /\ Goto(c, "drain", DrainQuiet)
    /\ UNCHANGED <<mutex, req, attempt, delay, result, line, ages>>

\* Mutant: one read ends the drain.
DrainOnce(c) ==
    /\ pc[c] = "drain" /\ conn = "open" /\ rx # <<>>
    /\ rx' = <<>>
    /\ Goto(c, "drain", 0)
    /\ UNCHANGED <<mutex, req, attempt, delay, result, conn, plugged, wire, lastSent, ages>>

\* _drain_stale_input read a chunk and reads again.
DrainMore(c) ==
    /\ pc[c] = "drain" /\ conn = "open" /\ rx # <<>>
    /\ rx' = <<>>
    /\ Goto(c, "drain", DrainQuiet)
    /\ UNCHANGED <<mutex, req, attempt, delay, result, conn, plugged, wire, lastSent, ages>>

Older(s) == [i \in 1..Len(s) |-> [s[i] EXCEPT !.back = IF @ < 2 THEN @ + 1 ELSE @]]

\* What the board sends when it receives k: nothing, the answer to k, or the
\* answer to the command before k.
Reply(k, b, s) == [code |-> k, back |-> b, age |-> 0, shape |-> s]

Reaction(k) ==
    {<<>>} \cup IF Len(wire) + Len(rx) >= Backlog THEN {}
               ELSE {<<Reply(k, 0, s)>> : s \in Shapes} \cup
                    IF Replays /\ lastSent # NoKind THEN {<<Reply(lastSent, 1, "whole")>>}
                                                   ELSE {}

\* The drain has been quiet: the request is written and its times are kept.
Transmit(c) ==
    /\ pc[c] = "drain" /\ timer[c] = 0 /\ conn = "open"
    /\ \E answer \in Reaction(req[c]) : wire' = Older(wire) \o answer
    /\ rx' = Older(rx)
    /\ lastSent' = req[c]
    /\ txAge' = [k \in Throttled |-> IF k = req[c] THEN 0 ELSE txAge[k]]
    /\ Goto(c, "await", HeaderTimeout)
    /\ UNCHANGED <<mutex, req, attempt, delay, result, conn, plugged, rxAge>>

\* Mutants: one attempt too many; another task may go first during the
\* backoff; the connection survives the last failure.
RetryOnceMore(c) ==
    IF attempt[c] <= MaxRetries
    THEN /\ Goto(c, "backoff", delay[c])
         /\ delay' = [delay EXCEPT ![c] = @ * BackoffMultiplier]
         /\ UNCHANGED <<mutex, req, attempt, result, conn>>
    ELSE conn' = "closed" /\ Release(c, Failed("IOBoardError"))

RetryBehindOthers(c) ==
    IF attempt[c] < MaxRetries
    THEN /\ Goto(c, "backoff", delay[c])
         /\ delay' = [delay EXCEPT ![c] = @ * BackoffMultiplier]
         /\ mutex' = Append(Tail(mutex), c)
         /\ UNCHANGED <<req, attempt, result, conn>>
    ELSE conn' = "closed" /\ Release(c, Failed("IOBoardError"))

RetryOrJustRaise(c) ==
    IF attempt[c] < MaxRetries
    THEN /\ Goto(c, "backoff", delay[c])
         /\ delay' = [delay EXCEPT ![c] = @ * BackoffMultiplier]
         /\ UNCHANGED <<mutex, req, attempt, result, conn>>
    ELSE Release(c, Failed("IOBoardError")) /\ UNCHANGED conn

\* The attempt failed: sleep and try again, or reset the connection and raise.
RetryOrRaise(c) ==
    IF attempt[c] < MaxRetries
    THEN /\ Goto(c, "backoff", delay[c])
         /\ delay' = [delay EXCEPT ![c] = @ * BackoffMultiplier]
         /\ UNCHANGED <<mutex, req, attempt, result, conn>>
    ELSE IF conn = "open"
         THEN conn' = "closed" /\ Release(c, Failed("IOBoardError"))
         ELSE UNCHANGED conn /\ Release(c, Failed("OtherError"))

Accept(c) ==
    /\ pc[c] = "await" /\ conn = "open" /\ rx # <<>>
    /\ Answers(Head(rx), req[c])
    /\ rx' = Tail(rx) /\ rxAge' = 0
    /\ Release(c, Ok(Head(rx)))
    /\ UNCHANGED <<conn, plugged, wire, lastSent, txAge>>

\* A complete frame with a bad checksum or of another kind; or the rest of a
\* cut frame run together with the frame that came next.
Reject(c) ==
    /\ conn = "open" /\ rx # <<>>
    /\ \/ pc[c] = "await" /\ Complete(Head(rx)) /\ ~Answers(Head(rx), req[c])
       \/ pc[c] = "stall"
    /\ rx' = Tail(rx) /\ rxAge' = 0
    /\ RetryOrRaise(c)
    /\ UNCHANGED <<plugged, wire, lastSent, txAge>>

\* The header byte, or everything but the checksum, of a cut frame was read.
Stall(c) ==
    /\ pc[c] = "await" /\ conn = "open" /\ rx # <<>> /\ ~Complete(Head(rx))
    /\ rx' = Tail(rx)
    /\ Goto(c, "stall", IF Head(rx).shape = "nobody" THEN BodyTimeout ELSE ChecksumTimeout)
    /\ UNCHANGED <<mutex, req, attempt, delay, result, conn, plugged, wire, lastSent, ages>>

TimedOut(c) ==
    /\ pc[c] \in {"await", "stall"} /\ timer[c] = 0
    /\ RetryOrRaise(c)
    /\ UNCHANGED <<plugged, wire, rx, lastSent, ages>>

\* Mutants: a retry passes over the gaps; or over the gaps and the drain.
BackoffDoneNoGaps(c) ==
    /\ pc[c] = "backoff" /\ timer[c] = 0
    /\ Goto(c, "drain", DrainQuiet)
    /\ attempt' = [attempt EXCEPT ![c] = @ + 1]
    /\ UNCHANGED <<mutex, req, delay, result, line, ages>>

BackoffDoneNoDrain(c) ==
    /\ pc[c] = "backoff" /\ timer[c] = 0
    /\ Goto(c, "drain", 0)
    /\ attempt' = [attempt EXCEPT ![c] = @ + 1]
    /\ UNCHANGED <<mutex, req, delay, result, line, ages>>

BackoffDone(c) ==
    /\ pc[c] = "backoff" /\ timer[c] = 0
    /\ Goto(c, "gap", InterCommandWait)
    /\ attempt' = [attempt EXCEPT ![c] = @ + 1]
    /\ UNCHANGED <<mutex, req, delay, result, line, ages>>

\* The read raises serial.SerialException, and so does the reset.
ReadFails(c) ==
    /\ pc[c] \in Reading /\ conn = "lost"
    /\ Release(c, Failed("OtherError"))
    /\ UNCHANGED <<line, ages>>

\* Mutant: a task that is cancelled while it waits keeps its place in the queue.
CancelInPlace(c) ==
    /\ AllowCancel /\ pc[c] # "idle"
    /\ mutex' = IF pc[c] = "lock" THEN mutex ELSE Tail(mutex)
    /\ Leave(c, Failed("cancelled"))
    /\ UNCHANGED <<line, ages>>

\* CancelledError is not an Exception: the connection is not reset.
Cancel(c) ==
    /\ AllowCancel /\ pc[c] # "idle"
    /\ \E i \in 1..Len(mutex) : mutex[i] = c /\ mutex' = Without(mutex, i)
    /\ Leave(c, Failed("cancelled"))
    /\ UNCHANGED <<line, ages>>

-----------------------------------------------------------------------------
\* The line and the clock.

Deliver ==
    /\ wire # <<>>
    /\ wire' = Tail(wire)
    /\ rx' = IF conn = "open" THEN Append(rx, Head(wire)) ELSE rx
    /\ UNCHANGED <<tasks, conn, plugged, lastSent, ages>>

\* The stream reader prefers its exception to the bytes it holds.
Unplug ==
    /\ Unplugs /\ plugged
    /\ plugged' = FALSE /\ wire' = <<>> /\ rx' = <<>>
    /\ conn' = IF conn = "open" THEN "lost" ELSE conn
    /\ UNCHANGED <<tasks, lastSent, ages>>

Replug ==
    /\ ~plugged /\ plugged' = TRUE
    /\ UNCHANGED <<tasks, conn, wire, rx, lastSent, ages>>

Grown(s) == [i \in 1..Len(s) |-> [s[i] EXCEPT !.age = @ + 1]]

Tick ==
    /\ \A i \in 1..Len(wire) : wire[i].age < Latency
    /\ LoopPrompt /\ rx # <<>> => \A c \in Client : pc[c] \notin Reading
    /\ timer' = [c \in Client |-> Countdown(timer[c])]
    /\ wire' = Grown(wire)
    /\ txAge' = [k \in Throttled |-> Aged(txAge[k])]
    /\ rxAge' = Aged(rxAge)
    /\ UNCHANGED <<mutex, pc, req, attempt, delay, result, conn, plugged, rx, lastSent>>

-----------------------------------------------------------------------------
Connect(c) == Reuse(c) \/ Open(c) \/ OpenRefused(c) \/ Reclose(c)

Exchange(c) == \/ GapDone(c) \/ MinGapDone(c) \/ DrainMore(c) \/ Transmit(c)
               \/ Accept(c) \/ Reject(c) \/ Stall(c) \/ TimedOut(c)
               \/ BackoffDone(c) \/ ReadFails(c)

Fetch(c) == Connect(c) \/ Exchange(c)

Calls(c) == (\E k \in Kind : Request(c, k)) \/ Fetch(c) \/ Cancel(c)

Next == (\E c \in Client : Calls(c)) \/ Deliver \/ Unplug \/ Replug \/ Tick

\* The event loop runs every task that is ready, bytes that were sent arrive,
\* and time passes.  Nobody has to call, to cancel, or to plug anything in.
Fairness == /\ \A c \in Client : WF_vars(Fetch(c))
            /\ WF_vars(Deliver) /\ WF_vars(Tick)

Safety == Init /\ [][Next]_vars
Spec   == Safety /\ Fairness

-----------------------------------------------------------------------------
TypeOK ==
    /\ mutex \in Seq(Client)
    /\ pc \in [Client -> {"idle", "lock"} \cup Working]
    /\ req \in [Client -> Kind]
    /\ attempt \in [Client -> 0..MaxRetries]
    /\ delay \in [Client -> Nat]
    /\ timer \in [Client -> Nat]
    /\ result \in [Client -> Outcome]
    /\ conn \in {"closed", "open", "lost"} /\ plugged \in BOOLEAN
    /\ wire \in Seq(Frame) /\ rx \in Seq(Frame)
    /\ lastSent \in Kind \cup {NoKind}
    /\ txAge \in [Throttled -> 0..AgeCap] /\ rxAge \in 0..AgeCap

\* The mutex holds every task that is inside fetch() once, and only its owner
\* is past "async with _serial_mutex": a retry, its backoff included, never
\* lets another command in (ARCHITECTURE.md: one mutex owns the transaction).
Exclusive ==
    /\ \A i, j \in 1..Len(mutex) : mutex[i] = mutex[j] => i = j
    /\ \A c \in Client : pc[c] # "idle" <=> \E i \in 1..Len(mutex) : mutex[i] = c
    /\ \A c \in Client : pc[c] \in Working => Owns(c)

\* A board that answers in time never has two replies under way: whatever a
\* timeout, a cut frame or a reset left behind is gone before the next request.
OneReplyInFlight == Len(wire) + Len(rx) <= 1

\* fetch() returns the reply to the very request it sent in its last attempt,
\* never one that an earlier attempt or an earlier caller left on the line; a
\* board that repeats itself can make it at most one command old.
FreshReply == \A c \in Client :
    result[c].tag = "ok" => result[c].back <= IF Replays THEN 1 ELSE 0

Transmits(c) == pc[c] = "drain" /\ pc'[c] = "await"

\* Two transmissions of a throttled request are RequestGap apart, whichever
\* caller or retry sent them: closer ones corrupt the signs of the loadcells.
RequestGapKept == [][\A c \in Client : Transmits(c) /\ req[c] \in Throttled =>
                        txAge[req[c]] >= RequestGap]_vars

\* A request follows the last frame that fetch() read by InterGap.
InterGapKept == [][\A c \in Client : Transmits(c) => rxAge >= InterGap]_vars

\* An exchange that raises never leaves its connection for the next request.
FailureResets == [][\A c \in Client :
    pc[c] \in Working /\ result'[c].tag \in {"IOBoardError", "OtherError"}
        => conn' # "open"]_vars

\* Whoever calls fetch() returns from it: no retry, drain or dead port holds
\* the mutex for ever.
Returns == \A c \in Client : pc[c] = "lock" ~> pc[c] = "idle"

Service == INSTANCE SerialService WITH
               queue <- mutex, asked <- req,
               outcome <- [c \in Client |-> [tag |-> result[c].tag, code |-> result[c].code]]

\* fetch() is the service of SerialService: the retries, the timeouts and the
\* resets never show, but as one reply of the right kind or one error.
ImplementsService == Service!SSpec

\* Without its fairness, and so also where callers may be cancelled: one
\* request at a time, in order of arrival, each answered in its own kind.
ServesInOrder == Service!SSafety

\* Docstring of fetch(): it manages the connection itself and resets it on an
\* error.  So once the port stays, a dead connection is replaced, provided
\* that somebody keeps asking.
Reconnects == (<>[]plugged /\ []<>(\E c \in Client : pc[c] = "lock"))
                => []<>(conn # "lost")
=============================================================================
