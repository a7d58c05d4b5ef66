# CRK-IO-BOARD, specified in TLA+

The repository is a small HTTP service (FastAPI, one asyncio event loop) in front
of the IO board of a vending cabinet: ten loadcells, a door sensor and a deadbolt
behind one serial line.  These modules model the parts of it that keep state, and
the codec and the filters that decide what that state is about.  TLC checks them on
small instances; TLAPS proves, for all values of their constants, every safety property
that the passing runs check (invariants and action properties), and what the frames and
the weight filters let through, which no run can reach.  Liveness is left to TLC.

## 1. The system

All of it runs in one event loop.  A task runs until it awaits something that is
not ready, so concurrency means interleaving at awaits, and the hazards are state
that is read before an await and used after it, exchanges that are cut short, and
results that come too late.

| component | source (under `src/src/`) | state | operations |
|---|---|---|---|
| serial transport | `services/io_board/serial_io.py` | `_serial_mutex`, reader and writer, `_last_request_tx`, `_last_rx_complete_time` | `fetch`: own the line, connect, keep the gaps, drain, send, read in three stages, retry with backoff, reset |
| frame protocol | `services/io_board/protocol.py` | none | `build_request`, `parse_response`, checksum |
| commands | `services/io_board/commands.py` | loadcell gate, cached frame | one exchange per command; `get_loadcells` throttled and cached; `calibrate` resets cache and sanitizer |
| sanitizer | `services/io_board/sanitizer.py` | per channel: last value, its time, flip streak, bin, window | `sanitize`, `reset` |
| polling services | `services/polling/` | subscribers, event, loop task; one `StreamQueue` per subscriber | `start`, `stop`, `subscribe`, `unsubscribe`, `_loop` |
| recording | `services/recording.py` | event, queue, list of recordings, task | `start_recording`, `stop_recording`, `retrieve_recording`, `_loop` |
| error state tracker | `services/error_state_mgmt.py` | expected deadbolt state and since when, when the door was last closed | `set_deadbolt_action`, `deadbolt_error`, `door_error`, `_loop` |
| machine routes | `api/v1/routers/machine.py` | operation lock of the deadbolt | `POST /deadbolt`, `GET /health`, reads |
| SSE streams | `api/v1/routers/sse.py` | per client: generator, one task per stream, event queue, detector | subscribe, poll, emit, clean up |
| change detection | `io_board/events.py`, `io_board/filters.py` | previous weights, filter state | `process`, `detect_uncertainties`, `reset` |
| lifespan | `main.py` | the services, `stop_event` | start them, stop them |
| management routes, config, logging, errors | the rest | none that matters here | one command each; parsing |

How they interact.  The routes, the two polling loops (loadcells, IO status) and
the recordings all reach the board through `commands`, and `commands` through
`fetch`: the mutex of `fetch` is the only thing that orders them.  A polling loop
puts its results into the queue of every subscriber: the recording, the error
state tracker, one queue per SSE client.  `POST /deadbolt` records what it wants
in the tracker and sends the command; the next polls tell the tracker whether the
bolt followed, and `GET /health` asks the tracker.  `calibrate` reaches into the
cache and the sanitizer that `get_loadcells` uses.

What is hard.  Replies carry no sequence number, only the code of their command,
so a late reply to a retried request looks like the reply to the retry
(`docs/KNOWN_RESPONSE_MISMATCH.md`).  The firmware corrupts the signs of the
loadcells when it is asked too often, so gaps must hold between any two
transmissions, retries included.  Every exchange suspends many times with the
line half-way through.  Queues are replaced and shut down while a task waits in
them; streams end at any suspension; polls report a world that has moved on.

What makes each part correct:

- transport: one exchange at a time, in order of arrival; a reply answers the
  transmission it is returned for; gaps kept; a failed exchange leaves no
  connection behind; every call returns;
- commands: no weight from before a calibration after it; one reader; no deadlock
  of gate and mutex;
- sanitizer: short glitches do not show, and a wrong lock-in ends; the value
  shown stays close to the value and does not flap;
- frames: what is delivered is what was sent, whatever the line did to it;
- filters: no alarm that the readings do not account for;
- polling: every subscriber is fed, nobody is polled for when nobody is there;
- recording: every good poll, once, in order, across restarts;
- SSE: no change of weight unreported; every stream ends and unsubscribes;
- deadbolt: operations do not mix; a bolt that does not move and a door that
  stays open are reported, also to a probe that asks in the middle; what has
  recovered is no longer reported;
- lifespan: the stop of the server ends, whatever everybody was doing.

## 2. The modules

    SerialService    what fetch() promises             (abstract specification)
      ^ implemented by
    SerialIO         fetch() itself
      ^ extended by SerialQuiet, an observer of the line      SerialIO_proofs
    Frames           the bytes of a frame                     FramesFilters_proofs
    LoadcellCommands extends SerialService                    LoadcellCommands_proofs
    Sanitizer        one channel
      ^ extended by Channel, the events of a stream behind it Channel_proofs
    Filters          a detector with its weight filter        FramesFilters_proofs
    Polling          loop, subscribers, queues
      ^ extended by Recording                                 Recording_proofs
      |             Sse                                       Sse_proofs
      |             Deadbolt, and that by Health              Health_proofs
      ^ instantiated twice by Lifespan                        Lifespan_proofs

`LoadcellCommands` is written against the abstract `SerialService`, which
`SerialIO` is shown to implement: so what holds of the commands holds of the
commands over the retries and timeouts of `SerialIO`.  `Recording`, `Sse` and
`Deadbolt` use the loop and the queues of `Polling` and bring the consumers;
`Lifespan` runs both polling services with all of their subscribers, and leaves out
what these do with a result.  `Polling` has no specification of its own.
The `MC*` modules only declare model values, define inputs and symmetry.

### SerialIO (`serial_io.py`)

Each task is at a place of `fetch`: `lock` (queueing for the mutex), `gap`,
`mingap` and `backoff` (asleep), `drain`, `await` and `stall` (reading; `stall`
is the rest of a frame that was cut).  An action is what the code does between
two suspensions, the reset and the release of the mutex included.  `mutex` is the
FIFO of `asyncio.Lock`, its head the owner.  Timestamps are ages that saturate,
sleeps and read timeouts count down; a sleep never ends early and may end late.
A reply is one frame with its code, how many transmissions ago its command was
sent (`back`, a ghost), its age, and how it reaches the host: whole, corrupt, cut
after its header or before its checksum.  The environment may lose a reply, repeat
the previous one (`Replays`), unplug the port (`Unplugs`), cancel a caller
(`AllowCancel`), refuse the low latency mode, or run the loop late (`LoopPrompt`
is FALSE).  `conn = "lost"` is a connection that died: `wait_closed()` raises for
it each time.  The sizes of chunks, bytes and diagnostics are left out.

`SerialService` is the same seen from the callers: a queue, `Submit`, `Serve` with
a reply of the right kind or a failure, `Withdraw`.  `ImplementsService` is the
refinement, with the mutex as the queue.  `SerialQuiet` adds the age of the last
byte received, which no action reads; like the other ages it saturates, no earlier than
the quiet time of the drain (`QuietAssumption`).

### Frames (`protocol.py`, and the receiving half of `serial_io.py`)

A byte is the set of its bits, so that the checksum is parity, bit by bit.  `Frame`
is what `build_request` makes and the board sends.  `Received` is what
`_fetch_with_timeout` cuts out of the line (up to the first ETX after the first byte,
and one more), `Fetched` what `fetch` takes for the reply, `Parsed` what
`parse_response` makes of it, which goes by the length of the data and not by where
the frame ends.  Functions of their input, they are the subject of theorems only;
their outcome is what `SerialIO` calls whole, corrupt or cut and `LoadcellCommands`
calls `Parses`.

### LoadcellCommands (`commands.py`)

The data of a frame is its epoch, the number of calibrations of the board when it
measured.  `gate` is `_loadcell_gate`, `cache` the frame and its age, `memory` the
epochs of what the sanitizer remembers.  `ReadOk` is everything from the return of
`fetch` to the return of `get_loadcells`, where nothing awaits.  The board acts on
a command zero or more times in an exchange, whatever becomes of the reply.  Of
`protocol.py` it takes that a frame which `fetch` returned parses (`Parses`) or
raises; the failure of a call is either of the two.

### Sanitizer (`sanitizer.py`)

One channel, since channels share nothing.  `Sanitize` is one call for a number
that came in time or late; `EEEEEE` and `VVVVVV` are no step.  The ghosts hold the
true load, the length of the current runs of right and of glitched frames, and the
value at the last change of the bin.  `CleanFrame` and `GlitchedFrame` are the
device: a glitch turns the sign and nothing else
(`docs/FIRMWARE_SIGN_GLITCH_REQUEST.md`).

### Channel, Filters (`events.py`, `filters.py`)

`Channel` puts the change detector of a stream behind the sanitizer.  Every frame
goes to the sanitizer, and to the detector only if the polling asked for it: the
others went to callers of `GET /loadcells`.  Frames with `EEEEEE`, failed polls, new
clients and calibrations each reset one of the two at most.  `base` is the load at
the detector's last frame, if the value shown was bound to be right then.

`Filters` is the detector with any of the three filters and either scope, on one
channel.  Weights are whole numbers of a unit which may be as small as one likes, and
the estimate is rounded to it.  The factors are fractions of `One`.

### Polling, Recording, Sse, Deadbolt, Health, Lifespan

`Polling`: `loop` is where `_loop` stands.  `woken` is the interval between
`set()` and the moment the waiter runs: `wait()` then returns even if the event
was cleared meanwhile.  `put()` on a shut queue raises, and those of the set that
were not reached go without; that is `Reached`.

`Recording`: the task waits in `get()` of the queue it looked up (`from`), which
`stop_recording` may have replaced (`current`) since.  `TaskStep` takes what the
get returned and then, as the code does without suspending, everything queued; `Taken`
goes through these results one after the other and leaves the failed ones out.

`Sse`: generator and task are at their suspensions (`check`: about to test
`stop_event`; `asked`: in `is_disconnected()`); the `finally` block up to its
`gather` is one step.  A result is a reading, a frame with an error, a failure of
the service's own class or another exception; weights are those after the filter.
`stream` says which of the two streams the clients ask for: `LoadcellEvents` and
`DoorEvents` are what `poll_loadcells` and `poll_doors` make of a result, and the
rest is shared.  A client of both streams at once is in `Lifespan`.

`Deadbolt`: the operation of `POST /deadbolt` place by place, the tracker's `_loop`
(`Track`), and the poll in two halves, `Measure` by the board and `Deliver`, since
a request may be made in between.  The actuator moves late or never.

`Health` is `GET /health` beside all of `Deadbolt`: the verdict on the door at once,
that of the tracker after the weights have come, and that of the sensors with the
status.  `told` is what is UNHEALTHY so far, `lasting` the faults that have been there
since the question.  The door is moved here, since `Deadbolt` by itself does not turn
on it.

`Lifespan`: `app` is where `lifespan` stands between the start and the exit; each
`stop()` waits for the task it has cancelled.  A stream subscribes to either service
or to both, with one task for each.  The server waits for its streams only up to
`timeout_graceful_shutdown`, which `core/config.py` makes positive, so `StopRecorder`
may come while any of them is still open.

## 3. What the runs check

Every run passes with its bounds unless it is marked *violation*: those confirm a
place where the code does not do what a text of the repository says (section 5).

| run | question | instance |
|---|---|---|
| `serial` | does `fetch` return only replies to its own last transmission, alone on a silent line, with its gaps; does every call return; is it `SerialService`? | `SerialQuiet`: 2 tasks, a throttled and another kind, 3 attempts, four shapes of a reply, repeated replies, unplugging, latency below timeout + drain |
| `serial_harsh` | what still holds with later replies, a late loop, cancellation and a driver that refuses? | 2 tasks, 2 attempts, two shapes, everything switched on |
| `serial_reconnect` | *violation*: is a dead connection replaced? | unplugging |
| `loadcells` | calibration against cache and memory; one reader; everyone answered | 2 tasks, 3 kinds, 2 calibrations |
| `channel` | do glitches stay hidden, does a wrong lock-in end, is the value shown close and steady; is a load that moves reported, and no other? | all sequences of right, glitched, late and error frames, for the stream or for others, with and without the median; loads around zero, within the tolerance of each other, at the edge of a bin, and at the five-digit limit |
| `lifespan` | do the events tell the truth, is no shut queue subscribed; is everyone fed, do the loops rest; does the stop end? | both services, recording, tracker, a client of either or both streams |
| `recording` | every good poll once and in order; what is queued gets recorded | 2 stops, 3 polls, another subscriber |
| `recording_stop` | *violation*: is nothing recorded after the stop? | 1 stop, 2 polls |
| `sse` | does a change, or an uncertainty, always show; does every stream end and unsubscribe? | a client of either stream, polls of every kind without limit, weights on both sides of the threshold |
| `health` | is a stuck bolt, or an open door, reported; is a fault that lasts told by the probe? | 1 task that operates, 1 that probes, limits of 1 tick |
| `deadbolt_live` | do operations mix; is every request answered; is a bolt that arrived forgotten? | 2 tasks, limit of 1 tick |
| `deadbolt_stale` | *violation*: is a stuck bolt always reported? | 2 tasks, limit of 2 ticks |

Why the bounds are enough.  Ages saturate at the largest duration they are
compared with, so no cap hides a behaviour.  Timeouts, delays and gaps are a few
ticks each, with the order that the configuration has where it matters: latency
above the header timeout, so that late replies exist, and below timeout + drain
in `serial`; there the gap after a reply is longer than the drain, as configured,
or the drain alone would keep it, and the gap of the throttled kind is above both.  Two tasks
and two kinds make every confusion of replies, and a reader at the gate beside a
calibration.  `Relatch` is 3 as configured.  One client is enough for `sse`, since
streams meet only in the set of subscribers, where `lifespan` has a client beside the
recording and the tracker; for any number of clients its safety is proved.  One
operating task is enough for `health`: operations follow one another under the lock,
which `deadbolt_live` checks with two (`OwnCommand`).  The loads of `channel` are on
both sides of zero, of a bin and of the threshold; without the quantizer (`Step = 0`) its
properties are proved.
`MaxBacklog`, `MaxPolls` (of the recording), `MaxStops`, `MaxEvents`, `MaxEpoch` and
`Backlog` bound what the code does not: each lets the case happen that its
property is about, twice where a repetition could matter.

`CHECK_DEADLOCK FALSE` is set in `sse` and `lifespan` only: a server that has stopped
has nothing to do.  Symmetry of tasks is used in safety runs only.

### Fairness

- `SerialIO`: every task that can run does, bytes that were sent arrive, time
  passes.  That is the event loop, the line and the clock.  Nobody must call.
- `LoadcellCommands`: `fetch` returns, which is `Returns` of SerialIO, and the
  tasks run.
- `Polling`: the loop runs, `fetch` and `sleep` end, and subscribers take what they
  get (the code's queues are unbounded; the model's must not hold it up).
- `Lifespan`: the same for both services and for recording, tracker and the tasks of
  the streams; `lifespan` goes on when what it waits for has ended, and a generator
  leaves that has reason to.  Nobody must connect, leave, or stop the server.
- `Recording`, `Sse`: the tasks run.  Nobody must connect, leave or stop.
- `Deadbolt`: the same, and strong fairness of `Measure`, `Deliver` and `Tick`: polls
  fail, but not for ever, and the clock moves on although polls intervene.
  `Cleared` needs it, as a board that never answers shows nothing.

## 4. What is proved

Each theorem holds for every value of the constants that satisfies the named assumptions
of its module, which TLC evaluates in every run.  They are the bounds of
`core/config.py`, and what the code fixes (`Queue = {Tracker}`).  One goes beyond the code:
the threshold in `Sse` is not negative, which the route does not see to (section 5); with
a negative one every frame is a change.  A property is seldom inductive as it stands; each section says what had to be
added and why.

### The transport

`SerialIO_proofs` proves of `Safety` (so of `Spec`), for every set of tasks and
kinds and all durations:

| theorem | statement |
|---|---|
| `Types` | `[]TypeOK` |
| `Exclusion` | `[]Exclusive`: the mutex holds each task in `fetch` once, and only its head works |
| `RequestGaps`, `InterGaps` | the action properties of the two gaps |
| `Resets` | an exchange that raises leaves no open connection |
| `OneReply`, `Freshness` | under `Punctual`, one reply in flight at most, and a result answers the last transmission (the one before, if the board replays) |
| `SilentLine` | under `Punctual`, a request goes out on a silent line with nothing unread |
| `Refinement` | `Safety => Service!SSafety`, step by step, with the mutex as the queue |

The constants satisfy the named assumptions of `SerialIO`, which are the bounds of
`core/config.py`; `Punctual` says that a reply takes less than the header timeout
and the drain together, that a reader runs before its timeout is due, and that
nobody is cancelled in an exchange.  It is needed: without any one of them TLC
finds a reply returned for a later request.

The argument.  `Exclusive` is inductive once types are known, and gives that at
most one task touches the line.  The gaps follow from an invariant that says what
the timer still has to count: while the owner sleeps in `gap` (`mingap`), the age of
the last reception (transmission) plus the timer reaches the gap, and from there to
the transmission ages only grow, since only the owner resets them.  `OneReply` and
`Freshness` need more: `WireInv` says that what is on the wire is at most one frame,
young enough to arrive before the owner's current timer and the drain to come are
over, and `BufferInv` that what is in the receive buffer belongs to the
transmission being awaited.  `OneReplyInFlight` alone is not inductive: it does
not say that the drain will outlast the reply.  `SilentLine` adds `Silence`: while a drain
waits, the age of the last byte and what is left of the drain make up the quiet time, or
there are bytes to read, and then, the loop being prompt, the clock stands until they
are read and the drain begins anew.  The refinement maps each action to
`Submit`, `Serve`, `Withdraw` or a stutter; that `Serve` is by the head of the queue
is `Exclusive` again.

### The loadcell commands

`LoadcellCommands_proofs` proves of `LSafety`, for any callers, kinds, throttle and
number of calibrations, `OneReader` (`Readers`), `NoWeightBeforeCalibration`
(`WeightsSince`) and `MemorySinceCalibration` (`MemoriesSince`).  None is inductive.
`Queues` says that gate and line hold exactly the tasks that are there, each once, and
that a reader owns the gate; `Epochs` that the board has measured for the head of the
line only, and that whatever was measured, cached or remembered is at least as young as
the last calibration that returned.  The crux is `calibrate()`, which takes no gate:
when it returns, it was the head of the line, so no reader has a frame in hand, and the
cache and the memory it empties can only be filled from later frames.

### The sanitizer and the channel

`Channel_proofs` proves for every setting of tolerance, magnitude, `relatch_frames`,
step (0, without the quantizer, included) and hysteresis, every threshold and any loads
of five digits, all in whole grams:

| theorem | statement |
|---|---|
| `RecoversHolds` | a wrong lock-in ends after `relatch_frames` correct frames |
| `GlitchesHiddenHolds` | fewer glitches in a row than that do not show |
| `NeverNegativeHolds` | with the median a positive load never looks negative |
| `CloseToValueHolds`, `NoFlappingHolds` | the value shown is close, and changes for a reason |
| `ChannelImplementsSanitizer` | `CSpec => Spec`, step by step: the above hold in the channel too |
| `RemovalReportedHolds`, `NoFalseAlarmHolds` | a load that moves is reported, and no other |

The first two fail to be inductive because they say nothing of the streak before it
reaches its limit.  `Recovering` counts: as long as the value is not the load, the streak
is at least as long as the run of correct frames.  `Hiding` counts the other way: after a
calm start the streak is at most the run of glitches, so it stays below the limit with
them (less than the run, if a glitch turned a zero round, which shows nothing).
`Outvoted` is `NeverNegative` before the sort: of three readings in the window one is
wrong at the most, of fewer none, and the youngest are right after right frames; that the
middle one of three with one wrong is right (`MiddleOf`), and that `HalfUp` moves a value
by half a step at the most, are lemmas about the operators.  `RemovalReported` relates two
frames with any number of others between them: `Compared` says that what the detector
remembers was close to the load (`base`) it was taken at, and the rest is the triangle
inequality.

### The frames

`FramesFilters_proofs` speaks of every line of bytes and every command:

| theorem | statement |
|---|---|
| `OnlyWhole` | what is delivered is what the line begins with, as the whole frame of the command that was asked |
| `RoundTrip` | a whole reply whose data hold no ETX is delivered, whatever follows |
| `DamageNoticed` | with one byte of it changed, nothing is delivered |
| `LossNoticed` | cut, or short of some bytes, nothing is |
| `RepetitionHarmless` | with one byte repeated, the right data or nothing |
| `EchoFails` | the echo of a request for data passes `fetch` and fails to parse |
| `ChecksumCountsEtx` | no checksum of the code is the one of the document |

The argument is `OnlyWhole`: `fetch` and the parser both find an ETX, the first one of
the line and the one at the place the length gives, and both check the parity up to it.
Since the frame ends at the first, that is the same place, and the bytes before it are
determined.  A changed byte then either changes the parity or moves the end.

### The filters

`FramesFilters_proofs` assumes `Settings`, what the routes and the constructors see to, and
proves of every filter and scope: the estimate stays within the readings since the
reset (`Bounded`, from the shares being between 0 and 1); a change is reported only if
they have spread by more than the threshold (`AlarmsAreReal`); and with scope
`filtered`, a filter that has settled never reports a load that changes by up to
threshold / alpha and stays there (`SlowStep`; `SlowStepKalman` with the gain the Kalman
filter has come down to), since each poll moves the estimate by at most the threshold.

### The subscriptions

`Lifespan_proofs` proves `FlagMeansSubscribers` (`Flags`) and `NoDeadQueue`
(`NobodyGoesWithout`) of `Safety`, for any number of streams.  The two are proved
together with the fact that the queue of the recording, which leaves itself subscribed
and may be subscribed again at any time, is never shut under that name.

### The recording

`Recording_proofs` proves `OpenQueues` (`QueuesOpen`), `RecordedInOrder`
(`RecordedOnceInOrder`) and `NothingMissed` (`NonePassedOver`) of `RSafety`, for any
number of stops and polls.  `Turns` says that the queues before the current one are shut,
those after it unused, and that only the current one is subscribed; `Empty`, that no task
sits in a `get()` with something to get; `Ordered`, that what is recorded comes before
what the queue of the waiting `get()` holds, and that before what the current queue holds.
That last part is what the property lacks: at a restart, the result the old `get()` has in
hand is taken together with the new queue, and only because it is older is the order kept.
`Kept` is `NothingMissed` one poll at a time.

`Taken` is a recursive function over a sequence of any length.  The induction theorems of
the library take an operator as a parameter, which the provers cannot instantiate; but
induction for sets of numbers (`SetInduction`) follows from the well-foundedness of `<`,
and with it `TakenFacts`: every good result is taken, none else, and in their order.

### The streams

`Sse_proofs` proves of `SseSafety`, for any clients, weights and threshold,
`NoDeadSubscriber` (`StreamsLeaveNoDeadQueue`) and the action property `NoTheftMissed`
(`TheftsAreTold`).  For the first, `Shutting`: a queue that is shut belongs to a generator
that is past its `finally`, which no step subscribes again.  For the second, `Comparing`:
the weight that was seen last is the one the detector compares with, unless an alarm has
been raised since; on the stream of the doors there is neither.  `WokenFor` says that a
task that was woken finds a result, without which the step after it has no meaning.

### The deadbolt, the tracker and the probe

`Health_proofs` proves, for any tasks, limits, backlog and pauses: `OwnCommand`
(`OwnCommandHolds`, of `DSafety`), `StuckBoltReported`, `OpenDoorReported` and
`LastingFaultsTold` (of `HSafety`, which contains the former).  `Operating` is the lock:
whoever is past it owns it, so nobody else gives the actuator an order.  `Waiting` is what
`StuckBoltReported` needs of the states before the limit: until the bolt gets where it was
wanted, and unless a status from before the request is about (`stale`), neither the status
on its way nor any in the queue shows it there, so the tracker cannot let go of the
request, and its clock runs with that of the request.  `DoorClocks` says that the door has
been seen open for no longer than it has not been seen closed.  `Telling` ties the verdicts
of the probe to the faults that last: those whose verdict was taken are told already.

### Only model-checked

Liveness and fairness: `Returns`, `ImplementsService` with its fairness (its steps are
`Refinement`), `Answered`, `Fed`, `Rests`, `Exits`, `Caught`, `Released`, `Cleared`.
TLAPS has no rules for `ENABLED` and `WF`.  The three violations are TLC's as well.

## 5. Where code and texts disagree

Shown by a run:

- `serial_reconnect`: `wait_closed()` raises before the globals are cleared, so
  a connection that died is never replaced (`serial_io.py:130`).
- `recording_stop`: a poll already delivered to the task is recorded after
  `stop_recording` has returned, also into the next recording (`recording.py:82`).
- `deadbolt_stale`: a status measured before a request settles it
  (`error_state_mgmt.py:116`).

Visible in the actions, without a run of their own:

- a dead port, or a driver that rejects the low latency mode, gives exceptions
  other than the `SerialCommunicationError` that the docstring of `fetch` names
  (`Reclose`, `ReadFails`, `Open`: outcome `OtherError`);
- a frame that the drain discards does not count for the inter-command gap: the
  line has then been silent for the drain, and `InterGapKept` is about the frames
  that `fetch` read;
- for a poll that fails with such an exception the loadcells stream sends an error
  and no uncertainty (`Emits`), although `events.py` treats every failure of the
  board as a potential theft; `NoTheftMissed` holds because the detector then keeps
  the weights from before;
- a door that is open when the program starts is not reported before the polls
  have shown it closed once: the premise of `OpenDoorReported`;
- `RecordingService.stop()` leaves its queue subscribed, where the tracker takes its own
  back first; it shuts nothing, so nobody goes without (`StopRecorder`);
- the threshold of a stream may be negative: no route excludes it, nor does `Settings` of
  `Filters`.

Shown by a proof:

- `docs/PROTOCOL.md:14` takes the checksum up to the ETX, the code counts it in
  (`ChecksumCountsEtx`);
- the comments at `serial_io.py:286` and `:475` say that a damaged reply is discarded in
  `fetch` and sent for again; an echo is not (`EchoFails`);
- `docs/API.md:138` says that a filtered threshold may react late; it may never react
  (`SlowStep`).

## 6. Not modelled

The check of the query parameters, the verdict of `GET /health` on the weights (a
function of one frame; it also calls the fractional readings of `docs/PROTOCOL.md:38`
UNHEALTHY), the routes that are one exchange, the management routes among them,
configuration, logging, the middleware and the mapping of exceptions to HTTP responses
keep no state that others depend on.  The diagnostic tools under `tools/` own their
serial port and are not part of the service.  Of the fields of a frame, what their
characters mean is left out, as is `PaddedString`, which takes NULs off the end of one;
of a weight, the decimal of the fractional firmware.

## 7. Plan

1. The composition of `Sse` with `Filters`: the uncertainty that covers a change while
   polls fail, for every filter.
2. What the theorems assume of each other, as theorems: that the failure of a frame to
   parse in `LoadcellCommands` is one of those that `FramesFilters_proofs` leaves.
3. The fractional readings in `Sanitizer`, as tenths of a gram.
