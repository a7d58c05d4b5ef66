--------------------------- MODULE LoadcellCommands ---------------------------
(***************************************************************************)
(* services/io_board/commands.py: the callers of the serial service.       *)
(* get_loadcells() shares one gate, one cached frame and one sanitizer     *)
(* among its callers; calibrate() throws the cache and the sanitizer's     *)
(* memory away, and takes no gate; every other command only queues for the *)
(* serial line.  serial_io.fetch is the service of SerialService.          *)
(*                                                                         *)
(* The data that matters of a frame is its epoch: how many times the board *)
(* had been calibrated when it measured.                                   *)
(***************************************************************************)
EXTENDS SerialService

CONSTANTS Loadcells,    \* RQ/IW
          Calibrate,    \* MC/LZ; the other kinds are the other commands
          MinGap,       \* _loadcell_min_gap, in ticks
          MaxEpoch      \* bound: calibrations of the board

ASSUME CommandAssumption ==
    /\ {Loadcells, Calibrate} \subseteq Kind /\ Loadcells # Calibrate
    /\ MinGap \in Nat /\ MaxEpoch \in Nat

VARIABLES
    gate,       \* _loadcell_gate: its owner, then its waiters
    pc,         \* where each task is: idle, in the gate, or at the serial line
    cache,      \* _loadcell_cache and its age, or Empty
    memory,     \* the epochs of the values the sanitizer remembers
    epoch,      \* of the board
    measured,   \* the epoch of the frame the board prepared for each task
    calibrated, \* the epoch at the last successful return of calibrate()
    asOf,       \* what calibrated was when each task called
    answer      \* the epoch of what get_loadcells() returned to each task

board  == <<epoch, measured>>
ghosts == <<calibrated, asOf>>
lvars  == <<sVars, gate, pc, cache, memory, board, ghosts, answer>>

Empty   == [full |-> FALSE, of |-> 0, age |-> 0]
Nothing == MaxEpoch + 1     \* no frame, no answer

\* Mutant: the gate does not serialise.
OwnerOrWaiter(c) == \E i \in 1..Len(gate) : gate[i] = c

Owner(c) == gate # <<>> /\ Head(gate) = c
Fresh    == MinGap > 0 /\ cache.full /\ cache.age < MinGap

-----------------------------------------------------------------------------
LInit == /\ SInit
         /\ gate = <<>> /\ pc = [c \in Client |-> "idle"]
         /\ cache = Empty /\ memory = {}
         /\ epoch = 0 /\ measured = [c \in Client |-> Nothing]
         /\ calibrated = 0 /\ asOf = [c \in Client |-> 0]
         /\ answer = [c \in Client |-> Nothing]

\* get_loadcells() is called, and waits for the gate.
CallLoadcells(c) ==
    /\ pc[c] = "idle"
    /\ gate' = Append(gate, c)
    /\ pc' = [pc EXCEPT ![c] = "gate"]
    /\ asOf' = [asOf EXCEPT ![c] = calibrated]
    /\ answer' = [answer EXCEPT ![c] = Nothing]
    /\ UNCHANGED <<sVars, cache, memory, board, calibrated>>

\* Leaving "async with _loadcell_gate" with a frame, or with an exception.
Return(c, e) ==
    /\ gate' = Tail(gate)
    /\ pc' = [pc EXCEPT ![c] = "idle"]
    /\ answer' = [answer EXCEPT ![c] = e]

CacheHit(c) ==
    /\ pc[c] = "gate" /\ Owner(c) /\ Fresh
    /\ Return(c, cache.of)
    /\ UNCHANGED <<sVars, cache, memory, board, ghosts>>

ReadBoard(c) ==
    /\ pc[c] = "gate" /\ Owner(c) /\ ~Fresh
    /\ Submit(c, Loadcells)
    /\ pc' = [pc EXCEPT ![c] = "read"]
    /\ measured' = [measured EXCEPT ![c] = Nothing]
    /\ UNCHANGED <<gate, cache, memory, epoch, ghosts, answer>>

\* fetch() returns a frame, and parse_response finds what the board measured in
\* it; otherwise either of the two raises.
Parses(c) == measured[c] # Nothing /\ Serve(c) /\ outcome'[c].tag = "ok"

\* No await follows the frame: it is sanitized, cached and returned in one step.
\* Channels with an error keep what was remembered.
ReadOk(c) ==
    /\ pc[c] = "read" /\ Parses(c)
    /\ memory' \in {{measured[c]}, memory \cup {measured[c]}}
    /\ cache' = [full |-> TRUE, of |-> measured[c], age |-> 0]
    /\ Return(c, measured[c])
    /\ UNCHANGED <<board, ghosts>>

\* Mutant: the gate is left locked by a failure.
ReadFailsLocked(c) ==
    /\ pc[c] = "read"
    /\ Serve(c)
    /\ pc' = [pc EXCEPT ![c] = "idle"]
    /\ UNCHANGED <<gate, cache, memory, board, ghosts, answer>>

ReadFails(c) ==
    /\ pc[c] = "read"
    /\ Serve(c)
    /\ Return(c, Nothing)
    /\ UNCHANGED <<cache, memory, board, ghosts>>

\* calibrate(), and the commands that are nothing but one exchange.
CallCommand(c, k) ==
    /\ pc[c] = "idle" /\ k # Loadcells
    /\ Submit(c, k)
    /\ pc' = [pc EXCEPT ![c] = "command"]
    /\ measured' = [measured EXCEPT ![c] = Nothing]
    /\ UNCHANGED <<gate, cache, memory, epoch, ghosts, answer>>

\* Mutants: one of the two is kept.
ResetSanitizerOnly == memory' = {} /\ UNCHANGED cache
ResetCacheOnly     == cache' = Empty /\ UNCHANGED memory

\* reset_loadcell_processing.
ResetProcessing == cache' = Empty /\ memory' = {}

CommandOk(c) ==
    /\ pc[c] = "command" /\ Parses(c)
    /\ pc' = [pc EXCEPT ![c] = "idle"]
    /\ IF asked[c] = Calibrate
       THEN ResetProcessing /\ calibrated' = epoch
       ELSE UNCHANGED <<cache, memory, calibrated>>
    /\ UNCHANGED <<gate, board, asOf, answer>>

\* The board may have done what was asked, and only its reply be lost, or not
\* have the form of one.
CommandFails(c) ==
    /\ pc[c] = "command"
    /\ Serve(c)
    /\ pc' = [pc EXCEPT ![c] = "idle"]
    /\ UNCHANGED <<gate, cache, memory, board, ghosts, answer>>

-----------------------------------------------------------------------------
\* The board acts on the command that is on the line, once per attempt.
BoardActs ==
    /\ queue # <<>>
    /\ LET c == Head(queue) IN
       /\ measured[c] = Nothing \/ asked[c] = Calibrate
       /\ epoch' = IF asked[c] = Calibrate THEN epoch + 1 ELSE epoch
       /\ epoch' <= MaxEpoch
       /\ measured' = [measured EXCEPT ![c] = epoch']
    /\ UNCHANGED <<sVars, gate, pc, cache, memory, ghosts, answer>>

Tick ==
    /\ cache.full /\ cache.age < MinGap
    /\ cache' = [cache EXCEPT !.age = @ + 1]
    /\ UNCHANGED <<sVars, gate, pc, memory, board, ghosts, answer>>

LoadcellStep(c) == CacheHit(c) \/ ReadBoard(c) \/ ReadOk(c) \/ ReadFails(c)

CommandStep(c) == CommandOk(c) \/ CommandFails(c)

LNext == \/ \E c \in Client : \/ CallLoadcells(c) \/ LoadcellStep(c) \/ CommandStep(c)
                              \/ \E k \in Kind : CallCommand(c, k)
         \/ BoardActs \/ Tick

LSafety == LInit /\ [][LNext]_lvars

\* fetch() returns (Returns of SerialIO), and a task that holds the gate runs.
LSpec == LSafety /\ \A c \in Client : WF_lvars(LoadcellStep(c)) /\ WF_lvars(CommandStep(c))

-----------------------------------------------------------------------------
LTypeOK ==
    /\ queue \in Seq(Client) /\ asked \in [Client -> Kind]
    /\ gate \in Seq(Client) /\ pc \in [Client -> {"idle", "gate", "read", "command"}]
    /\ cache \in [full : BOOLEAN, of : 0..MaxEpoch, age : 0..MinGap]
    /\ memory \subseteq 0..MaxEpoch
    /\ epoch \in 0..MaxEpoch /\ calibrated \in 0..MaxEpoch
    /\ measured \in [Client -> 0..Nothing] /\ answer \in [Client -> 0..Nothing]
    /\ asOf \in [Client -> 0..MaxEpoch]

\* Once calibrate() has returned, get_loadcells() returns no weight that was
\* measured before it, however the calls overlap: the cache is emptied after
\* the board was calibrated, and no reader is then between its frame and the cache.
NoWeightBeforeCalibration == \A c \in Client :
    answer[c] # Nothing => answer[c] >= asOf[c]

\* Nor does the sanitizer compare a weight with one from before a calibration
\* that succeeded, which could turn its sign round.
MemorySinceCalibration == \A e \in memory : e >= calibrated

\* One reader is at the serial line at a time; the callers that come meanwhile
\* are answered from its frame.
OneReader == \A c, d \in Client : pc[c] = "read" /\ pc[d] = "read" => c = d

\* Whoever asks is answered: gate and serial queue never wait for each other.
Answered == \A c \in Client : pc[c] # "idle" ~> pc[c] = "idle"
=============================================================================
