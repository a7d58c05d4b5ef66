------------------------------- MODULE Channel -------------------------------
(***************************************************************************)
(* One loadcell from the sensor to the events of an SSE stream: each frame *)
(* goes through the sanitizer (Sanitizer), and if the polling asked for it *)
(* on to the change detector of io_board/events.py, without a filter.      *)
(* GET /loadcells asks for frames too, which the sanitizer remembers and   *)
(* the detector never sees.                                                *)
(***************************************************************************)
EXTENDS Sanitizer

CONSTANT Threshold      \* of the change detection, in grams

ASSUME ChannelAssumption == Threshold \in Int

VARIABLES
    previous,   \* _previous_raw of the detector, or None
    events,     \* what the last frame made the stream send
    base        \* ghost: the load at the previous frame of the detector, if the
                \* value was bound to be right then, or None

cvars == <<vars, previous, events, base>>

None == Top + 1     \* no weight

\* The value shown must be right: the load has kept its sign for relatch_frames
\* correct frames, or glitches are few enough, and after correct ones.
Trusted == ~median /\ known /\ (steady >= Relatch \/ (calm /\ glitches < Relatch))

-----------------------------------------------------------------------------
CInit == Init /\ previous = None /\ events = {} /\ base = None

\* Mutant: puts a weight in only, not taken out.
AddedOnly(w) == previous # None /\ w - previous > Threshold

Changed(w) == previous # None /\ Abs(w - previous) > Threshold

\* Mutant: the first value is compared with for ever.
CompareWithFirst(w) ==
    /\ events' = {"update"} \cup (IF Changed(w) THEN {"change"} ELSE {})
    /\ previous' = IF previous = None THEN w ELSE previous
    /\ base' = IF Trusted' THEN load' ELSE None

\* process(), for a frame with a number.
Process(w) ==
    /\ events' = {"update"} \cup (IF Changed(w) THEN {"change"} ELSE {})
    /\ previous' = w
    /\ base' = IF Trusted' THEN load' ELSE None

Unseen == events' = {} /\ UNCHANGED <<previous, base>>

\* get_loadcells() for the polling, or for somebody else.
Frame(l, fresh) ==
    /\ CleanFrame(l, fresh) \/ GlitchedFrame(l, fresh)
    /\ Process(shown') \/ Unseen

\* A frame with EEEEEE or VVVVVV for this channel: sanitize() passes over it,
\* process() forgets the weight, detect_uncertainties() reports it.
ErrorFrame ==
    /\ \/ events' = {"update", "uncertainty"} /\ previous' = None /\ base' = None
       \/ Unseen
    /\ UNCHANGED vars

\* A poll that fails resets the detector, if it is with an error of the service.
PollFails ==
    /\ \/ events' = {"uncertainty", "error"} /\ previous' = None /\ base' = None
       \/ events' = {"error"} /\ UNCHANGED <<previous, base>>
    /\ UNCHANGED vars

\* A client that connects gets a new detector.
Connect ==
    /\ events' = {} /\ previous' = None /\ base' = None
    /\ UNCHANGED vars

\* calibrate() resets the sanitizer and no detector.
Calibrate == Reset /\ Unseen

CNext == \/ \E l \in Loads, fresh \in BOOLEAN : Frame(l, fresh)
         \/ ErrorFrame \/ PollFails \/ Connect \/ Calibrate

CSpec == CInit /\ [][CNext]_cvars

-----------------------------------------------------------------------------
\* What rounding and hysteresis can add to a difference, or take from it.
Blur == Step + 2 * Hysteresis

\* A load that has moved by more than threshold and blur between two frames of
\* the polling is reported, whatever the frames between them that went to other
\* callers, the glitches and the errors in them did to the sanitizer.
RemovalReported ==
    [][/\ base # None /\ base' # None /\ "update" \in events'
       /\ Abs(load' - base) > Threshold + Blur
       => "change" \in events']_cvars

\* No change is reported of a load that has moved by less than threshold minus
\* blur: glitches and the edges of bins raise no alarm.
NoFalseAlarm ==
    [][/\ base # None /\ base' # None /\ "change" \in events'
       => Abs(load' - base) > Threshold - Blur]_cvars
=============================================================================
