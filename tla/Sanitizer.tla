------------------------------ MODULE Sanitizer ------------------------------
(***************************************************************************)
(* services/io_board/sanitizer.py: one channel of LoadcellSanitizer.       *)
(*                                                                         *)
(* The firmware sometimes reports a weight with its sign turned round.     *)
(* The sanitizer turns a reading back that is the negative of what it      *)
(* remembers, unless that has gone on for relatch_frames frames, and       *)
(* rounds the result to the resolution of the sensor, with hysteresis.     *)
(*                                                                         *)
(* Weights are whole grams.  Of the clock only the test against            *)
(* staleness_seconds is kept: each frame comes in time, or late.           *)
(***************************************************************************)
EXTENDS Integers, Sequences

CONSTANTS Loads,         \* the weights that can lie on the sensor
          Tolerance,     \* magnitude_tolerance_grams
          MinMagnitude,  \* min_magnitude_grams
          Relatch,       \* relatch_frames
          Step,          \* quantize_grams; 0 disables the quantizer
          Hysteresis,    \* quantize_hysteresis_grams
          Top            \* the largest weight of five digits

ASSUME SanitizerAssumption ==
    /\ Loads \subseteq -Top..Top /\ Top \in Nat
    /\ Tolerance \in Nat /\ MinMagnitude \in Nat
    /\ Relatch \in Nat /\ Relatch >= 2
    /\ Step \in Nat /\ Hysteresis \in Nat

VARIABLES
    median,    \* median_filter; the configuration never changes
    known,     \* the channel remembers a value: _prev and _prev_bin are set
    prev,      \* _prev
    streak,    \* _flip_streak
    bin,       \* _prev_bin
    window,    \* _window
    shown,     \* the value sanitize() returned last
    load,      \* ghost: the weight that was on the sensor then
    steady,    \* ghost: correct frames in a row, of loads of one sign
    glitches,  \* ghost: glitched frames in a row
    calm,      \* ghost: the value was right before them, and the load stayed
    mild,      \* ghost: only positive loads so far, and every glitch after two
               \* correct frames that came in time
    turned     \* ghost: the corrected value when the bin changed last

memory == <<known, prev, streak, bin, window>>
ghosts == <<load, steady, glitches, calm, mild, turned>>
vars   == <<median, memory, shown, ghosts>>

Abs(x) == IF x < 0 THEN -x ELSE x

\* value * prev < 0
Opposite(x, y) == (x < 0 /\ y > 0) \/ (x > 0 /\ y < 0)

Alike(x, y) == Abs(Abs(x) - Abs(y)) <= Tolerance

-----------------------------------------------------------------------------
\* Layer 1: the median of the last three readings that came in time.
Last3(w) == IF Len(w) > 3 THEN Tail(w) ELSE w

Filled(reading, fresh) ==
    IF ~median THEN <<>>
    ELSE Last3(Append(IF fresh THEN window ELSE <<>>, reading))

\* Mutant: the middle of the window, not of its sorted values.
MiddleUnsorted(w) == w[2]

MiddleOf(w) == CHOOSE m \in {w[i] : i \in 1..3} :
    \E i, j, k \in 1..3 : {i, j, k} = 1..3 /\ w[i] <= m /\ w[j] = m /\ m <= w[k]

Filtered(reading, w) == IF Len(w) = 3 THEN MiddleOf(w) ELSE reading

\* Layer 2: is this the remembered value with its sign turned round?
LooksFlipped(v, fresh) ==
    /\ known /\ fresh
    /\ Opposite(v, prev)
    /\ Abs(v) >= MinMagnitude
    /\ Alike(v, prev)

\* Mutant: accepted one frame too late.
RestoresOneMore(v, fresh) == LooksFlipped(v, fresh) /\ streak + 1 <= Relatch

Restores(v, fresh) == LooksFlipped(v, fresh) /\ streak + 1 < Relatch

\* Mutant: a streak that an ordinary frame does not end.
StreakKept(v, fresh) ==
    IF Restores(v, fresh) THEN streak + 1 ELSE IF LooksFlipped(v, fresh) THEN 0 ELSE streak

NextStreak(v, fresh) == IF Restores(v, fresh) THEN streak + 1 ELSE 0

Corrected(v, fresh) == IF Restores(v, fresh) THEN -v ELSE v

\* Mutant: truncation.
Truncated(v) == (v \div Step) * Step

\* _quantize, in half grams.
HalfUp(v) == ((2 * v + Step) \div (2 * Step)) * Step

\* Mutant: no hysteresis.
HoldsNoMargin(v) == known /\ 2 * Abs(v - bin) <= Step

Holds(v) == known /\ 2 * Abs(v - bin) <= Step + 2 * Hysteresis

Quantized(v) == IF Holds(v) THEN bin ELSE HalfUp(v)

\* _format: five digits.  A reading that was not changed is shown as it came.
Shown(q) == IF q > Top THEN Top ELSE IF q < -Top THEN -Top ELSE q

-----------------------------------------------------------------------------
Init == /\ median \in BOOLEAN
        /\ known = FALSE /\ prev = 0 /\ streak = 0 /\ bin = 0 /\ window = <<>>
        /\ shown = 0
        /\ load = 0 /\ steady = 0 /\ glitches = 0 /\ calm = FALSE /\ mild = TRUE /\ turned = 0

\* sanitize(), for a channel with a number in it; one with EEEEEE or VVVVVV is
\* passed over, and only time goes by for it.
Sanitize(reading, fresh) ==
    LET w == Filled(reading, fresh)
        v == Filtered(reading, w)
    IN /\ window' = w
       /\ streak' = NextStreak(v, fresh)
       /\ prev' = Corrected(v, fresh)
       /\ known' = TRUE
       /\ bin' = IF Step = 0 THEN bin ELSE Quantized(prev')
       /\ shown' = Shown(IF Step = 0 THEN prev' ELSE bin')
       /\ UNCHANGED median
       /\ turned' = IF known /\ bin' = bin THEN turned ELSE prev'

UpTo(n, bound) == IF n > bound THEN bound ELSE n

CleanFrame(l, fresh) ==
    /\ Sanitize(l, fresh)
    /\ load' = l
    /\ steady' = IF fresh /\ ((l > 0 /\ load > 0) \/ (l < 0 /\ load < 0))
                 THEN UpTo(steady + 1, Relatch) ELSE 1
    /\ glitches' = 0
    /\ calm' = (prev' = l)
    /\ mild' = (mild /\ l > 0)

\* The defect: the sign alone is wrong.
GlitchedFrame(l, fresh) ==
    /\ mild' = (mild /\ l > 0 /\ fresh /\ steady >= 2)
    /\ Sanitize(-l, fresh)
    /\ load' = l
    /\ steady' = 0
    /\ glitches' = UpTo(glitches + 1, Relatch)
    /\ calm' = (/\ calm /\ fresh
                /\ Abs(l) >= MinMagnitude /\ Alike(l, prev) /\ ~Opposite(l, load) /\ load # 0)

\* reset(), after a calibration.
Reset ==
    /\ known' = FALSE /\ prev' = 0 /\ streak' = 0 /\ bin' = 0 /\ window' = <<>>
    /\ steady' = 0 /\ glitches' = 0 /\ calm' = FALSE
    /\ mild' = TRUE
    /\ UNCHANGED <<median, shown, load, turned>>

Next == \/ \E l \in Loads, fresh \in BOOLEAN : CleanFrame(l, fresh) \/ GlitchedFrame(l, fresh)
        \/ Reset

Spec == Init /\ [][Next]_vars

-----------------------------------------------------------------------------
TypeOK ==
    /\ median \in BOOLEAN /\ known \in BOOLEAN /\ calm \in BOOLEAN /\ mild \in BOOLEAN
    /\ prev \in Int /\ bin \in Int /\ shown \in -Top..Top /\ load \in -Top..Top /\ turned \in Int
    /\ streak \in 0..(Relatch - 1)
    /\ window \in Seq(Int) /\ Len(window) <= 3
    /\ steady \in 0..Relatch /\ glitches \in 0..Relatch

\* Whatever sign the channel has locked on to, relatch_frames correct frames of
\* a load that keeps its sign bring the true value back.
Recovers == ~median /\ known /\ steady >= Relatch => prev = load

\* Fewer than relatch_frames glitches in a row do not show, if the value was
\* right before them and the load has stayed within the tolerance.
GlitchesHidden == ~median /\ known /\ calm /\ glitches < Relatch => prev = load

\* With the median filter, a glitch with two correct frames before it does not
\* show even when the load changes in the same frame: positive loads never look
\* like negative ones.
NeverNegative == median /\ known /\ mild => prev > 0

\* Rounding and hysteresis, the five digits included, keep the value shown
\* within half a step and the hysteresis of the corrected one.
CloseToValue == known => 2 * Abs(shown - prev) <= Step + 2 * Hysteresis

\* The value shown does not flap: between two changes of the bin the corrected
\* value has moved by more than the hysteresis.
NoFlapping == [][known /\ known' /\ bin' # bin => Abs(prev' - turned) > Hysteresis]_vars
=============================================================================
