------------------------------- MODULE Filters -------------------------------
(***************************************************************************)
(* io_board/filters.py and io_board/events.py: one channel of the change   *)
(* detector of an SSE stream, with its filter.                             *)
(*                                                                         *)
(* Weights are whole numbers of a unit that may be as small as one likes,  *)
(* and the estimate is rounded to it, as a float is to its last digit.     *)
(* The factors alpha, q and r are multiples of 1/One.                      *)
(***************************************************************************)
EXTENDS Integers

CONSTANTS Method,       \* FilterMethod
          Scope,        \* ThresholdScope
          Threshold,
          One,          \* the number that stands for 1.0
          Alpha, Q, R,
          Readings      \* the readings there can be

\* What FilterMethod, ThresholdScope, the routes of /sse and the constructors of
\* the filters see to; nobody asks of a threshold that it is positive.
Settings ==
    /\ Method \in {"none", "exponential", "kalman"} /\ Scope \in {"raw", "filtered"}
    /\ Threshold \in Int /\ One \in Nat \ {0}
    /\ Alpha \in 0..One /\ Q \in Nat \ {0} /\ R \in Nat \ {0}
    /\ Readings \subseteq Int

VARIABLES
    initialized, \* _initialized
    estimate,    \* _previous or _x of the filter; the last reading without a filter
    p,           \* _p of the Kalman filter
    known,       \* there is a weight to compare with: no error, no reset since,
    previous,    \* ... which is this one, _previous_raw or _previous_filtered
    changed,     \* the last frame was reported as a change
    low, high    \* ghosts: the extremes of the readings the filter has seen

filter == <<initialized, estimate, p, low, high>>
vars   == <<filter, known, previous, changed>>

-----------------------------------------------------------------------------
\* The share of a reading in the new estimate is Share / Whole.
Predicted == p + Q
Share == CASE Method = "none" -> 1 [] Method = "exponential" -> Alpha [] Method = "kalman" -> Predicted
Whole == CASE Method = "none" -> 1 [] Method = "exponential" -> One   [] Method = "kalman" -> Predicted + R

\* filter(), of a reading n.
First(n) ==
    /\ ~initialized
    /\ estimate' = n /\ p' = One
    /\ low' = n /\ high' = n

Further(n) ==
    /\ initialized
    /\ estimate' = estimate + ((Share * (n - estimate)) \div Whole)
    /\ p' = IF Method = "kalman" THEN (R * Predicted) \div (Predicted + R) ELSE p
    /\ low' = IF n < low THEN n ELSE low
    /\ high' = IF n > high THEN n ELSE high

Filtered(n) == initialized' = TRUE /\ (First(n) \/ Further(n))

Abs(n) == IF n < 0 THEN -n ELSE n

\* process(), of a frame with a reading n.
Process(n) ==
    /\ Filtered(n)
    /\ LET compared == IF Scope = "raw" THEN n ELSE estimate'
       IN /\ changed' = (known /\ Abs(compared - previous) > Threshold)
          /\ previous' = compared
    /\ known' = TRUE

\* process(), of a frame with EEEEEE or VVVVVV, which the filter passes over.
ProcessError ==
    /\ known' = FALSE /\ changed' = FALSE
    /\ UNCHANGED <<filter, previous>>

\* reset(), when a poll has failed.
Reset ==
    /\ initialized' = FALSE /\ p' = One
    /\ known' = FALSE /\ changed' = FALSE
    /\ UNCHANGED <<estimate, previous, low, high>>

Init ==
    /\ initialized = FALSE /\ estimate = 0 /\ p = One /\ low = 0 /\ high = 0
    /\ known = FALSE /\ previous = 0 /\ changed = FALSE

Next == (\E n \in Readings : Process(n)) \/ ProcessError \/ Reset

Spec == Init /\ [][Next]_vars

-----------------------------------------------------------------------------
TypeOK ==
    /\ initialized \in BOOLEAN /\ known \in BOOLEAN /\ changed \in BOOLEAN
    /\ estimate \in Int /\ previous \in Int /\ low \in Int /\ high \in Int
    /\ p \in Nat

\* The filter never leaves the range of what it was given: it may lag behind the
\* load, and never overshoots.
NoOvershoot == initialized => low <= estimate /\ estimate <= high

\* Noise that stays within the threshold is never reported, however long it
\* lasts, whatever the filter, and with frames that show an error in between.
NoFalseAlarm == changed => high - low > Threshold

-----------------------------------------------------------------------------
\* A filter that has settled on x, and a load that is n from then on.
SettledOn(x) == initialized /\ estimate = x /\ known /\ previous = x /\ ~changed

Step(x, n) == SettledOn(x) /\ [][Process(n)]_vars
=============================================================================
