------------------------------ MODULE SerialQuiet ------------------------------
(***************************************************************************)
(* The line as an observer beside it would see it, whatever serial_io.py   *)
(* has written down of its times: SerialIO with the age of the last byte   *)
(* that the host received, which no action of it reads.                    *)
(***************************************************************************)
EXTENDS SerialIO

\* An age that is no longer counted is silence enough.
ASSUME QuietAssumption == AgeCap >= DrainQuiet

VARIABLE byteAge      \* ticks since the host last received anything

quietVars == <<vars, byteAge>>

QuietInit == Init /\ byteAge = AgeCap

Observe == byteAge' = IF Len(rx') > Len(rx) THEN 0 ELSE byteAge

QuietNext ==
    \/ (\E c \in Client : Calls(c)) /\ UNCHANGED byteAge
    \/ (Deliver \/ Unplug \/ Replug) /\ Observe
    \/ Tick /\ byteAge' = Aged(byteAge)

QuietSafety == QuietInit /\ [][QuietNext]_quietVars
QuietSpec   == QuietSafety /\ Fairness

\* A request is put on a line that has been silent for DrainQuiet, and with
\* nothing unread: the bytes read next were sent after it.
SilentBeforeRequest == [][\A c \in Client :
    Transmits(c) => rx = <<>> /\ wire = <<>> /\ byteAge >= DrainQuiet]_quietVars
=============================================================================
