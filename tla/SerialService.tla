---------------------------- MODULE SerialService ----------------------------
(***************************************************************************)
(* What serial_io.fetch promises its callers, without ports, frames or     *)
(* clocks: requests are served one at a time, in the order in which they   *)
(* were made; a request ends with a reply of its own kind, or with an      *)
(* error; and whoever waits is served.                                     *)
(***************************************************************************)
EXTENDS Naturals, Sequences

CONSTANTS Client,   \* the tasks that send commands
          Kind,     \* the command codes, CMD/SUBCMD
          NoKind    \* the code of an outcome that carries no reply

ASSUME NoKindAssumption == NoKind \notin Kind

VARIABLES queue,    \* clients with a request outstanding, oldest first
          asked,    \* the kind each client asked for last
          outcome   \* how the last request of each client ended

sVars == <<queue, asked, outcome>>

Pending  == [tag |-> "none", code |-> NoKind]
Failures == [tag : {"IOBoardError", "OtherError"}, code : {NoKind}]
Withdrawn == [tag |-> "cancelled", code |-> NoKind]

Replies(k) == {[tag |-> "ok", code |-> k]}

Remaining(q, i) == SubSeq(q, 1, i - 1) \o SubSeq(q, i + 1, Len(q))

-----------------------------------------------------------------------------
SInit == /\ queue = <<>>
         /\ asked \in [Client -> Kind]
         /\ outcome = [c \in Client |-> Pending]

Submit(c, k) ==
    /\ \A i \in 1..Len(queue) : queue[i] # c
    /\ queue' = Append(queue, c)
    /\ asked' = [asked EXCEPT ![c] = k]
    /\ outcome' = [outcome EXCEPT ![c] = Pending]

\* Only the oldest request is answered.
Serve(c) ==
    /\ queue # <<>> /\ Head(queue) = c
    /\ queue' = Tail(queue)
    /\ \E o \in Replies(asked[c]) \cup Failures : outcome' = [outcome EXCEPT ![c] = o]
    /\ UNCHANGED asked

\* A caller may give up at any point of the queue.
Withdraw(c) ==
    /\ \E i \in 1..Len(queue) : queue[i] = c /\ queue' = Remaining(queue, i)
    /\ outcome' = [outcome EXCEPT ![c] = Withdrawn]
    /\ UNCHANGED asked

SNext == \E c \in Client : (\E k \in Kind : Submit(c, k)) \/ Serve(c) \/ Withdraw(c)

SSafety == SInit /\ [][SNext]_sVars

SSpec == SSafety /\ WF_sVars(\E c \in Client : Serve(c))
=============================================================================
