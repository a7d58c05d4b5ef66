----------------------- MODULE LoadcellCommands_proofs -----------------------
(***************************************************************************)
(* Safety of LoadcellCommands, for any set of callers and kinds, any gap   *)
(* and any number of calibrations.                                         *)
(***************************************************************************)
EXTENDS LoadcellCommands, SequenceTheorems, TLAPS

\* A queue in which each of X stands once.
Line(q, X) ==
    /\ q \in Seq(X)
    /\ \A x \in X : \E i \in 1..Len(q) : q[i] = x
    /\ \A i, j \in 1..Len(q) : q[i] = q[j] => i = j

LEMMA LineAppend ==
    ASSUME NEW X, NEW q, Line(q, X), NEW c, c \notin X
    PROVE  /\ Line(Append(q, c), X \cup {c})
           /\ q # <<>> => Head(Append(q, c)) = Head(q)
           /\ q = <<>> => Head(Append(q, c)) = c
<1>1. q \in Seq(X) /\ q \in Seq(X \cup {c})
  BY DEF Line
<1>2. /\ Append(q, c) \in Seq(X \cup {c}) /\ Len(Append(q, c)) = Len(q) + 1
      /\ \A i \in 1..Len(q) : Append(q, c)[i] = q[i]
      /\ Append(q, c)[Len(q) + 1] = c
  BY <1>1, AppendProperties
<1>3. \A i \in 1..Len(q) : q[i] # c
  BY <1>1
<1> DEFINE a == Append(q, c)
<1>4. \A x \in X \cup {c} : \E i \in 1..Len(a) : a[i] = x
  BY <1>1, <1>2 DEF Line
<1>5. \A i, j \in 1..Len(a) : a[i] = a[j] => i = j
  BY <1>1, <1>2, <1>3 DEF Line
<1>6. q # <<>> => Head(a) = Head(q)
  BY <1>1
<1>7. q = <<>> => Head(a) = c
  BY <1>1
<1> QED
  BY <1>2, <1>4, <1>5, <1>6, <1>7 DEF Line

LEMMA LineTail ==
    ASSUME NEW X, NEW q, Line(q, X), q # <<>>
    PROVE  Head(q) \in X /\ Line(Tail(q), X \ {Head(q)})
<1>1. q \in Seq(X) /\ Len(q) \in Nat \ {0} /\ Head(q) = q[1] /\ Head(q) \in X
  BY DEF Line
<1> DEFINE t == Tail(q)
<1>2. t \in Seq(X) /\ Len(t) = Len(q) - 1 /\ \A i \in 1..Len(t) : t[i] = q[i + 1]
  BY <1>1
<1>3. \A i \in 1..Len(t) : t[i] \in X \ {Head(q)}
  BY <1>1, <1>2 DEF Line
<1>4. t \in Seq(X \ {Head(q)})
  <2> HIDE DEF t
  <2>1. t \in [1..Len(t) -> X] /\ Len(t) \in Nat
    BY <1>2, LenProperties
  <2>2. t \in [1..Len(t) -> X \ {Head(q)}]
    BY <2>1, <1>3
  <2> QED
    BY <2>1, <2>2, SeqDef
<1>5. ASSUME NEW x \in X \ {Head(q)}
      PROVE  \E i \in 1..Len(t) : t[i] = x
  <2>1. PICK i \in 1..Len(q) : q[i] = x
    BY <1>5 DEF Line
  <2>2. i # 1 /\ i - 1 \in 1..Len(t) /\ t[i - 1] = x
    BY <1>1, <1>2, <2>1
  <2> QED
    BY <2>2
<1>6. \A i, j \in 1..Len(t) : t[i] = t[j] => i = j
  BY <1>1, <1>2 DEF Line
<1> QED
  BY <1>1, <1>4, <1>5, <1>6 DEF Line

-----------------------------------------------------------------------------
AtGate == {c \in Client : pc[c] \in {"gate", "read"}}
AtLine == {c \in Client : pc[c] \in {"read", "command"}}

\* Gate and line are queues of the tasks that are there, and who reads owns the
\* gate.
Queues ==
    /\ Line(gate, AtGate) /\ Line(queue, AtLine)
    /\ \A c \in Client : pc[c] = "read" => Owner(c)

\* The board has measured for the head of the line only, and since the last
\* calibration that returned: the next one has to come to the head first.
Epochs ==
    /\ calibrated <= epoch
    /\ \A c \in Client : asOf[c] <= calibrated
    /\ cache.full => cache.of >= calibrated
    /\ \A c \in AtLine : measured[c] # Nothing => Head(queue) = c /\ measured[c] >= calibrated

Types ==
    /\ asked \in [Client -> Kind]
    /\ pc \in [Client -> {"idle", "gate", "read", "command"}]
    /\ cache \in [full : BOOLEAN, of : 0..MaxEpoch, age : 0..MinGap]
    /\ memory \subseteq 0..MaxEpoch
    /\ epoch \in 0..MaxEpoch /\ calibrated \in 0..MaxEpoch
    /\ measured \in [Client -> 0..Nothing] /\ answer \in [Client -> 0..Nothing]
    /\ asOf \in [Client -> 0..MaxEpoch]

Inv == /\ Types /\ Queues /\ Epochs
       /\ NoWeightBeforeCalibration /\ MemorySinceCalibration

\* A task at the line is in its queue, which is then not empty.
LEMMA SomebodyAtLine ==
    ASSUME Queues, NEW c \in AtLine
    PROVE  queue # <<>>
  BY DEF Queues, Line

LEMMA TypesKept == Types /\ [LNext]_lvars => Types'
<1> SUFFICES ASSUME Types, [LNext]_lvars
             PROVE  Types'
  OBVIOUS
<1> USE CommandAssumption DEF Types, board, ghosts, sVars, Nothing
<1>1. ASSUME NEW c \in Client, CallLoadcells(c)
      PROVE  Types'
  BY <1>1 DEF CallLoadcells
<1>2. ASSUME NEW c \in Client, CacheHit(c)
      PROVE  Types'
  BY <1>2 DEF CacheHit, Return
<1>3. ASSUME NEW c \in Client, ReadBoard(c)
      PROVE  Types'
  BY <1>3 DEF ReadBoard, Submit
<1>4. ASSUME NEW c \in Client, ReadOk(c)
      PROVE  Types'
  <2>1. measured[c] \in 0..MaxEpoch
    BY <1>4 DEF ReadOk, Parses
  <2>2. cache' \in [full : BOOLEAN, of : 0..MaxEpoch, age : 0..MinGap]
    BY <1>4, <2>1 DEF ReadOk
  <2>3. memory' \subseteq 0..MaxEpoch
    <3>1. memory' = {measured[c]} \/ memory' = memory \cup {measured[c]}
      BY <1>4 DEF ReadOk
    <3> QED
      BY <2>1, <3>1
  <2> QED
    BY <1>4, <2>1, <2>2, <2>3 DEF ReadOk, Return, Parses, Serve
<1>5. ASSUME NEW c \in Client, ReadFails(c)
      PROVE  Types'
  BY <1>5 DEF ReadFails, Return, Serve
<1>6. ASSUME NEW c \in Client, CommandOk(c)
      PROVE  Types'
  <2>1. Empty \in [full : BOOLEAN, of : 0..MaxEpoch, age : 0..MinGap]
    BY DEF Empty
  <2>2. \/ cache' = Empty /\ memory' = {} /\ calibrated' = epoch
        \/ UNCHANGED <<cache, memory, calibrated>>
    BY <1>6 DEF CommandOk, ResetProcessing
  <2>3. UNCHANGED <<epoch, measured, asOf, answer, asked>>
    BY <1>6 DEF CommandOk, Parses, Serve
  <2>4. pc' \in [Client -> {"idle", "gate", "read", "command"}]
    BY <1>6 DEF CommandOk
  <2> QED
    BY <2>1, <2>2, <2>3, <2>4
<1>7. ASSUME NEW c \in Client, CommandFails(c)
      PROVE  Types'
  BY <1>7 DEF CommandFails, Serve
<1>8. ASSUME NEW c \in Client, NEW k \in Kind, CallCommand(c, k)
      PROVE  Types'
  BY <1>8 DEF CallCommand, Submit
<1>9. CASE BoardActs
  <2>1. epoch' \in 0..MaxEpoch
    BY <1>9 DEF BoardActs
  <2>2. measured' = [measured EXCEPT ![Head(queue)] = epoch']
    BY <1>9 DEF BoardActs
  <2>3. epoch' \in 0..Nothing
    BY <2>1
  <2>4. measured' \in [Client -> 0..Nothing]
    BY ONLY <2>2, <2>3, measured \in [Client -> 0..Nothing]
  <2> QED
    BY <1>9, <2>1, <2>4 DEF BoardActs
<1>10. CASE Tick
  BY <1>10 DEF Tick
<1>11. CASE UNCHANGED lvars
  BY <1>11 DEF lvars
<1> QED
  BY <1>1, <1>2, <1>3, <1>4, <1>5, <1>6, <1>7, <1>8, <1>9, <1>10, <1>11
     DEF LNext, LoadcellStep, CommandStep

-----------------------------------------------------------------------------
\* The owner of the gate keeps every other reader out, as does a task that goes.
LEMMA OwnerAlone ==
    ASSUME Queues, NEW c \in Client, Owner(c), NEW d \in Client, pc[d] = "read"
    PROVE  d = c
  BY DEF Queues, Owner

\* A task leaves the line.
LEMMA LeaveLine ==
    ASSUME Types, Queues, NEW c \in AtLine, Serve(c), pc' = [pc EXCEPT ![c] = "idle"]
    PROVE  Head(queue) = c /\ AtLine' = AtLine \ {c} /\ Line(queue, AtLine)'
<1>1. queue # <<>> /\ Head(queue) = c /\ queue' = Tail(queue)
  BY DEF Serve
<1>2. AtLine' = AtLine \ {c}
  BY DEF AtLine, Types
<1>3. Line(Tail(queue), AtLine \ {c})
  BY <1>1, LineTail DEF Queues
<1> QED
  BY <1>1, <1>2, <1>3 DEF Line

\* A task comes to the line.
LEMMA ComeToLine ==
    ASSUME Types, Queues, NEW c \in Client, c \notin AtLine, NEW k \in Kind, Submit(c, k),
           NEW p \in {"read", "command"}, pc' = [pc EXCEPT ![c] = p]
    PROVE  /\ AtLine' = AtLine \cup {c} /\ Line(queue, AtLine)'
           /\ queue # <<>> => Head(queue') = Head(queue)
<1>1. queue' = Append(queue, c)
  BY DEF Submit
<1>2. AtLine' = AtLine \cup {c}
  BY DEF AtLine, Types
<1>3. /\ Line(Append(queue, c), AtLine \cup {c})
      /\ queue # <<>> => Head(Append(queue, c)) = Head(queue)
  BY LineAppend DEF Queues
<1> QED
  BY <1>1, <1>2, <1>3 DEF Line

\* A task leaves the gate, and nobody is left reading.
LEMMA LeaveGate ==
    ASSUME Types, Queues, NEW c \in Client, Owner(c), NEW e, Return(c, e)
    PROVE  Line(gate, AtGate)' /\ \A d \in Client : pc'[d] # "read"
<1>1. gate # <<>> /\ Head(gate) = c /\ gate' = Tail(gate) /\ pc' = [pc EXCEPT ![c] = "idle"]
  BY DEF Owner, Return
<1>2. AtGate' = AtGate \ {c}
  BY <1>1 DEF AtGate, Types
<1>3. Line(Tail(gate), AtGate \ {c})
  BY <1>1, LineTail DEF Queues
<1>4. \A d \in Client : pc'[d] # "read"
  BY <1>1, OwnerAlone DEF Types
<1> QED
  BY <1>1, <1>2, <1>3, <1>4 DEF Line

LEMMA QueuesKept == Types /\ Queues /\ [LNext]_lvars => Queues'
<1> SUFFICES ASSUME Types, Queues, [LNext]_lvars
             PROVE  Queues'
  OBVIOUS
<1>1. ASSUME NEW c \in Client, CallLoadcells(c)
      PROVE  Queues'
  <2>1. pc[c] = "idle" /\ pc' = [pc EXCEPT ![c] = "gate"] /\ gate' = Append(gate, c)
        /\ UNCHANGED queue
    BY <1>1 DEF CallLoadcells, sVars
  <2>2. AtGate' = AtGate \cup {c} /\ AtLine' = AtLine /\ c \notin AtGate
    BY <2>1 DEF AtGate, AtLine, Types
  <2>3. /\ Line(Append(gate, c), AtGate \cup {c})
        /\ gate # <<>> => Head(Append(gate, c)) = Head(gate)
    BY <2>2, LineAppend DEF Queues
  <2>4. gate' # <<>>
    <3>1. gate \in Seq(AtGate)
      BY DEF Queues, Line
    <3> QED
      BY <2>1, <3>1
  <2>5. ASSUME NEW d \in Client, pc'[d] = "read"
        PROVE  Owner(d)'
    BY <2>1, <2>3, <2>4, <2>5 DEF Queues, Owner, Types
  <2> QED
    BY <2>1, <2>2, <2>3, <2>5 DEF Queues, Line
<1>2. ASSUME NEW c \in Client, CacheHit(c)
      PROVE  Queues'
  <2>1. Line(gate, AtGate)' /\ \A d \in Client : pc'[d] # "read"
    BY <1>2, LeaveGate DEF CacheHit
  <2>2. AtLine' = AtLine /\ UNCHANGED queue
    BY <1>2 DEF CacheHit, Return, AtLine, Types, sVars
  <2> QED
    BY <2>1, <2>2 DEF Queues, Line
<1>3. ASSUME NEW c \in Client, ReadBoard(c)
      PROVE  Queues'
  <2>1. pc[c] = "gate" /\ pc' = [pc EXCEPT ![c] = "read"] /\ Owner(c) /\ UNCHANGED gate
    BY <1>3 DEF ReadBoard
  <2>2. c \notin AtLine /\ AtGate' = AtGate
    BY <2>1 DEF AtLine, AtGate, Types
  <2>3. Line(queue, AtLine)'
    BY <1>3, <2>1, <2>2, ComeToLine, CommandAssumption DEF ReadBoard
  <2>4. \A d \in Client : pc'[d] = "read" => Owner(d)'
    BY <2>1 DEF Queues, Owner, Types
  <2> QED
    BY <2>1, <2>2, <2>3, <2>4 DEF Queues, Line
<1>4. ASSUME NEW c \in Client, NEW e, pc[c] = "read", Serve(c), Return(c, e)
      PROVE  Queues'
  <2>1. c \in AtLine /\ Owner(c) /\ pc' = [pc EXCEPT ![c] = "idle"]
    BY <1>4 DEF AtLine, Queues, Return
  <2>2. Line(queue, AtLine)'
    BY <1>4, <2>1, LeaveLine
  <2>3. Line(gate, AtGate)' /\ \A d \in Client : pc'[d] # "read"
    BY <1>4, <2>1, LeaveGate
  <2> QED
    BY <2>2, <2>3 DEF Queues
<1>5. ASSUME NEW c \in Client, pc[c] = "command", Serve(c), pc' = [pc EXCEPT ![c] = "idle"],
             UNCHANGED gate
      PROVE  Queues'
  <2>1. Line(queue, AtLine)'
    BY <1>5, LeaveLine DEF AtLine
  <2>2. AtGate' = AtGate
    BY <1>5 DEF AtGate, Types
  <2>3. \A d \in Client : pc'[d] = "read" => Owner(d)'
    BY <1>5 DEF Queues, Owner, Types
  <2> QED
    BY <1>5, <2>1, <2>2, <2>3 DEF Queues, Line
<1>6. ASSUME NEW c \in Client, NEW k \in Kind, CallCommand(c, k)
      PROVE  Queues'
  <2>1. pc[c] = "idle" /\ pc' = [pc EXCEPT ![c] = "command"] /\ UNCHANGED gate
    BY <1>6 DEF CallCommand
  <2>2. c \notin AtLine /\ AtGate' = AtGate
    BY <2>1 DEF AtLine, AtGate, Types
  <2>3. Line(queue, AtLine)'
    BY <1>6, <2>1, <2>2, ComeToLine DEF CallCommand
  <2>4. \A d \in Client : pc'[d] = "read" => Owner(d)'
    BY <2>1 DEF Queues, Owner, Types
  <2> QED
    BY <2>1, <2>2, <2>3, <2>4 DEF Queues, Line
<1>7. CASE UNCHANGED <<gate, queue, pc>>
  BY <1>7 DEF Queues, Line, AtGate, AtLine, Owner
<1>8. ASSUME NEW c \in Client, LoadcellStep(c)
      PROVE  Queues'
  BY <1>8, <1>2, <1>3, <1>4 DEF LoadcellStep, ReadOk, ReadFails, Parses
<1>9. ASSUME NEW c \in Client, CommandStep(c)
      PROVE  Queues'
  BY <1>9, <1>5 DEF CommandStep, CommandOk, CommandFails, Parses
<1>10. (BoardActs \/ Tick \/ UNCHANGED lvars) => UNCHANGED <<gate, queue, pc>>
  BY DEF BoardActs, Tick, lvars, sVars
<1> QED
  BY <1>1, <1>6, <1>7, <1>8, <1>9, <1>10 DEF LNext

-----------------------------------------------------------------------------
\* What the invariant adds to types and queues.
Ages == Epochs /\ NoWeightBeforeCalibration /\ MemorySinceCalibration

\* Nothing was measured for a task that is not at the head of the line.
LEMMA OthersUnmeasured ==
    ASSUME Epochs, NEW c \in AtLine, Head(queue) # c
    PROVE  measured[c] = Nothing
  BY DEF Epochs

\* A read or a command that ends leaves the line without measurements.
LEMMA LineUnmeasured ==
    ASSUME Types, Queues, Epochs, NEW c \in AtLine, Serve(c),
           pc' = [pc EXCEPT ![c] = "idle"], UNCHANGED measured
    PROVE  \A d \in AtLine' : measured'[d] = Nothing
<1>1. Head(queue) = c /\ AtLine' = AtLine \ {c}
  BY LeaveLine
<1> QED
  BY <1>1, OthersUnmeasured

LEMMA AgesKept == Types /\ Queues /\ Ages /\ [LNext]_lvars => Ages'
<1> SUFFICES ASSUME Types, Queues, Ages, [LNext]_lvars
             PROVE  Ages'
  OBVIOUS
<1> USE CommandAssumption
<1> DEFINE Measured == \A d \in AtLine :
             measured[d] # Nothing => Head(queue) = d /\ measured[d] >= calibrated
<1>0. Measured
  BY DEF Ages, Epochs
<1>1. ASSUME NEW c \in Client, CallLoadcells(c)
      PROVE  Ages'
  <2>1. AtLine' = AtLine
    BY <1>1 DEF CallLoadcells, AtLine, Types
  <2> QED
    BY <1>1, <2>1 DEF CallLoadcells, Ages, Epochs, NoWeightBeforeCalibration,
                      MemorySinceCalibration, Types, board, sVars, Nothing
<1>2. ASSUME NEW c \in Client, CacheHit(c)
      PROVE  Ages'
  <2>1. AtLine' = AtLine
    BY <1>2 DEF CacheHit, Return, AtLine, Types
  <2>2. cache.of >= calibrated /\ calibrated >= asOf[c] /\ cache.of \in Nat
    BY <1>2 DEF CacheHit, Fresh, Ages, Epochs, Types
  <2> QED
    BY <1>2, <2>1, <2>2 DEF CacheHit, Return, Ages, Epochs, NoWeightBeforeCalibration,
                            MemorySinceCalibration, Types, board, sVars, ghosts
<1>3. ASSUME NEW c \in Client, NEW k \in Kind, c \notin AtLine, Submit(c, k),
             NEW p \in {"read", "command"}, pc' = [pc EXCEPT ![c] = p],
             measured' = [measured EXCEPT ![c] = Nothing],
             UNCHANGED <<cache, memory, epoch, ghosts, answer>>
      PROVE  Ages'
  <2>1. AtLine' = AtLine \cup {c} /\ (queue # <<>> => Head(queue') = Head(queue))
    BY <1>3, ComeToLine
  <2>2. ASSUME NEW d \in AtLine', measured'[d] # Nothing
        PROVE  Head(queue') = d /\ measured'[d] >= calibrated'
    <3>1. d # c /\ d \in AtLine /\ measured'[d] = measured[d]
      BY <1>3, <2>1, <2>2 DEF AtLine, Types
    <3>2. queue # <<>>
      BY <3>1, SomebodyAtLine
    <3> QED
      BY <1>0, <1>3, <2>1, <2>2, <3>1, <3>2 DEF ghosts
  <2> QED
    BY <1>3, <2>2 DEF Ages, Epochs, NoWeightBeforeCalibration, MemorySinceCalibration, ghosts
<1>4. ASSUME NEW c \in Client, ReadOk(c)
      PROVE  Ages'
  <2>1. c \in AtLine /\ Serve(c) /\ measured[c] # Nothing /\ pc' = [pc EXCEPT ![c] = "idle"]
        /\ UNCHANGED <<measured, epoch, calibrated, asOf>>
    BY <1>4 DEF ReadOk, Return, Parses, AtLine, board, ghosts
  <2>2. measured[c] \in Nat /\ measured[c] >= calibrated /\ calibrated >= asOf[c]
        /\ calibrated \in Nat /\ asOf[c] \in Nat
    BY <1>0, <2>1 DEF Ages, Epochs, Types, Nothing
  <2>3. \A d \in AtLine' : measured'[d] = Nothing
    BY <2>1, LineUnmeasured DEF Ages
  <2>4. memory' \subseteq memory \cup {measured[c]} /\ cache'.of = measured[c]
        /\ answer' = [answer EXCEPT ![c] = measured[c]]
    BY <1>4 DEF ReadOk, Return
  <2>5. Epochs'
    BY <2>1, <2>2, <2>3, <2>4 DEF Ages, Epochs, Nothing
  <2>6. NoWeightBeforeCalibration'
    BY <2>1, <2>2, <2>4 DEF Ages, NoWeightBeforeCalibration, Types, Nothing
  <2>7. MemorySinceCalibration'
    BY <2>1, <2>2, <2>4 DEF Ages, MemorySinceCalibration
  <2> QED
    BY <2>5, <2>6, <2>7 DEF Ages
<1>5. ASSUME NEW c \in Client, ReadFails(c)
      PROVE  Ages'
  <2>1. \A d \in AtLine' : measured'[d] = Nothing
    BY <1>5, LineUnmeasured DEF ReadFails, Return, AtLine, board, Ages
  <2> QED
    BY <1>5, <2>1 DEF ReadFails, Return, Ages, Epochs, NoWeightBeforeCalibration,
                      MemorySinceCalibration, Types, board, ghosts, Nothing
<1>6. ASSUME NEW c \in Client, CommandOk(c)
      PROVE  Ages'
  <2>1. /\ UNCHANGED <<measured, epoch, asOf, answer>>
        /\ \/ cache' = Empty /\ memory' = {} /\ calibrated' = epoch
           \/ UNCHANGED <<cache, memory, calibrated>>
    BY <1>6 DEF CommandOk, ResetProcessing, board
  <2>2. \A d \in AtLine' : measured'[d] = Nothing
    BY <1>6, LineUnmeasured DEF CommandOk, Parses, AtLine, board, Ages
  <2>3. calibrated' <= epoch' /\ calibrated' >= calibrated
    BY <2>1 DEF Ages, Epochs, Types
  <2>4. \A d \in Client : asOf'[d] <= calibrated'
    BY <2>1, <2>3 DEF Ages, Epochs, Types
  <2>5. cache'.full => cache'.of >= calibrated'
    BY <2>1 DEF Ages, Epochs, Empty
  <2>6. \A e \in memory' : e >= calibrated'
    BY <2>1 DEF Ages, MemorySinceCalibration
  <2>7. Epochs'
    BY <2>2, <2>3, <2>4, <2>5 DEF Epochs, Nothing
  <2> QED
    BY <2>1, <2>6, <2>7 DEF Ages, NoWeightBeforeCalibration, MemorySinceCalibration, Nothing
<1>7. ASSUME NEW c \in Client, CommandFails(c)
      PROVE  Ages'
  <2>1. \A d \in AtLine' : measured'[d] = Nothing
    BY <1>7, LineUnmeasured DEF CommandFails, AtLine, board, Ages
  <2> QED
    BY <1>7, <2>1 DEF CommandFails, Ages, Epochs, NoWeightBeforeCalibration,
                      MemorySinceCalibration, board, ghosts, Nothing
<1>8. CASE BoardActs
  <2>1. epoch' >= epoch /\ epoch' \in Nat /\ measured' = [measured EXCEPT ![Head(queue)] = epoch']
        /\ UNCHANGED <<queue, pc, cache, memory, calibrated, asOf, answer>>
    BY <1>8 DEF BoardActs, Types, ghosts, sVars
  <2>2. epoch' >= calibrated
    BY <2>1 DEF Ages, Epochs, Types
  <2>3. AtLine' = AtLine /\ AtLine \subseteq Client
    BY <2>1 DEF AtLine
  <2>4. ASSUME NEW d \in AtLine', measured'[d] # Nothing
        PROVE  Head(queue') = d /\ measured'[d] >= calibrated'
    <3>1. CASE d = Head(queue)
      BY <2>1, <2>2, <2>3, <3>1 DEF Types
    <3>2. CASE d # Head(queue)
      BY <1>0, <2>1, <2>3, <2>4, <3>2 DEF Types, Nothing
    <3> QED
      BY <3>1, <3>2
  <2>5. calibrated' <= epoch'
    BY <2>1, <2>2 DEF Types
  <2>6. Epochs'
    BY <2>1, <2>4, <2>5 DEF Ages, Epochs
  <2> QED
    BY <2>1, <2>6 DEF Ages, NoWeightBeforeCalibration, MemorySinceCalibration, Nothing
<1>9. CASE Tick
  <2>1. cache'.of = cache.of /\ UNCHANGED <<queue, pc, memory, epoch, measured, calibrated, asOf, answer>>
        /\ cache.full
    BY <1>9 DEF Tick, board, ghosts, sVars, Types
  <2> QED
    BY <2>1 DEF Ages, Epochs, NoWeightBeforeCalibration, MemorySinceCalibration, AtLine
<1>10. CASE UNCHANGED lvars
  BY <1>10 DEF lvars, board, ghosts, sVars, Ages, Epochs, NoWeightBeforeCalibration,
               MemorySinceCalibration, AtLine
<1>11. ASSUME NEW c \in Client, ReadBoard(c)
       PROVE  Ages'
  <2>1. c \notin AtLine
    BY <1>11 DEF ReadBoard, AtLine
  <2> QED
    BY <1>3, <1>11, <2>1 DEF ReadBoard
<1>12. ASSUME NEW c \in Client, NEW k \in Kind, CallCommand(c, k)
       PROVE  Ages'
  <2>1. c \notin AtLine
    BY <1>12 DEF CallCommand, AtLine
  <2> QED
    BY <1>3, <1>12, <2>1 DEF CallCommand
<1> QED
  BY <1>1, <1>2, <1>4, <1>5, <1>6, <1>7, <1>8, <1>9, <1>10, <1>11, <1>12
     DEF LNext, LoadcellStep, CommandStep

-----------------------------------------------------------------------------
LEMMA InvHolds == LSafety => []Inv
<1>1. LInit => Inv
  <2> SUFFICES ASSUME LInit
               PROVE  Inv
    OBVIOUS
  <2> USE CommandAssumption DEF LInit, SInit
  <2>1. Types
    BY DEF Types, Empty, Nothing
  <2>2. AtGate = {} /\ AtLine = {}
    BY DEF AtGate, AtLine
  <2>3. Line(<<>>, {})
    BY DEF Line
  <2>4. Queues
    BY <2>2, <2>3 DEF Queues
  <2>5. Epochs /\ NoWeightBeforeCalibration /\ MemorySinceCalibration
    BY <2>2 DEF Epochs, NoWeightBeforeCalibration, MemorySinceCalibration, Empty
  <2> QED
    BY <2>1, <2>4, <2>5 DEF Inv
<1>2. Inv /\ [LNext]_lvars => Inv'
  BY TypesKept, QueuesKept, AgesKept DEF Inv, Ages
<1> QED
  BY <1>1, <1>2, PTL DEF LSafety

\* The types, the queues being sequences of tasks.
THEOREM CommandTypes == LSafety => []LTypeOK
<1>1. Inv => LTypeOK
  <2> SUFFICES ASSUME Inv
               PROVE  LTypeOK
    OBVIOUS
  <2>1. gate \in Seq(Client) /\ queue \in Seq(Client)
    <3>1. gate \in Seq(AtGate) /\ queue \in Seq(AtLine)
      BY DEF Inv, Queues, Line
    <3>2. AtGate \subseteq Client /\ AtLine \subseteq Client
      BY DEF AtGate, AtLine
    <3> QED
      BY <3>1, <3>2
  <2> QED
    BY <2>1 DEF Inv, Types, LTypeOK
<1> QED
  BY <1>1, InvHolds, PTL

\* One reader at a time is at the serial line.
THEOREM Readers == LSafety => []OneReader
<1>1. Inv => OneReader
  BY OwnerAlone DEF Inv, Queues, OneReader
<1> QED
  BY <1>1, InvHolds, PTL

\* After calibrate() has returned, get_loadcells() returns no weight that was
\* measured before it.
THEOREM WeightsSince == LSafety => []NoWeightBeforeCalibration
<1>1. Inv => NoWeightBeforeCalibration
  BY DEF Inv
<1> QED
  BY <1>1, InvHolds, PTL

\* The sanitizer remembers no weight from before a calibration that succeeded.
THEOREM MemoriesSince == LSafety => []MemorySinceCalibration
<1>1. Inv => MemorySinceCalibration
  BY DEF Inv
<1> QED
  BY <1>1, InvHolds, PTL
=============================================================================
