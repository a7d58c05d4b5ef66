------------------------ MODULE FramesFilters_proofs ------------------------
(***************************************************************************)
(* The two parts without a run, which share nothing but this module: what  *)
(* Frames promises of every line of bytes (which replies are delivered,    *)
(* and that damage to one byte is noticed), and what Filters promises for  *)
(* every filter, any factors and any readings.                             *)
(***************************************************************************)
EXTENDS Frames, Filters, FiniteSetTheorems, SequenceTheorems, TLAPS

-----------------------------------------------------------------------------
(* The frames *)

\* Only the bytes between m and n count.
LEMMA XorSame ==
    ASSUME NEW s, NEW t, NEW m, NEW n, \A i \in m..n : s[i] = t[i]
    PROVE  Xor(s, m, n) = Xor(t, m, n)
  <1>1. \A b : {i \in m..n : b \in s[i]} = {i \in m..n : b \in t[i]}
    OBVIOUS
  <1> QED BY <1>1 DEF Xor

\* One element more changes the parity of a set.
LEMMA Parity ==
    ASSUME NEW S, IsFiniteSet(S), NEW k, k \notin S
    PROVE  (Cardinality(S) % 2 = 1) # (Cardinality(S \cup {k}) % 2 = 1)
  <1>1. Cardinality(S \cup {k}) = Cardinality(S) + 1
    BY FS_AddElement
  <1>2. Cardinality(S) \in Nat
    BY FS_CardinalityType
  <1> QED BY <1>1, <1>2

\* A byte that differs, and only one, changes the checksum.
LEMMA XorFlip ==
    ASSUME NEW m \in Int, NEW n \in Int, NEW s, NEW t, NEW k \in m..n,
           s[k] \in Byte, t[k] \in Byte, s[k] # t[k],
           \A i \in (m..n) \ {k} : s[i] = t[i]
    PROVE  Xor(s, m, n) # Xor(t, m, n)
  <1>1. PICK b \in Bit : (b \in s[k]) # (b \in t[k])
    BY DEF Byte
  <1> DEFINE S == {i \in m..n : b \in s[i]}
             T == {i \in m..n : b \in t[i]}
  <1>2. IsFiniteSet(S) /\ IsFiniteSet(T)
    BY FS_Interval, FS_Subset
  <1>3. (Cardinality(S) % 2 = 1) # (Cardinality(T) % 2 = 1)
    <2>1. CASE b \in s[k]
      <3>1. S = T \cup {k} /\ k \notin T
        BY <1>1, <2>1
      <3> HIDE DEF S, T
      <3> QED BY <3>1, <1>2, Parity
    <2>2. CASE b \notin s[k]
      <3>1. T = S \cup {k} /\ k \notin S
        BY <1>1, <2>2
      <3> HIDE DEF S, T
      <3> QED BY <3>1, <1>2, Parity
    <2> QED BY <2>1, <2>2
  <1>4. (b \in Xor(s, m, n)) # (b \in Xor(t, m, n))
    BY <1>3 DEF Xor
  <1> QED BY <1>4

\* DataLength is one of the lengths of its table.
LEMMA DataLengthType == \A codes : DataLength(codes) \in Nat
  BY DEF DataLength

\* The elements of a concatenation.
LEMMA Concat ==
    ASSUME NEW S, NEW s \in Seq(S), NEW t \in Seq(S)
    PROVE  /\ s \o t \in Seq(S) /\ Len(s \o t) = Len(s) + Len(t)
           /\ \A i \in 1..Len(s) : (s \o t)[i] = s[i]
           /\ \A i \in 1..Len(t) : (s \o t)[Len(s) + i] = t[i]
  <1>1. /\ s \o t \in Seq(S) /\ Len(s \o t) = Len(s) + Len(t)
        /\ \A i \in 1..(Len(s) + Len(t)) :
             (s \o t)[i] = IF i <= Len(s) THEN s[i] ELSE t[i - Len(s)]
    BY ConcatProperties
  <1>2. Len(s) \in Nat /\ Len(t) \in Nat
    OBVIOUS
  <1>3. ASSUME NEW i \in 1..Len(s) PROVE (s \o t)[i] = s[i]
    BY <1>1, <1>2
  <1>4. ASSUME NEW i \in 1..Len(t) PROVE (s \o t)[Len(s) + i] = t[i]
    <2>1. Len(s) + i \in 1..(Len(s) + Len(t)) /\ ~(Len(s) + i <= Len(s)) /\ (Len(s) + i) - Len(s) = i
      BY <1>2
    <2> QED BY <1>1, <2>1
  <1> QED BY <1>1, <1>3, <1>4

\* The bytes of a frame with n bytes of data, one by one.
Layout(f, codes, data, n) ==
    /\ f \in Seq(Byte) /\ Len(f) = 7 + n
    /\ f[1] = STX /\ f[6 + n] = ETX /\ f[7 + n] = Xor(f, 2, 6 + n)
    /\ \A i \in 1..4 : f[1 + i] = codes[i]
    /\ \A i \in 1..n : f[5 + i] = data[i]

LEMMA FrameBytes ==
    ASSUME NEW codes \in Codes, NEW data \in Seq(Byte)
    PROVE  Layout(Frame(codes, data), codes, data, Len(data))
  <1> DEFINE n == Len(data)
             b == Body(codes, data)
             h == <<STX>> \o codes
             d == Append(data, ETX)
             f == Frame(codes, data)
  <1>0. STX \in Byte /\ ETX \in Byte /\ n \in Nat
    BY DEF STX, ETX, Byte, Bit
  <1>1. h \in Seq(Byte) /\ Len(h) = 5 /\ h[1] = STX /\ \A i \in 1..4 : h[1 + i] = codes[i]
    <2>1. codes \in Seq(Byte) /\ Len(codes) = 4
      BY DEF Codes
    <2>2. <<STX>> \in Seq(Byte) /\ Len(<<STX>>) = 1 /\ <<STX>>[1] = STX
      BY <1>0
    <2> DEFINE o == <<STX>>
    <2> HIDE DEF o
    <2>3. h = o \o codes
      BY DEF o
    <2>4. o \in Seq(Byte) /\ Len(o) = 1 /\ o[1] = STX
      BY <2>2 DEF o
    <2> HIDE DEF h
    <2>5. o \in Seq(Byte) /\ codes \in Seq(Byte)
      BY <2>1, <2>4
    <2>6. /\ o \o codes \in Seq(Byte) /\ Len(o \o codes) = Len(o) + Len(codes)
          /\ \A i \in 1..Len(o) : (o \o codes)[i] = o[i]
          /\ \A i \in 1..Len(codes) : (o \o codes)[Len(o) + i] = codes[i]
      BY <2>5, Concat
    <2> QED BY <2>1, <2>3, <2>4, <2>6
  <1>2. d \in Seq(Byte) /\ Len(d) = n + 1 /\ d[n + 1] = ETX /\ \A i \in 1..n : d[i] = data[i]
    BY <1>0
  <1>3. b = h \o d
    BY DEF Body
  <1>4. /\ b \in Seq(Byte) /\ Len(b) = 6 + n
        /\ \A i \in 1..5 : b[i] = h[i]
        /\ \A i \in 1..(n + 1) : b[5 + i] = d[i]
    <2> HIDE DEF h, d, b, n
    <2>1. h \in Seq(Byte) /\ d \in Seq(Byte)
      BY <1>1, <1>2
    <2>2. /\ h \o d \in Seq(Byte) /\ Len(h \o d) = Len(h) + Len(d)
          /\ \A i \in 1..Len(h) : (h \o d)[i] = h[i]
          /\ \A i \in 1..Len(d) : (h \o d)[Len(h) + i] = d[i]
      BY <2>1, Concat
    <2> QED BY <1>0, <1>1, <1>2, <1>3, <2>2
  <1> DEFINE x == Xor(b, 2, 6 + n)
  <1>5. x \in Byte
    BY DEF Xor, Byte
  <1>6. f = Append(b, x)
    BY DEF Frame
  <1>7. /\ f \in Seq(Byte) /\ Len(f) = 7 + n /\ f[7 + n] = x
        /\ \A i \in 1..(6 + n) : f[i] = b[i]
    <2> HIDE DEF b, x, f, n
    <2> QED BY <1>0, <1>4, <1>5, <1>6
  <1>8. Xor(f, 2, 6 + n) = x
    <2>1. \A i \in 2..(6 + n) : f[i] = b[i]
      <3> HIDE DEF b, x, f, n
      <3> QED BY <1>0, <1>7
    <2> QED BY <2>1, XorSame
  <1> HIDE DEF b, x, f, n, h, d
  <1>9. f[1] = STX /\ f[6 + n] = ETX
    BY <1>0, <1>1, <1>2, <1>4, <1>7
  <1>10. \A i \in 1..4 : f[1 + i] = codes[i]
    BY <1>0, <1>1, <1>4, <1>7
  <1>11. \A i \in 1..n : f[5 + i] = data[i]
    BY <1>0, <1>2, <1>4, <1>7
  <1> QED BY <1>7, <1>8, <1>9, <1>10, <1>11 DEF f, n, Layout

-----------------------------------------------------------------------------
\* Nothing is delivered but what the line begins with, byte by byte, as the
\* frame of the command that was asked: a reply to another command, the echo of
\* the request, a frame that is cut or has lost a byte is not.
THEOREM OnlyWhole ==
    ASSUME NEW line \in Seq(Byte), NEW codes \in Codes, NEW data,
           Delivered(line, codes, data)
    PROVE  /\ Proper(codes, data) /\ \A i \in 1..Len(data) : data[i] # ETX
           /\ StartsWith(line, Frame(codes, data))
  <1> DEFINE l == DataLength(codes)
             n == 6 + l
             f == Frame(codes, data)
  <1>1. l \in Nat /\ Len(line) \in Nat
    BY DataLengthType
  <1>2. PICK k \in 1..Len(line) : Fetched(line, k, codes) /\ Parsed(line, k, codes, data)
    BY DEF Delivered
  <1>3. /\ k >= n + 1 /\ line[1] = STX /\ SubSeq(line, 2, 5) = codes /\ line[n] = ETX
        /\ Xor(line, 2, n) = line[n + 1] /\ data = SubSeq(line, 6, n - 1)
        /\ Proper(codes, data)
    BY <1>2 DEF Parsed
  <1>4. data \in Seq(Byte) /\ Len(data) = l
    BY <1>3 DEF Proper
  <1>5. line[k - 1] = ETX /\ \A i \in 2..(k - 2) : line[i] # ETX
    <2>1. EndsAt(line, k - 1)
      BY <1>2 DEF Fetched, Received
    <2> QED BY <2>1 DEF EndsAt
  <1>6. n = k - 1
    <2> HIDE DEF l
    <2> QED BY <1>1, <1>3, <1>5
  <1>7. \A i \in 1..4 : line[1 + i] = codes[i]
    <2>1. \A i \in 2..5 : line[i] \in Byte
      <3> HIDE DEF l
      <3> QED BY <1>1, <1>3, ElementOfSeq
    <2>2. \A i \in 1..4 : SubSeq(line, 2, 5)[i] = line[2 + i - 1]
      BY <2>1, SubSeqProperties
    <2> QED BY <1>3, <2>2
  <1>8. \A i \in 1..l : line[5 + i] = data[i]
    <2> HIDE DEF l
    <2>1. \A i \in 6..(n - 1) : line[i] \in Byte
      BY <1>1, <1>3, ElementOfSeq
    <2>2. \A i \in 1..((n - 1) - 6 + 1) : SubSeq(line, 6, n - 1)[i] = line[6 + i - 1]
      BY <1>1, <2>1, SubSeqProperties
    <2> QED BY <1>1, <1>3, <2>2
  <1>9. \A i \in 1..Len(data) : data[i] # ETX
    <2> HIDE DEF l
    <2> QED BY <1>1, <1>4, <1>5, <1>6, <1>8
  <1>10. /\ f \in Seq(Byte) /\ Len(f) = 7 + l
         /\ f[1] = STX /\ f[6 + l] = ETX /\ f[7 + l] = Xor(f, 2, 6 + l)
         /\ \A i \in 1..4 : f[1 + i] = codes[i]
         /\ \A i \in 1..l : f[5 + i] = data[i]
    <2>1. Layout(f, codes, data, Len(data))
      BY <1>4, FrameBytes
    <2> HIDE DEF l, f
    <2> QED BY <2>1, <1>4 DEF Layout
  <1> HIDE DEF l, f
  <1>11. \A i \in 1..n : line[i] = f[i]
    <2> SUFFICES ASSUME NEW i \in 1..n PROVE line[i] = f[i]
      OBVIOUS
    <2>1. CASE i = 1
      BY <2>1, <1>3, <1>10
    <2>2. CASE i \in 2..5
      <3>1. i - 1 \in 1..4 /\ i = 1 + (i - 1)
        BY <2>2
      <3> QED BY <3>1, <1>7, <1>10
    <2>3. CASE i \in 6..(5 + l)
      <3>1. i - 5 \in 1..l /\ i = 5 + (i - 5)
        BY <2>3, <1>1
      <3> QED BY <3>1, <1>8, <1>10
    <2>4. CASE i = n
      BY <2>4, <1>3, <1>10
    <2> QED BY <2>1, <2>2, <2>3, <2>4, <1>1
  <1>12. line[n + 1] = f[n + 1]
    <2>1. Xor(line, 2, n) = Xor(f, 2, n)
      <3>1. \A i \in 2..n : line[i] = f[i]
        BY <1>11, <1>1
      <3> QED BY <3>1, XorSame
    <2> QED BY <2>1, <1>1, <1>3, <1>10
  <1>13. StartsWith(line, f)
    BY <1>1, <1>3, <1>10, <1>11, <1>12 DEF StartsWith
  <1> QED BY <1>3, <1>9, <1>13 DEF f

\* Whatever follows it on the line, a reply that is whole is delivered, and with
\* the data that were sent.
THEOREM RoundTrip ==
    ASSUME NEW line \in Seq(Byte), NEW codes \in Codes, NEW data, Proper(codes, data),
           \A i \in 1..Len(data) : data[i] # ETX,
           StartsWith(line, Frame(codes, data))
    PROVE  Delivered(line, codes, data)
  <1> DEFINE l == DataLength(codes)
             n == 6 + l
             k == 7 + l
             f == Frame(codes, data)
  <1>1. l \in Nat /\ Len(line) \in Nat
    BY DataLengthType
  <1>2. data \in Seq(Byte) /\ Len(data) = l
    BY DEF Proper
  <1> HIDE DEF l
  <1>3. /\ f \in Seq(Byte) /\ Len(f) = 7 + l
        /\ f[1] = STX /\ f[6 + l] = ETX /\ f[7 + l] = Xor(f, 2, 6 + l)
        /\ \A i \in 1..4 : f[1 + i] = codes[i]
        /\ \A i \in 1..l : f[5 + i] = data[i]
    <2>1. Layout(f, codes, data, Len(data))
      BY <1>2, FrameBytes
    <2> HIDE DEF f
    <2> QED BY <2>1, <1>2 DEF Layout
  <1>4. k <= Len(line) /\ \A i \in 1..k : line[i] = f[i]
    BY <1>3 DEF StartsWith
  <1> HIDE DEF f
  <1>5. \A i \in 1..4 : line[1 + i] = codes[i] /\ codes[i] # ETX
    BY <1>1, <1>3, <1>4 DEF Codes
  <1>6. \A i \in 1..l : line[5 + i] = data[i] /\ data[i] # ETX
    <2> SUFFICES ASSUME NEW i \in 1..l PROVE line[5 + i] = data[i] /\ data[i] # ETX
      OBVIOUS
    <2>1. 5 + i \in 1..k
      BY <1>1
    <2> QED BY <2>1, <1>2, <1>3, <1>4
  <1>7. line[1] = STX /\ line[n] = ETX /\ line[n + 1] = Xor(line, 2, n)
    <2>1. Xor(line, 2, n) = Xor(f, 2, n)
      <3>1. \A i \in 2..n : line[i] = f[i]
        BY <1>1, <1>4
      <3> QED BY <3>1, XorSame
    <2> QED BY <2>1, <1>1, <1>3, <1>4
  <1>8. EndsAt(line, n)
    <2>1. ASSUME NEW i \in 2..(n - 1) PROVE line[i] # ETX
      <3>1. CASE i \in 2..5
        <4>1. i - 1 \in 1..4 /\ i = 1 + (i - 1)
          BY <3>1
        <4> QED BY <4>1, <1>5
      <3>2. CASE i \in 6..(5 + l)
        <4>1. i - 5 \in 1..l /\ i = 5 + (i - 5)
          BY <3>2, <1>1
        <4> QED BY <4>1, <1>6
      <3> QED BY <3>1, <3>2, <1>1
    <2>2. n \in 2..Len(line)
      BY <1>1, <1>4
    <2> QED BY <2>1, <2>2, <1>7 DEF EndsAt
  <1>9. SubSeq(line, 2, 5) = codes
    <2>1. \A i \in 2..5 : line[i] \in Byte
      BY <1>1, <1>4, ElementOfSeq
    <2>2. /\ SubSeq(line, 2, 5) \in Seq(Byte) /\ Len(SubSeq(line, 2, 5)) = 4
          /\ \A i \in 1..4 : SubSeq(line, 2, 5)[i] = line[2 + i - 1]
      BY <2>1, SubSeqProperties
    <2>3. codes \in Seq(Byte) /\ Len(codes) = 4
      BY DEF Codes
    <2>4. \A i \in 1..4 : SubSeq(line, 2, 5)[i] = codes[i]
      BY <2>2, <1>5
    <2> QED BY <2>2, <2>3, <2>4, SeqEqual
  <1>10. SubSeq(line, 6, n - 1) = data
    <2>1. \A i \in 6..(n - 1) : line[i] \in Byte
      BY <1>1, <1>4, ElementOfSeq
    <2>2. /\ SubSeq(line, 6, n - 1) \in Seq(Byte)
          /\ Len(SubSeq(line, 6, n - 1)) = IF 6 <= n - 1 THEN (n - 1) - 6 + 1 ELSE 0
          /\ \A i \in 1..((n - 1) - 6 + 1) : SubSeq(line, 6, n - 1)[i] = line[6 + i - 1]
      BY <1>1, <2>1, SubSeqProperties
    <2>3. Len(SubSeq(line, 6, n - 1)) = l
      BY <1>1, <2>2
    <2>4. ASSUME NEW i \in 1..l PROVE SubSeq(line, 6, n - 1)[i] = data[i]
      <3>1. i \in 1..((n - 1) - 6 + 1) /\ 6 + i - 1 = 5 + i
        BY <1>1
      <3> QED BY <3>1, <2>2, <1>6
    <2> QED BY <2>2, <2>3, <2>4, <1>2, SeqEqual
  <1>11. Parsed(line, k, codes, data)
    BY <1>1, <1>7, <1>9, <1>10 DEF Parsed, l
  <1>12. Fetched(line, k, codes)
    <2>1. k \in 1..Len(line) /\ k - 1 = n /\ k >= 7
      BY <1>1, <1>4
    <2>2. Received(line, k)
      BY <2>1, <1>8 DEF Received
    <2>3. ChecksumValid(line, k)
      BY <2>1, <1>7 DEF ChecksumValid
    <2>4. CodesAre(line, k, codes)
      BY <2>1, <1>7, <1>9 DEF CodesAre
    <2> QED BY <2>2, <2>3, <2>4 DEF Fetched
  <1>13. k \in 1..Len(line)
    BY <1>1, <1>4
  <1> QED BY <1>11, <1>12, <1>13 DEF Delivered

\* One byte of a frame that arrives as another byte: nothing is delivered, be it
\* a byte of the data that becomes an ETX, the ETX itself, or the checksum,
\* whatever follows on the line.
THEOREM DamageNoticed ==
    ASSUME NEW line \in Seq(Byte), NEW codes \in Codes, NEW data, Proper(codes, data),
           NEW k \in 1..Len(Frame(codes, data)),
           Len(Frame(codes, data)) <= Len(line),
           line[k] # Frame(codes, data)[k],
           \A i \in 1..Len(Frame(codes, data)) : i # k => line[i] = Frame(codes, data)[i],
           NEW other
    PROVE  ~Delivered(line, codes, other)
  <1> SUFFICES ASSUME Delivered(line, codes, other) PROVE FALSE
    OBVIOUS
  <1> DEFINE l == DataLength(codes)
             n == 6 + l
             f == Frame(codes, data)
             g == Frame(codes, other)
  <1>1. Proper(codes, other) /\ StartsWith(line, g)
    BY OnlyWhole
  <1>2. /\ l \in Nat /\ Len(line) \in Nat
        /\ data \in Seq(Byte) /\ Len(data) = l /\ other \in Seq(Byte) /\ Len(other) = l
    BY <1>1, DataLengthType DEF Proper
  <1> HIDE DEF l
  <1>3. /\ f \in Seq(Byte) /\ Len(f) = 7 + l
        /\ f[1] = STX /\ f[6 + l] = ETX /\ f[7 + l] = Xor(f, 2, 6 + l)
        /\ \A i \in 1..4 : f[1 + i] = codes[i]
    <2>1. Layout(f, codes, data, Len(data))
      BY <1>2, FrameBytes
    <2> HIDE DEF f
    <2> QED BY <2>1, <1>2 DEF Layout
  <1>4. /\ g \in Seq(Byte) /\ Len(g) = 7 + l
        /\ g[1] = STX /\ g[6 + l] = ETX /\ g[7 + l] = Xor(g, 2, 6 + l)
        /\ \A i \in 1..4 : g[1 + i] = codes[i]
    <2>1. Layout(g, codes, other, Len(other))
      BY <1>2, FrameBytes
    <2> HIDE DEF g
    <2> QED BY <2>1, <1>2 DEF Layout
  <1>5. k \in 1..(7 + l) /\ f[k] # g[k] /\ \A i \in 1..(7 + l) : i # k => f[i] = g[i]
    BY <1>1, <1>3, <1>4 DEF StartsWith
  <1> HIDE DEF f, g
  <1>6. CASE k = 1 \/ k = 6 + l
    BY <1>6, <1>3, <1>4, <1>5
  <1>7. CASE k \in 2..5
    <2>1. k - 1 \in 1..4 /\ k = 1 + (k - 1)
      BY <1>7
    <2> QED BY <2>1, <1>3, <1>4, <1>5
  <1>8. CASE k \in 6..(5 + l)
    <2>1. f[7 + l] = g[7 + l]
      <3>1. 7 + l \in 1..(7 + l) /\ 7 + l # k
        BY <1>8, <1>2
      <3> QED BY <3>1, <1>5
    <2>2. Xor(f, 2, n) # Xor(g, 2, n)
      <3>1. k \in 2..n /\ 2 \in Int /\ n \in Int
        BY <1>8, <1>2
      <3>2. f[k] \in Byte /\ g[k] \in Byte
        BY <1>3, <1>4, <1>5, ElementOfSeq
      <3>3. \A i \in (2..n) \ {k} : f[i] = g[i]
        BY <1>2, <1>5
      <3> HIDE DEF n
      <3> QED BY <3>1, <3>2, <3>3, <1>5, XorFlip
    <2> QED BY <2>1, <2>2, <1>3, <1>4
  <1>9. CASE k = 7 + l
    <2>1. Xor(f, 2, n) = Xor(g, 2, n)
      <3>1. \A i \in 2..n : f[i] = g[i]
        BY <1>9, <1>2, <1>5
      <3> QED BY <3>1, XorSame
    <2> QED BY <2>1, <1>9, <1>3, <1>4, <1>5
  <1> QED BY <1>2, <1>5, <1>6, <1>7, <1>8, <1>9

\* Of a frame that is cut, or has lost bytes, and is followed by nothing, nothing
\* is delivered.
THEOREM LossNoticed ==
    ASSUME NEW line \in Seq(Byte), NEW codes \in Codes, NEW data, Proper(codes, data),
           Len(line) < Len(Frame(codes, data)),
           NEW other
    PROVE  ~Delivered(line, codes, other)
  <1> SUFFICES ASSUME Delivered(line, codes, other) PROVE FALSE
    OBVIOUS
  <1>1. Proper(codes, other) /\ StartsWith(line, Frame(codes, other))
    BY OnlyWhole
  <1>2. /\ data \in Seq(Byte) /\ other \in Seq(Byte) /\ Len(data) = Len(other)
        /\ Len(data) \in Nat /\ Len(line) \in Nat
    BY <1>1 DEF Proper
  <1>3. Len(Frame(codes, data)) = 7 + Len(data) /\ Len(Frame(codes, other)) = 7 + Len(other)
    BY <1>2, FrameBytes DEF Layout
  <1> QED BY <1>1, <1>2, <1>3 DEF StartsWith

\* A byte that arrives twice changes no data: either they are delivered as they
\* were sent, or nothing is.
THEOREM RepetitionHarmless ==
    ASSUME NEW line \in Seq(Byte), NEW codes \in Codes, NEW data, Proper(codes, data),
           \A i \in 1..Len(data) : data[i] # ETX,
           NEW k \in 1..Len(Frame(codes, data)),
           \A i \in 1..k : line[i] = Frame(codes, data)[i],
           \A i \in k..Len(Frame(codes, data)) : line[i + 1] = Frame(codes, data)[i],
           NEW other, Delivered(line, codes, other)
    PROVE  other = data
  <1> DEFINE l == DataLength(codes)
             f == Frame(codes, data)
             g == Frame(codes, other)
  <1>1. Proper(codes, other) /\ StartsWith(line, g)
    BY OnlyWhole
  <1>2. /\ l \in Nat /\ Len(line) \in Nat
        /\ data \in Seq(Byte) /\ Len(data) = l /\ other \in Seq(Byte) /\ Len(other) = l
    BY <1>1, DataLengthType DEF Proper
  <1> HIDE DEF l
  <1>3. /\ Len(f) = 7 + l /\ f[1] = STX
        /\ \A i \in 1..4 : f[1 + i] = codes[i]
        /\ \A i \in 1..l : f[5 + i] = data[i]
    <2>1. Layout(f, codes, data, Len(data))
      BY <1>2, FrameBytes
    <2> HIDE DEF f
    <2> QED BY <2>1, <1>2 DEF Layout
  <1>4. /\ Len(g) = 7 + l /\ g[6 + l] = ETX
        /\ \A i \in 1..l : g[5 + i] = other[i]
    <2>1. Layout(g, codes, other, Len(other))
      BY <1>2, FrameBytes
    <2> HIDE DEF g
    <2> QED BY <2>1, <1>2 DEF Layout
  <1>5. \A i \in 1..(7 + l) : line[i] = g[i]
    BY <1>1, <1>4 DEF StartsWith
  <1>6. f[5 + l] # ETX
    <2>1. CASE l = 0
      <3>1. f[5] = codes[4]
        BY <1>3
      <3> QED BY <2>1, <3>1 DEF Codes
    <2>2. CASE l > 0
      <3>1. l \in 1..l
        BY <2>2, <1>2
      <3> HIDE DEF f
      <3> QED BY <3>1, <1>2, <1>3
    <2> QED BY <2>1, <2>2, <1>2
  <1>7. k \in 1..(7 + l) /\ (\A i \in 1..k : line[i] = f[i]) /\ \A i \in k..(7 + l) : line[i + 1] = f[i]
    BY <1>3
  <1> HIDE DEF f, g
  <1>8. k > 5 + l
    <2> SUFFICES ASSUME k <= 5 + l PROVE FALSE
      BY <1>2, <1>7
    <2>1. line[(5 + l) + 1] = f[5 + l]
      BY <1>2, <1>7
    <2> QED BY <2>1, <1>2, <1>4, <1>5, <1>6
  <1>9. ASSUME NEW i \in 1..l PROVE other[i] = data[i]
    <2>1. 5 + i \in 1..k /\ 5 + i \in 1..(7 + l)
      BY <1>2, <1>7, <1>8
    <2>2. f[5 + i] = data[i] /\ g[5 + i] = other[i]
      BY <1>3, <1>4
    <2>3. line[5 + i] = g[5 + i] /\ line[5 + i] = f[5 + i]
      BY <2>1, <1>5, <1>7
    <2> QED BY <2>2, <2>3
  <1> QED BY <1>2, <1>9, SeqEqual

\* The echo of a request for data is taken for the reply by fetch(), which checks
\* codes and checksum, and cannot be parsed: the command fails without a retry.
THEOREM EchoFails ==
    ASSUME NEW codes \in Codes, DataLength(codes) > 0
    PROVE  Failed(Frame(codes, <<>>), codes)
  <1> DEFINE f == Frame(codes, <<>>)
  <1>1. /\ f \in Seq(Byte) /\ Len(f) = 7
        /\ f[1] = STX /\ f[6] = ETX /\ f[7] = Xor(f, 2, 6)
        /\ \A i \in 1..4 : f[1 + i] = codes[i]
    <2>1. <<>> \in Seq(Byte) /\ Len(<<>>) = 0
      OBVIOUS
    <2>2. Layout(f, codes, <<>>, Len(<<>>))
      BY <2>1, FrameBytes
    <2> HIDE DEF f
    <2> QED BY <2>1, <2>2 DEF Layout
  <1> HIDE DEF f
  <1>2. codes \in Seq(Byte) /\ Len(codes) = 4 /\ \A i \in 1..4 : codes[i] # ETX
    BY DEF Codes
  <1>3. EndsAt(f, 6)
    <2>1. ASSUME NEW i \in 2..5 PROVE f[i] # ETX
      <3>1. i - 1 \in 1..4 /\ i = 1 + (i - 1)
        OBVIOUS
      <3> QED BY <3>1, <1>1, <1>2
    <2> QED BY <2>1, <1>1 DEF EndsAt
  <1>4. SubSeq(f, 2, 5) = codes
    <2>1. \A i \in 2..5 : f[i] \in Byte
      <3>1. f \in Seq(Byte) /\ \A i \in 2..5 : i \in 1..Len(f)
        BY <1>1
      <3> QED BY <3>1, ElementOfSeq
    <2>2. /\ SubSeq(f, 2, 5) \in Seq(Byte) /\ Len(SubSeq(f, 2, 5)) = 4
          /\ \A i \in 1..4 : SubSeq(f, 2, 5)[i] = f[2 + i - 1]
      BY <2>1, SubSeqProperties
    <2>3. \A i \in 1..4 : SubSeq(f, 2, 5)[i] = codes[i]
      BY <2>2, <1>1
    <2> QED BY <2>2, <2>3, <1>2, SeqEqual
  <1>5. Fetched(f, 7, codes)
    BY <1>1, <1>3, <1>4 DEF Fetched, Received, ChecksumValid, CodesAre
  <1>6. ~(7 >= 6 + DataLength(codes) + 1)
    BY DataLengthType
  <1>7. \A data \in Seq(Byte) : ~Parsed(f, 7, codes, data)
    BY <1>6 DEF Parsed
  <1> QED BY <1>1, <1>5, <1>7 DEF Failed, f

\* docs/PROTOCOL.md describes the checksum without the ETX; the code counts it.
\* The two differ for every frame, so a device that follows the document would
\* never be understood.
THEOREM ChecksumCountsEtx ==
    ASSUME NEW codes \in Codes, NEW data \in Seq(Byte)
    PROVE  LET n == Len(Frame(codes, data))
           IN Frame(codes, data)[n] # Xor(Frame(codes, data), 2, n - 2)
  <1> DEFINE l == Len(data)
             f == Frame(codes, data)
  <1>1. l \in Nat /\ Len(f) = 7 + l /\ f[6 + l] = ETX /\ f[7 + l] = Xor(f, 2, 6 + l)
    BY FrameBytes DEF Layout
  <1> HIDE DEF f, l
  <1> DEFINE S == {i \in 2..(6 + l) : 0 \in f[i]}
             T == {i \in 2..(5 + l) : 0 \in f[i]}
  <1>2. S = T \cup {6 + l} /\ 6 + l \notin T
    BY <1>1 DEF ETX
  <1>3. IsFiniteSet(T)
    <2>1. IsFiniteSet(2..(5 + l)) /\ T \subseteq 2..(5 + l)
      BY <1>1, FS_Interval
    <2> QED BY <2>1, FS_Subset
  <1>4. (Cardinality(S) % 2 = 1) # (Cardinality(T) % 2 = 1)
    <2> HIDE DEF S, T
    <2> QED BY <1>2, <1>3, Parity
  <1>5. (0 \in Xor(f, 2, 6 + l)) # (0 \in Xor(f, 2, 5 + l))
    BY <1>4 DEF Xor, Bit
  <1>6. (7 + l) - 2 = 5 + l
    BY <1>1
  <1> QED BY <1>1, <1>5, <1>6 DEF f

-----------------------------------------------------------------------------
(* The filters *)

\* What \div gives, and how a common factor cancels.
LEMMA Division ==
    ASSUME NEW a \in Int, NEW d \in Int, d > 0
    PROVE  a \div d \in Int /\ d * (a \div d) <= a /\ a < d * (a \div d) + d
  OBVIOUS

LEMMA Cancel ==
    ASSUME NEW a \in Int, NEW b \in Int, NEW d \in Int, d > 0
    PROVE  /\ d * a < d * b => a < b
           /\ a <= b => d * a <= d * b
  OBVIOUS

\* The part of a difference that a filter takes lies between zero and all of it.
LEMMA Part ==
    ASSUME NEW s \in Int, NEW d \in Int, 0 <= s, s <= d, 0 < d, NEW e \in Int
    PROVE  LET m == (s * e) \div d
           IN /\ m \in Int
              /\ e >= 0 => 0 <= m /\ m <= e
              /\ e <= 0 => e <= m /\ m <= 0
<1> DEFINE m == (s * e) \div d
<1>1. s * e \in Int
  OBVIOUS
<1>2. m \in Int /\ d * m <= s * e /\ s * e < d * m + d
  BY <1>1, Division
<1>3. ASSUME e >= 0
      PROVE  0 <= m /\ m <= e
  <2>1. 0 <= s * e /\ s * e <= d * e
    BY <1>3
  <2>2. d * 0 < d * (m + 1)
    BY <1>1, <1>2, <2>1
  <2>3. d * m < d * (e + 1)
    BY <1>1, <1>2, <2>1
  <2> QED
    BY <1>2, <2>2, <2>3, Cancel
<1>4. ASSUME e <= 0
      PROVE  e <= m /\ m <= 0
  <2>1. d * e <= s * e /\ s * e <= 0
    BY <1>4
  <2>2. d * e < d * (m + 1)
    BY <1>1, <1>2, <2>1
  <2>3. d * m < d * 1
    BY <1>1, <1>2, <2>1
  <2> QED
    BY <1>2, <2>2, <2>3, Cancel
<1> QED
  BY <1>2, <1>3, <1>4

\* The share is never more than the whole.
LEMMA Shares ==
    ASSUME Settings, p \in Nat
    PROVE  Share \in Nat /\ Whole \in Nat /\ Share <= Whole /\ 0 < Whole
  BY DEF Settings, Share, Whole, Predicted

\* An estimate moves towards the reading, and not past it.
LEMMA Towards ==
    ASSUME Settings, TypeOK, NEW n \in Int, Further(n)
    PROVE  /\ estimate' \in Int
           /\ n >= estimate => estimate <= estimate' /\ estimate' <= n
           /\ n <= estimate => n <= estimate' /\ estimate' <= estimate
<1> DEFINE e == n - estimate
           m == (Share * e) \div Whole
<1>1. estimate \in Int /\ e \in Int
  BY DEF TypeOK
<1>2. Share \in Int /\ Whole \in Int /\ 0 <= Share /\ Share <= Whole /\ 0 < Whole
  BY Shares DEF TypeOK
<1>3. /\ m \in Int
      /\ e >= 0 => 0 <= m /\ m <= e
      /\ e <= 0 => e <= m /\ m <= 0
  BY ONLY <1>1, <1>2, Part
<1>4. estimate' = estimate + m
  BY DEF Further
<1> HIDE DEF m
<1> QED
  BY <1>1, <1>3, <1>4

\* Two numbers of a range differ by its width at most.
LEMMA Spread ==
    ASSUME NEW a \in Int, NEW b \in Int, NEW l \in Int, NEW h \in Int,
           l <= a, a <= h, l <= b, b <= h
    PROVE  Abs(a - b) \in Int /\ Abs(a - b) <= h - l
  BY DEF Abs

-----------------------------------------------------------------------------
\* Known weights are weights the filter has seen, or estimates between them.
Remembered == known => initialized /\ low <= previous /\ previous <= high

FInv == TypeOK /\ NoOvershoot /\ Remembered /\ NoFalseAlarm

LEMMA ProcessKeeps ==
    ASSUME Settings, FInv, NEW n \in Int, Process(n)
    PROVE  FInv'
<1> DEFINE compared == IF Scope = "raw" THEN n ELSE estimate'
<1> USE DEF FInv
<1>1. /\ p' \in Nat /\ estimate' \in Int /\ low' \in Int /\ high' \in Int
      /\ low' <= n /\ n <= high' /\ low' <= estimate' /\ estimate' <= high'
      /\ known => low' <= previous /\ previous <= high'
  <2>1. CASE First(n)
    BY <2>1 DEF Settings, First, TypeOK, Remembered
  <2>2. CASE Further(n)
    <3>1. p' \in Nat
      <4>1. CASE Method = "kalman"
        <5>1. /\ Predicted \in Int /\ Predicted + R \in Int /\ Predicted + R > 0
              /\ R \in Int /\ 0 <= R /\ R <= Predicted + R /\ Predicted >= 0
          BY DEF Settings, TypeOK, Predicted
        <5>2. (R * Predicted) \div (Predicted + R) \in Int /\ (R * Predicted) \div (Predicted + R) >= 0
          BY ONLY <5>1, Part
        <5> QED
          BY <2>2, <4>1, <5>2 DEF Further
      <4>2. CASE Method # "kalman"
        BY <2>2, <4>2 DEF Further, TypeOK
      <4> QED
        BY <4>1, <4>2
    <3>2. initialized /\ low' = (IF n < low THEN n ELSE low) /\ high' = (IF n > high THEN n ELSE high)
      BY <2>2 DEF Further
    <3>3. /\ estimate' \in Int
          /\ n >= estimate => estimate <= estimate' /\ estimate' <= n
          /\ n <= estimate => n <= estimate' /\ estimate' <= estimate
      BY <2>2, Towards
    <3> QED
      BY <3>1, <3>2, <3>3 DEF TypeOK, NoOvershoot, Remembered
  <2> QED
    BY <2>1, <2>2 DEF Process, Filtered
<1>2. compared \in Int /\ low' <= compared /\ compared <= high'
  BY <1>1
<1>3. /\ initialized' = TRUE /\ known' = TRUE /\ previous' = compared
      /\ changed' = (known /\ Abs(compared - previous) > Threshold)
  BY DEF Process, Filtered
<1>4. known /\ Abs(compared - previous) > Threshold => high' - low' > Threshold
  <2> DEFINE delta == Abs(compared - previous)
  <2> HIDE DEF compared
  <2>1. known => /\ previous \in Int /\ low' \in Int /\ high' \in Int
                 /\ low' <= previous /\ previous <= high' /\ Threshold \in Int
    BY <1>1 DEF Settings, TypeOK
  <2>2. known => delta \in Int /\ delta <= high' - low'
    BY ONLY <1>2, <2>1, Spread
  <2> HIDE DEF delta
  <2>3. known /\ delta > Threshold => high' - low' > Threshold
    BY ONLY <2>1, <2>2
  <2> QED
    BY ONLY <2>3 DEF delta
<1>5. TypeOK'
  <2>1. changed' \in BOOLEAN /\ initialized' \in BOOLEAN /\ known' \in BOOLEAN
    BY <1>3, Zenon
  <2> QED
    BY <1>1, <1>2, <1>3, <2>1 DEF TypeOK
<1> QED
  BY <1>1, <1>2, <1>3, <1>4, <1>5 DEF NoOvershoot, Remembered, NoFalseAlarm

LEMMA FInvInductive ==
    ASSUME Settings
    PROVE  Spec => []FInv
<1>1. Init => FInv
  <2> SUFFICES ASSUME Init
               PROVE  FInv
    OBVIOUS
  <2>1. initialized \in BOOLEAN /\ known \in BOOLEAN /\ changed \in BOOLEAN
    BY Zenon DEF Init
  <2>2. ~initialized /\ ~known /\ ~changed
    BY Zenon DEF Init
  <2> QED
    BY <2>1, <2>2 DEF Settings, Init, FInv, TypeOK, NoOvershoot, Remembered, NoFalseAlarm
<1>2. FInv /\ [Next]_vars => FInv'
  <2> SUFFICES ASSUME FInv, [Next]_vars
               PROVE  FInv'
    OBVIOUS
  <2>1. ASSUME NEW n \in Readings, Process(n)
        PROVE  FInv'
    BY <2>1, ProcessKeeps DEF Settings
  <2>2. CASE ProcessError
    BY <2>2 DEF FInv, TypeOK, NoOvershoot, Remembered, NoFalseAlarm, ProcessError, filter
  <2>3. CASE Reset
    BY <2>3 DEF Settings, FInv, TypeOK, NoOvershoot, Remembered, NoFalseAlarm, Reset
  <2>4. CASE UNCHANGED vars
    BY <2>4 DEF FInv, TypeOK, NoOvershoot, Remembered, NoFalseAlarm, vars, filter
  <2> QED
    BY <2>1, <2>2, <2>3, <2>4 DEF Next
<1> QED
  BY <1>1, <1>2, PTL DEF Spec

\* Whatever the readings, an estimate lies between the smallest and the largest
\* of those the filter has seen since it was reset.
THEOREM Bounded ==
    ASSUME Settings
    PROVE  Spec => []NoOvershoot
<1>1. FInv => NoOvershoot
  BY DEF FInv
<1> QED
  BY <1>1, FInvInductive, PTL

\* A change is reported only if the readings since the reset have spread by more
\* than the threshold, in either scope: a filter invents no removal.
THEOREM AlarmsAreReal ==
    ASSUME Settings
    PROVE  Spec => []NoFalseAlarm
<1>1. FInv => NoFalseAlarm
  BY DEF FInv
<1> QED
  BY <1>1, FInvInductive, PTL

-----------------------------------------------------------------------------
\* The part that is taken of a small difference is small.
LEMMA SmallPart ==
    ASSUME NEW s \in Int, NEW d \in Int, 0 <= s, s <= d, 0 < d,
           NEW e \in Int, NEW D \in Nat, NEW t \in Nat, -D <= e, e <= D, s * D <= d * t
    PROVE  LET m == (s * e) \div d IN m \in Int /\ -t <= m /\ m <= t
<1> DEFINE m == (s * e) \div d
<1>1. s * e \in Int
  OBVIOUS
<1>2. m \in Int /\ d * m <= s * e /\ s * e < d * m + d
  BY <1>1, Division
<1>3. s * e <= s * D /\ s * (-D) <= s * e
  OBVIOUS
<1>4. s * (-D) = -(s * D) /\ d * (-t) = -(d * t) /\ d * (m + 1) = d * m + d /\ d * (t + 1) = d * t + d
  BY <1>2
<1>5. d * (-t) < d * (m + 1) /\ d * m < d * (t + 1)
  BY <1>1, <1>2, <1>3, <1>4
<1>6. -t < m + 1 /\ m < t + 1
  BY <1>2, <1>5, Cancel
<1> QED
  BY <1>2, <1>6

\* What moves towards n is no further from it than before.
LEMMA Nearer ==
    ASSUME NEW n \in Int, NEW e \in Int, NEW f \in Int, NEW D \in Int, -D <= n - e, n - e <= D,
           n >= e => e <= f /\ f <= n,
           n <= e => n <= f /\ f <= e
    PROVE  -D <= n - f /\ n - f <= D
  OBVIOUS

\* A filter on its way from x to n, nothing reported yet.
Underway(x, n) ==
    /\ TypeOK /\ initialized /\ known /\ previous = estimate /\ ~changed
    /\ -Abs(n - x) <= n - estimate /\ n - estimate <= Abs(n - x)

\* ... and it stays so while each step takes less than the threshold.
LEMMA StaysUnderway ==
    ASSUME Settings, NEW x \in Int, NEW n \in Int, Scope = "filtered",
           Threshold \in Nat, Underway(x, n), Process(n), p' \in Nat,
           Share * Abs(n - x) <= Whole * Threshold
    PROVE  Underway(x, n)'
<1> DEFINE D == Abs(n - x)
           e == n - estimate
           m == (Share * e) \div Whole
<1>1. D \in Nat /\ e \in Int /\ -D <= e /\ e <= D /\ estimate \in Int /\ Threshold \in Nat
  BY DEF Settings, Underway, TypeOK, Abs
<1>2. Share \in Int /\ Whole \in Int /\ 0 <= Share /\ Share <= Whole /\ 0 < Whole
  BY Shares DEF Underway, TypeOK
<1>3. Share * D <= Whole * Threshold
  OBVIOUS
<1>4. m \in Int /\ -Threshold <= m /\ m <= Threshold
  <2> HIDE DEF D, e
  <2> QED
    BY ONLY <1>1, <1>2, <1>3, SmallPart
<1>5. Further(n)
  BY DEF Underway, Process, Filtered, First
<1>6. /\ estimate' \in Int
      /\ n >= estimate => estimate <= estimate' /\ estimate' <= n
      /\ n <= estimate => n <= estimate' /\ estimate' <= estimate
  BY <1>5, Towards DEF Underway
<1>7. estimate' = estimate + m /\ previous = estimate
  BY <1>5 DEF Further, Underway
<1>8. estimate' - previous \in Int /\ ~(Abs(estimate' - previous) > Threshold)
  <2> HIDE DEF m
  <2> QED
    BY <1>1, <1>4, <1>7 DEF Abs
<1>9. /\ initialized' = TRUE /\ known' = TRUE /\ previous' = estimate'
      /\ changed' = (known /\ Abs(estimate' - previous) > Threshold)
  BY Zenon DEF Process, Filtered
<1>10. ~changed' /\ changed' \in BOOLEAN /\ initialized' \in BOOLEAN /\ known' \in BOOLEAN
  BY <1>8, <1>9, Zenon
<1>11. low' \in Int /\ high' \in Int
  BY <1>5 DEF Further, Underway, TypeOK
<1>12. TypeOK'
  BY <1>6, <1>9, <1>10, <1>11 DEF TypeOK
<1>13. -D <= n - estimate' /\ n - estimate' <= D
  <2>1. D \in Int
    BY <1>1
  <2> HIDE DEF D
  <2> QED
    BY <1>1, <1>6, <2>1, Nearer
<1> QED
  BY <1>9, <1>10, <1>12, <1>13 DEF Underway

LEMMA SettledIsUnderway ==
    ASSUME NEW x \in Int, NEW n \in Int, TypeOK, SettledOn(x)
    PROVE  Underway(x, n)
  BY DEF Underway, SettledOn, Abs

\* docs/API.md says that a threshold on filtered values may react late.  It may
\* never react: a load that changes by no more than the threshold over alpha, and
\* stays so, is not reported at any poll.
THEOREM SlowStep ==
    ASSUME Settings, NEW x \in Int, NEW n \in Int, Method = "exponential", Scope = "filtered",
           Threshold \in Nat, Alpha * Abs(n - x) <= One * Threshold
    PROVE  TypeOK /\ Step(x, n) => []~changed
<1>1. TypeOK /\ SettledOn(x) => Underway(x, n)
  BY SettledIsUnderway
<1>2. Underway(x, n) /\ [Process(n)]_vars => Underway(x, n)'
  <2> SUFFICES ASSUME Underway(x, n), [Process(n)]_vars
               PROVE  Underway(x, n)'
    OBVIOUS
  <2>1. CASE Process(n)
    <3>1. Share = Alpha /\ Whole = One
      BY DEF Share, Whole
    <3>2. p' \in Nat
      BY <2>1 DEF Underway, TypeOK, Process, Filtered, First, Further
    <3> QED
      BY <2>1, <3>1, <3>2, StaysUnderway
  <2>2. CASE UNCHANGED vars
    BY <2>2 DEF vars, filter, Underway, TypeOK
  <2> QED
    BY <2>1, <2>2
<1>3. Underway(x, n) => ~changed
  BY DEF Underway
<1> QED
  BY <1>1, <1>2, <1>3, PTL DEF Step

\* The same of the Kalman filter once its covariance has come down to P, with the
\* share of P in place of alpha: for a small q that is much less than one.
THEOREM SlowStepKalman ==
    ASSUME Settings, NEW x \in Int, NEW n \in Int, Method = "kalman", Scope = "filtered",
           Threshold \in Nat, NEW P \in Nat, R * (P + Q) <= P * (P + Q + R),
           (P + Q) * Abs(n - x) <= (P + Q + R) * Threshold
    PROVE  TypeOK /\ p <= P /\ Step(x, n) => []~changed
<1> DEFINE I == Underway(x, n) /\ p <= P
           D == Abs(n - x)
<1>0. Q \in Int /\ R \in Int /\ Q > 0 /\ R > 0 /\ D \in Nat /\ Threshold \in Nat
  BY DEF Settings, Abs
<1>1. TypeOK /\ p <= P /\ SettledOn(x) => I
  BY SettledIsUnderway
<1>2. I /\ [Process(n)]_vars => I'
  <2> SUFFICES ASSUME I, [Process(n)]_vars
               PROVE  I'
    OBVIOUS
  <2>1. CASE Process(n)
    <3> DEFINE d == p + Q + R
               m == (R * (p + Q)) \div d
    <3>1. p \in Nat /\ p <= P /\ Share = p + Q /\ Whole = d
      BY DEF Underway, TypeOK, Share, Whole, Predicted
    <3>2. Share * D <= Whole * Threshold
      <4>1. CASE D <= Threshold
        <5>1. (p + Q) * D <= (p + Q) * Threshold /\ (p + Q) * Threshold <= d * Threshold
          BY ONLY <1>0, <3>1, <4>1
        <5> QED
          BY <1>0, <3>1, <5>1
      <4>2. CASE D > Threshold
        <5>1. (p + Q) * (D - Threshold) <= (P + Q) * (D - Threshold)
          BY ONLY <1>0, <3>1, <4>2, P \in Nat
        <5>2. (P + Q) * D <= (P + Q + R) * Threshold
          OBVIOUS
        <5>3. (P + Q) * (D - Threshold) <= R * Threshold
          BY ONLY <1>0, <5>2, P \in Nat
        <5> HIDE DEF D
        <5>4. (p + Q) * D <= d * Threshold
          BY ONLY <1>0, <3>1, <5>1, <5>3, P \in Nat
        <5> QED
          BY <3>1, <5>4
      <4> QED
        BY <1>0, <4>1, <4>2
    <3>3. m \in Int /\ d * m <= R * (p + Q) /\ R * (p + Q) < d * m + d
      <4>1. R * (p + Q) \in Int /\ d \in Int /\ d > 0
        BY ONLY <1>0, <3>1
      <4> QED
        BY ONLY <4>1, Division
    <3>4. R * (p + Q) <= d * P
      <4>1. CASE P <= R
        <5>1. (R - P) * (p + Q) <= (R - P) * (P + Q)
          BY ONLY <1>0, <3>1, <4>1, P \in Nat
        <5>2. R * (P + Q) <= P * (P + Q + R)
          OBVIOUS
        <5>3. (R - P) * (P + Q) <= P * R
          BY ONLY <1>0, <5>2, P \in Nat
        <5> QED
          BY ONLY <1>0, <3>1, <5>1, <5>3, P \in Nat
      <4>2. CASE P > R
        <5>1. R * (p + Q) <= P * (p + Q) /\ P * (p + Q) <= P * d
          BY ONLY <1>0, <3>1, <4>2, P \in Nat
        <5> QED
          BY ONLY <1>0, <3>1, <5>1, P \in Nat
      <4> QED
        BY <1>0, <4>1, <4>2
    <3>5. m <= P /\ 0 <= m
      <4>1. d \in Int /\ d > 0 /\ R * (p + Q) \in Int /\ 0 <= R * (p + Q)
        BY ONLY <1>0, <3>1
      <4>2. d * m < d * (P + 1) /\ d * 0 < d * (m + 1)
        BY ONLY <4>1, <3>3, <3>4, P \in Nat
      <4> QED
        BY ONLY <4>1, <3>3, <4>2, Cancel, P \in Nat
    <3>6. p' = m
      <4>1. Further(n)
        BY <2>1 DEF Underway, Process, Filtered, First
      <4> QED
        BY <4>1 DEF Further, Predicted
    <3> HIDE DEF m, d
    <3>7. p' \in Nat /\ p' <= P
      BY <3>3, <3>5, <3>6
    <3> QED
      BY <2>1, <3>2, <3>7, StaysUnderway
  <2>2. CASE UNCHANGED vars
    BY <2>2 DEF vars, filter, Underway, TypeOK
  <2> QED
    BY <2>1, <2>2
<1>3. I => ~changed
  BY DEF Underway
<1> QED
  BY <1>1, <1>2, <1>3, PTL DEF Step
=============================================================================
