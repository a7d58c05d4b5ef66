-------------------------------- MODULE Frames --------------------------------
(***************************************************************************)
(* The bytes of the protocol: protocol.py, which builds requests and       *)
(* parses responses, and the part of serial_io.py that finds a response in *)
(* what comes in over the line and decides whether to take it or to try    *)
(* again.  SerialIO and LoadcellCommands take from here what a frame that  *)
(* is whole, corrupt or cut leads to.                                      *)
(*                                                                         *)
(* A byte is the set of its bits that are 1.  Of the data only their       *)
(* length is told apart, and whether they are ASCII.                       *)
(***************************************************************************)
EXTENDS Integers, Sequences, FiniteSets

Bit  == 0..7
Byte == SUBSET Bit

STX == {1}
ETX == {0, 1}

Ascii(s) == \A i \in DOMAIN s : 7 \notin s[i]

\* The n-th letter of the alphabet, in upper case.
Letter(n) == {6} \cup {b \in 0..4 : (n \div 2^b) % 2 = 1}

\* COMMAND and SUBCOMMAND: those that have data, and all that there can be.
Code(a, b, c, d) == <<Letter(a), Letter(b), Letter(c), Letter(d)>>

MCDC == Code(13, 3, 4, 3)
MCWP == Code(13, 3, 23, 16)
RQMI == Code(18, 17, 13, 9)
RQIW == Code(18, 17, 9, 23)
RQID == Code(18, 17, 9, 4)
RQER == Code(18, 17, 5, 18)

Codes == {codes \in Seq(Byte) : Len(codes) = 4 /\ Ascii(codes) /\ \A i \in 1..4 : codes[i] # ETX}

\* The Switch of ResponseProtocol; the other commands, and what it does not
\* know, have no data.
DataLength(codes) ==
    CASE codes = MCDC -> 1
      [] codes = MCWP -> 11
      [] codes = RQMI -> 11 + 2
      [] codes = RQIW -> 10 * 6
      [] codes = RQID -> 6 + 6
      [] codes = RQER -> 4 * 4
      [] OTHER -> 0

-----------------------------------------------------------------------------
\* calculate_checksum and _xor_checksum, over s[m], ..., s[n].
Xor(s, m, n) == {b \in Bit : Cardinality({i \in m..n : b \in s[i]}) % 2 = 1}

\* A frame, up to its checksum and with it: the board sends a response like
\* this, and build_request() makes a request of the same layout.
Body(codes, data)  == (<<STX>> \o codes) \o Append(data, ETX)
Frame(codes, data) == Append(Body(codes, data), Xor(Body(codes, data), 2, 6 + Len(data)))

\* The data that a response can carry: as long as its command wants, in ASCII
\* but for the one byte of MCDC, which is an Enum.
Proper(codes, data) ==
    /\ data \in Seq(Byte) /\ Len(data) = DataLength(codes)
    /\ codes # MCDC => Ascii(data)

-----------------------------------------------------------------------------
\* readuntil(ETX) after the first byte of the line ends with its k-th.
EndsAt(line, k) == /\ k \in 2..Len(line) /\ line[k] = ETX
                   /\ \A i \in 2..(k - 1) : line[i] # ETX

\* _fetch_with_timeout() returns k bytes of the line: one, up to ETX, and one.
Received(line, k) == k \in 1..Len(line) /\ EndsAt(line, k - 1)

\* _response_checksum_valid, of the first k bytes.
ChecksumValid(line, k) ==
    /\ k >= 7 /\ line[1] = STX /\ line[k - 1] = ETX
    /\ Xor(line, 2, k - 1) = line[k]

\* _response_codes
CodesAre(line, k, codes) == k >= 5 /\ line[1] = STX /\ SubSeq(line, 2, 5) = codes

\* What fetch() returns; everything else it discards, and sends the request again.
Fetched(line, k, codes) == Received(line, k) /\ ChecksumValid(line, k) /\ CodesAre(line, k, codes)

\* parse_response() of the first k bytes.  It goes by the length of the data and
\* looks at nothing that follows the checksum.
Parsed(line, k, codes, data) ==
    LET n == 6 + DataLength(codes)
    IN /\ k >= n + 1 /\ line[1] = STX /\ SubSeq(line, 2, 5) = codes
       /\ line[n] = ETX /\ Xor(line, 2, n) = line[n + 1]
       /\ data = SubSeq(line, 6, n - 1) /\ Proper(codes, data)

\* A request is answered with data.  One whose reply is fetched and not parsed
\* fails, and nobody sends it again.
Delivered(line, codes, data) ==
    \E k \in 1..Len(line) : Fetched(line, k, codes) /\ Parsed(line, k, codes, data)

Failed(line, codes) ==
    \E k \in 1..Len(line) : /\ Fetched(line, k, codes)
                            /\ \A data \in Seq(Byte) : ~Parsed(line, k, codes, data)

StartsWith(line, s) == Len(s) <= Len(line) /\ \A i \in 1..Len(s) : line[i] = s[i]
=============================================================================
