---------------------------- MODULE ConsoleProofs ---------------------------
(***************************************************************************)
(* Proofs about the console, for any sizes of the offsets, the ring buffer *)
(* and the reads, any start of the stream and any keys.                    *)
(*                                                                         *)
(* ConsoleOutput: the offset, a number modulo 2^32, always stands for one  *)
(* byte of the endless stream, before which nothing that the RoT still has *)
(* is left to print; the snapshot's test on two such offsets decides which *)
(* of the bytes comes first.                                               *)
(*                                                                         *)
(* ConsoleInput: the loop of unescape() over two reads is the loop over    *)
(* both, by induction over the keys, so that cutting the keys makes no     *)
(* difference; what it keeps is a part of the keys in their order.         *)
(***************************************************************************)
EXTENDS MCConsole, Sequences, TLAPS, WellFoundedInduction, SequenceTheorems

-----------------------------------------------------------------------------
(* Offsets                                                                 *)

\* Quotient and remainder are unique.
LEMMA Remainder ==
    ASSUME NEW s \in Nat, s > 0, NEW q \in Int, NEW r \in 0 .. s - 1
    PROVE  (s * q + r) % s = r
  OBVIOUS

LEMMA Quotient ==
    ASSUME NEW s \in Nat, s > 0, NEW x \in Int
    PROVE  x % s \in 0 .. s - 1 /\ \E q \in Int : x = s * q + (x % s)
<1>1. x = s * (x \div s) + (x % s) /\ x \div s \in Int /\ x % s \in 0 .. s - 1
  OBVIOUS
<1>2. QED
  BY <1>1

\* A multiple of s that is smaller than s in size is zero.
LEMMA SmallMultiple ==
    ASSUME NEW s \in Nat, NEW k \in Int, -s < s * k, s * k < s
    PROVE  k = 0
<1>1. ASSUME k >= 1 PROVE FALSE
  <2>1. s * k >= s
    BY <1>1
  <2>2. QED
    BY <2>1
<1>2. ASSUME k <= -1 PROVE FALSE
  <2>1. s * k <= -s
    BY <1>2
  <2>2. QED
    BY <2>1
<1>3. QED
  BY <1>1, <1>2

\* Two numbers with the same offset that are less than Space apart are equal.
LEMMA SameOffset ==
    ASSUME NEW s \in Nat, s > 0, NEW x \in Int, NEW y \in Int,
           x % s = y % s, -s < x - y, x - y < s
    PROVE  x = y
<1>1. PICK q \in Int : x = s * q + (x % s)
  BY Quotient
<1>2. PICK t \in Int : y = s * t + (y % s)
  BY Quotient
<1>3. x % s \in Int /\ y % s \in Int /\ s * q \in Int /\ s * t \in Int
  BY Quotient
<1>4. x - y = s * q - s * t
  BY <1>1, <1>2, <1>3
<1>5. s * q - s * t = s * (q - t)
  OBVIOUS
<1>6. q - t = 0
  BY <1>4, <1>5, SmallMultiple
<1>7. s * (q - t) = 0
  BY <1>6
<1>8. QED
  BY <1>4, <1>5, <1>7

\* The offset of an earlier byte, less that of a later one, wraps around.
LEMMA OffsetsBehind ==
    ASSUME NEW s \in Nat, s > 0, NEW x \in Int, NEW y \in Int,
           x < y, y - x < s
    PROVE  ((x % s) - (y % s)) % s = s - (y - x)
<1>1. PICK q \in Int : x = s * q + (x % s)
  BY Quotient
<1>2. PICK t \in Int : y = s * t + (y % s)
  BY Quotient
<1> DEFINE d == (x % s) - (y % s)
           k == t - q - 1
           r == s - (y - x)
<1>3. x % s \in Int /\ y % s \in Int /\ s * q \in Int /\ s * t \in Int
  BY Quotient
<1>4. s * k = s * t - s * q - s
  OBVIOUS
<1>5. k \in Int /\ r \in 0 .. s - 1
  OBVIOUS
<1>6. d = s * k + r
  <2> HIDE DEF k
  <2> QED
    BY <1>1, <1>2, <1>3, <1>4
<1>7. (s * k + r) % s = r
  <2> HIDE DEF k, r
  <2> QED
    BY <1>5, Remainder
<1>8. QED
  BY <1>6, <1>7

\* The constants are numbers, and the ring buffer and what is written while the
\* console is open are small in the space of the offsets.
LEMMA ConsoleSizes ==
    /\ Space \in Nat /\ Space > 0 /\ Half \in Nat /\ Half > 0
    /\ BufferSize \in Nat /\ MaxRead \in Nat /\ MaxRead > 0 /\ MaxMore \in Nat
    /\ Space = 2 * Half /\ BufferSize + MaxMore < Half
    /\ Starts \subseteq Nat
  BY ConsoleAssumption

-----------------------------------------------------------------------------
(* Output: the invariant                                                   *)

\* The offset stands for byte p of the stream: what lies before it and is still
\* in the buffer has been printed.
ReaderAt(p) ==
    /\ offset = p % Space
    /\ begin - Half <= p /\ p <= written
    /\ mode = "run" => begin <= p
    /\ stdout_ok => \A m \in printed : m < p
    /\ \A n \in Earliest .. written - 1 : n >= From /\ n < p => n \in printed

OutputTypes ==
    /\ written \in Nat /\ initial \in Nat
    /\ initial <= written /\ written <= initial + MaxMore
    /\ pc \in {"start", "loop", "reconnect", "end"}
    /\ mode \in Modes
    /\ printed \subseteq Nat /\ \A m \in printed : m < written
    /\ stdout_ok \in BOOLEAN

Reader ==
    pc \in {"loop", "reconnect"} =>
        /\ begin \in Nat /\ initial <= begin /\ begin <= written
        /\ current_offset = begin % Space
        /\ \E p \in Int : ReaderAt(p)

OutputInv ==
    /\ OutputTypes
    /\ pc = "start" => printed = {}
    /\ Reader
    /\ NoAvailableByteSkipped

\* Where the RoT finds data for byte p's offset: there, or if it is overwritten
\* at the first byte it has.
LEMMA FoundAtIs ==
    ASSUME OutputTypes, Reader, pc = "loop", NEW p \in Int, ReaderAt(p)
    PROVE  /\ FoundAt = IF p >= Earliest THEN p ELSE Earliest
           /\ Earliest \in Nat /\ Earliest <= written
           /\ written - BufferSize <= Earliest
<1> DEFINE here == {n \in Earliest .. written : n % Space = offset}
<1>1. /\ Earliest \in Nat /\ Earliest <= written
      /\ written - BufferSize <= Earliest
  BY ConsoleSizes DEF OutputTypes, Earliest
<1>2. ASSUME NEW n \in Earliest .. written, n % Space = offset PROVE n = p
  <2>1. n % Space = p % Space
    BY <1>2 DEF ReaderAt
  <2>2. n \in Int /\ -Space < n - p /\ n - p < Space
    BY <1>1, ConsoleSizes DEF OutputTypes, Reader, ReaderAt
  <2>3. QED
    BY <2>1, <2>2, SameOffset, ConsoleSizes
<1>3. CASE p >= Earliest
  <2>1. p \in Earliest .. written /\ p % Space = offset
    BY <1>1, <1>3 DEF OutputTypes, ReaderAt
  <2>2. here = {p}
    BY <1>2, <2>1
  <2>3. Max({p}) = p
    BY DEF Max
  <2>4. QED
    BY <1>1, <1>3, <2>2, <2>3 DEF FoundAt
<1>4. CASE ~(p >= Earliest)
  <2>1. here = {}
    BY <1>1, <1>2, <1>4
  <2>2. QED
    BY <1>1, <1>4, <2>1 DEF FoundAt
<1>5. QED
  BY <1>3, <1>4

LEMMA ReadLenIs ==
    ASSUME OutputTypes, FoundAt \in Nat, FoundAt <= written
    PROVE  /\ ReadLen \in Nat /\ ReadLen <= written - FoundAt
           /\ ReadLen \in {MaxRead, written - FoundAt}
<1> DEFINE d == written - FoundAt
<1>1. d \in Nat
  BY DEF OutputTypes
<1>2. Min({MaxRead, d}) \in {MaxRead, d} /\ Min({MaxRead, d}) <= d
  <2> HIDE DEF d
  <2>1. \E x \in {MaxRead, d} : \A y \in {MaxRead, d} : x <= y
    BY <1>1, ConsoleSizes
  <2>2. QED
    BY <2>1 DEF Min
<1>3. QED
  BY <1>1, <1>2, ConsoleSizes DEF ReadLen

\* Reading and printing at least k bytes from where the RoT found data leaves
\* no gap.
LEMMA PieceIsNext ==
    ASSUME OutputTypes, Reader, pc = "loop", NEW p \in Int, ReaderAt(p),
           NEW k \in Nat, FoundAt + k <= written,
           NEW n \in Earliest .. written - 1, n >= From, n < FoundAt + k
    PROVE  n \in printed \union FoundAt .. FoundAt + k - 1
<1>1. /\ FoundAt = IF p >= Earliest THEN p ELSE Earliest
      /\ Earliest \in Nat
  BY FoundAtIs
<1>2. CASE n >= FoundAt
  BY <1>1, <1>2
<1>3. CASE n < FoundAt
  <2>1. n < p
    BY <1>1, <1>3
  <2>2. QED
    BY <2>1 DEF ReaderAt
<1>4. QED
  BY <1>1, <1>2, <1>3

-----------------------------------------------------------------------------
(* Output: its steps                                                       *)

LEMMA OutputInit == Init => OutputInv
  BY ConsoleSizes
     DEF Init, OutputInv, OutputTypes, Reader, NoAvailableByteSkipped, Modes

\* The RoT writes a byte, perhaps over one that was not read.
LEMMA RotWritesStep == ASSUME OutputInv, RotWrites PROVE OutputInv'
<1>1. /\ written' = written + 1 /\ written < initial + MaxMore
      /\ UNCHANGED <<initial, pc, mode, begin, current_offset, offset, printed,
                     stdout_ok>>
  BY DEF RotWrites
<1>2. OutputTypes'
  BY <1>1, ConsoleSizes DEF OutputInv, OutputTypes
<1>3. Earliest \in Nat /\ Earliest' \in Nat /\ Earliest <= Earliest'
  BY <1>1, ConsoleSizes DEF OutputInv, OutputTypes, Earliest
<1>4. From' = From /\ written \in Nat
  BY <1>1 DEF From, OutputInv, OutputTypes
<1>5. ASSUME NEW n \in Earliest' .. written' - 1, n # written
      PROVE  n \in Earliest .. written - 1
  BY <1>1, <1>3, <1>4, <1>5
<1>6. NoAvailableByteSkipped'
  <2>1. \A m \in printed : m < written /\ m \in Nat
    BY DEF OutputInv, OutputTypes
  <2>2. \A m \in printed : ~(written < m)
    BY <1>4, <2>1
  <2>3. QED
    BY <1>1, <1>4, <1>5, <2>2 DEF OutputInv, NoAvailableByteSkipped
<1>7. ASSUME NEW p \in Int, ReaderAt(p), pc \in {"loop", "reconnect"}
      PROVE  ReaderAt(p)'
  <2>1. p <= written
    BY <1>7 DEF ReaderAt
  <2>2. ~(written < p) /\ p <= written'
    BY <1>1, <1>4, <2>1
  <2>3. QED
    BY <1>1, <1>4, <1>5, <1>7, <2>2 DEF ReaderAt
<1>8. Reader'
  BY <1>1, <1>4, <1>7 DEF OutputInv, Reader
<1>9. QED
  BY <1>1, <1>2, <1>6, <1>8 DEF OutputInv

\* Asking for the channel's status sets the reader behind everything, or at
\* the end of the stream.
LEMMA StatusStep == ASSUME OutputInv, GetChannelStatus PROVE OutputInv'
<1>0. PICK p \in Int : p = IF mode = "run" THEN written ELSE written - Half
  BY ConsoleSizes DEF OutputInv, OutputTypes
<1>1. /\ pc = "start" /\ pc' = "loop" /\ begin' = written
      /\ current_offset' = written % Space /\ offset' = p % Space
      /\ UNCHANGED <<written, initial, mode, printed, stdout_ok>>
  BY <1>0 DEF GetChannelStatus
<1>2. printed = {} /\ written \in Nat
  BY <1>1 DEF OutputInv, OutputTypes
<1>3. Earliest \in Nat /\ Earliest' = Earliest /\ written - BufferSize <= Earliest
  BY <1>1, ConsoleSizes DEF OutputInv, OutputTypes, Earliest
<1>4. ASSUME NEW n \in Earliest .. written - 1, n >= From', n < p PROVE FALSE
  BY <1>0, <1>1, <1>2, <1>3, <1>4, ConsoleSizes DEF From
<1>5. ReaderAt(p)'
  <2>1. written - Half <= p /\ p <= written /\ (mode = "run" => written <= p)
    BY <1>0, <1>2, ConsoleSizes
  <2>2. QED
    BY <1>1, <1>2, <1>3, <1>4, <2>1 DEF ReaderAt
<1>6. Reader'
  <2>1. \E q \in Int : ReaderAt(q)'
    BY <1>5
  <2>2. QED
    BY <1>1, <1>2, <2>1 DEF Reader, OutputInv, OutputTypes
<1>7. QED
  BY <1>1, <1>2, <1>6
     DEF OutputInv, OutputTypes, NoAvailableByteSkipped

\* A piece is printed, all of it or the first k bytes; the reader stays, or
\* moves behind the piece when all was printed.
LEMMA PieceStep ==
    ASSUME OutputInv, pc = "loop", NEW k \in Nat, k <= ReadLen,
           printed' = printed \union FoundAt .. FoundAt + k - 1,
           pc' \in {"loop", "reconnect", "end"},
           stdout_ok' \in BOOLEAN, stdout_ok' => stdout_ok,
           UNCHANGED <<written, initial, mode, begin, current_offset>>,
           \/ offset' = offset /\ ~stdout_ok'
           \/ offset' = (FoundAt + k) % Space
    PROVE  OutputInv'
<1>1. OutputTypes /\ Reader
  BY DEF OutputInv
<1>2. PICK p \in Int : ReaderAt(p)
  BY <1>1 DEF Reader
<1>3. /\ FoundAt = IF p >= Earliest THEN p ELSE Earliest
      /\ Earliest \in Nat /\ Earliest <= written /\ written \in Nat
  BY <1>1, <1>2, FoundAtIs DEF OutputTypes
<1>4. FoundAt \in Nat /\ FoundAt <= written /\ FoundAt >= p
  BY <1>2, <1>3 DEF ReaderAt
<1>5. ReadLen \in Nat /\ FoundAt + k <= written
  BY <1>1, <1>3, <1>4, ReadLenIs
<1>6. Earliest' = Earliest /\ From' = From
  BY DEF Earliest, From
<1> HIDE DEF Earliest
<1>7. ASSUME NEW n \in Earliest .. written - 1, n >= From, n < FoundAt + k
      PROVE  n \in printed'
  BY <1>1, <1>2, <1>5, <1>7, PieceIsNext
<1>8. NoAvailableByteSkipped'
  <2> SUFFICES ASSUME NEW n \in Earliest .. written - 1, n >= From,
                      NEW m \in printed', n < m
               PROVE  n \in printed'
    BY <1>6 DEF NoAvailableByteSkipped
  <2>1. CASE m \in printed
    BY <2>1 DEF OutputInv, NoAvailableByteSkipped
  <2>2. CASE m \in FoundAt .. FoundAt + k - 1
    <3>1. n < FoundAt + k
      BY <1>3, <1>4, <2>2
    <3>2. QED
      BY <1>7, <3>1
  <2>3. QED
    BY <2>1, <2>2
<1>9. OutputTypes'
  <2>1. \A m \in FoundAt .. FoundAt + k - 1 : m \in Nat /\ m < written
    BY <1>3, <1>4, <1>5
  <2>2. printed' \subseteq Nat /\ \A m \in printed' : m < written
    BY <1>1, <2>1 DEF OutputTypes
  <2>3. QED
    BY <1>1, <2>2 DEF OutputTypes
<1>10. \E q \in Int : ReaderAt(q)'
  <2>1. CASE offset' = offset /\ ~stdout_ok'
    <3>1. ReaderAt(p)'
      BY <1>2, <1>6, <2>1 DEF ReaderAt
    <3>2. QED
      BY <3>1
  <2>2. CASE offset' = (FoundAt + k) % Space
    <3>0. begin \in Nat
      BY <1>1 DEF Reader
    <3>9. PICK q \in Int : q = FoundAt + k
      BY <1>4
    <3>1. begin - Half <= q /\ q <= written /\ (mode = "run" => begin <= q)
      BY <1>2, <1>4, <1>5, <3>0, <3>9, ConsoleSizes DEF ReaderAt
    <3>2. ASSUME stdout_ok', NEW m \in printed' PROVE m < q
      <4>1. CASE m \in printed
        <5>1. m < p /\ m \in Nat
          BY <1>1, <1>2, <3>2, <4>1 DEF ReaderAt, OutputTypes
        <5>2. QED
          BY <1>4, <3>9, <5>1
      <4>2. CASE m \in FoundAt .. FoundAt + k - 1
        BY <1>4, <3>9, <4>2
      <4>3. QED
        BY <4>1, <4>2
    <3>3. ReaderAt(q)'
      BY <1>6, <1>7, <2>2, <3>1, <3>2, <3>9 DEF ReaderAt
    <3>4. QED
      BY <3>3
  <2>3. QED
    BY <2>1, <2>2
<1>11. Reader'
  BY <1>1, <1>10 DEF Reader
<1>12. QED
  BY <1>8, <1>9, <1>11 DEF OutputInv

\* Every step of the channel and of its reader keeps the invariant.
LEMMA OutputStep == OutputInv /\ [Next]_vars => OutputInv'
<1> SUFFICES ASSUME OutputInv, [Next]_vars PROVE OutputInv'
  OBVIOUS
<1>1. ASSUME pc = "loop" PROVE FoundAt \in Nat /\ FoundAt <= written
  <2>1. PICK p \in Int : ReaderAt(p)
    BY <1>1 DEF OutputInv, Reader
  <2>2. /\ FoundAt = IF p >= Earliest THEN p ELSE Earliest
        /\ Earliest \in Nat /\ Earliest <= written
    BY <1>1, <2>1, FoundAtIs DEF OutputInv
  <2>3. QED
    BY <2>1, <2>2 DEF ReaderAt
<1>2. ASSUME pc = "loop" PROVE ReadLen \in Nat
  BY <1>1, <1>2, ReadLenIs DEF OutputInv
<1>3. CASE ReadConsole
  <2>1. /\ pc = "loop" /\ pc' \in {"loop", "reconnect", "end"}
        /\ stdout_ok' = stdout_ok /\ stdout_ok' \in BOOLEAN
        /\ printed' = printed \union FoundAt .. FoundAt + ReadLen - 1
        /\ offset' = (FoundAt + ReadLen) % Space
        /\ UNCHANGED <<written, initial, mode, begin, current_offset>>
    BY <1>3 DEF ReadConsole, OutputInv, OutputTypes
  <2>2. ReadLen \in Nat /\ ReadLen <= ReadLen
    BY <1>2, <2>1
  <2>3. QED
    BY <2>1, <2>2, PieceStep
<1>4. CASE WriteStdoutFails
  <2>1. PICK k \in 0 .. ReadLen - 1 :
           printed' = printed \union FoundAt .. FoundAt + k - 1
    BY <1>4 DEF WriteStdoutFails
  <2>2. /\ pc = "loop" /\ pc' \in {"loop", "reconnect", "end"}
        /\ stdout_ok' = FALSE /\ offset' = offset
        /\ UNCHANGED <<written, initial, mode, begin, current_offset>>
    BY <1>4 DEF WriteStdoutFails, Failed
  <2>3. k \in Nat /\ k <= ReadLen
    BY <1>2, <2>1, <2>2
  <2>4. QED
    BY <2>1, <2>2, <2>3, PieceStep
<1>5. CASE \/ GetChannelStatusFails \/ ReadConsoleFails \/ Reconnect \/ Quit
           \/ UNCHANGED vars
  <2>1. /\ pc' \in {"start", "loop", "reconnect", "end"}
        /\ pc' = "start" => pc = "start"
        /\ pc' \in {"loop", "reconnect"} => pc \in {"loop", "reconnect"}
        /\ UNCHANGED <<written, initial, mode, begin, current_offset, offset,
                       printed, stdout_ok>>
    BY <1>5 DEF GetChannelStatusFails, ReadConsoleFails, Reconnect, Quit, Failed,
                vars, OutputInv, OutputTypes
  <2>2. Earliest' = Earliest /\ From' = From
    BY <2>1 DEF Earliest, From
  <2>3. \A p \in Int : ReaderAt(p) => ReaderAt(p)'
    BY <2>1, <2>2 DEF ReaderAt
  <2>4. QED
    BY <2>1, <2>2, <2>3
       DEF OutputInv, OutputTypes, Reader, NoAvailableByteSkipped
<1>6. QED
  BY <1>3, <1>4, <1>5, RotWritesStep, StatusStep DEF Next, Client

\* The invariant of reading the console's stream holds always.
THEOREM OutputInvariant == MCSpec => []OutputInv
<1>1. MCInit => OutputInv
  BY OutputInit DEF MCInit
<1>2. OutputInv /\ [Steps]_<<vars, inputVars>> => OutputInv'
  <2>1. [Steps]_<<vars, inputVars>> => [Next]_vars
    BY DEF Steps
  <2>2. QED
    BY <2>1, OutputStep
<1>3. QED
  BY <1>1, <1>2, PTL DEF MCSpec

\* A piece lies behind everything printed before it.
LEMMA PieceIsLater ==
    ASSUME OutputInv, ReadConsole, stdout_ok,
           NEW n \in FoundAt .. FoundAt + ReadLen - 1, NEW m \in printed
    PROVE  n > m
<1>1. pc = "loop" /\ OutputTypes /\ Reader
  BY DEF OutputInv, ReadConsole
<1>2. PICK p \in Int : ReaderAt(p)
  BY <1>1 DEF Reader
<1>3. FoundAt = (IF p >= Earliest THEN p ELSE Earliest) /\ Earliest \in Nat
  BY <1>1, <1>2, FoundAtIs
<1>4. m < p /\ m \in Nat
  BY <1>1, <1>2 DEF ReaderAt, OutputTypes
<1>5. FoundAt \in Int /\ FoundAt >= p
  BY <1>3
<1>6. n \in Int /\ n >= FoundAt
  BY <1>5
<1>7. QED
  BY <1>4, <1>5, <1>6

\* The snapshot's test, wrapped around or not, does not end it before the byte
\* at which it began.
LEMMA SnapshotReaches ==
    ASSUME OutputInv, ReadConsole, mode = "snapshot", pc' = "end",
           NEW n \in Earliest .. begin - 1
    PROVE  n \in printed'
<1>1. /\ pc = "loop" /\ OutputTypes /\ Reader /\ ~ReadsOn(offset')
      /\ offset' = (FoundAt + ReadLen) % Space
      /\ printed' = printed \union FoundAt .. FoundAt + ReadLen - 1
  BY DEF OutputInv, ReadConsole
<1>2. PICK p \in Int : ReaderAt(p)
  BY <1>1 DEF Reader
<1>3. /\ FoundAt = IF p >= Earliest THEN p ELSE Earliest
      /\ Earliest \in Nat /\ Earliest <= written
      /\ written - BufferSize <= Earliest /\ written \in Nat
  BY <1>1, <1>2, FoundAtIs DEF OutputTypes
<1>4. FoundAt \in Nat /\ FoundAt <= written /\ FoundAt >= Earliest
  BY <1>2, <1>3 DEF ReaderAt
<1>5. ReadLen \in Nat /\ FoundAt + ReadLen <= written
  BY <1>1, <1>3, <1>4, ReadLenIs
<1>6. begin \in Nat /\ begin <= written /\ current_offset = begin % Space
  BY <1>1 DEF Reader
<1>7. PICK q \in Int : q = FoundAt + ReadLen
  BY <1>4, <1>5
<1>8. q >= begin
  <2> SUFFICES ASSUME q < begin PROVE FALSE
    BY <1>6
  <2>1. begin - q < Half
    BY <1>3, <1>4, <1>5, <1>6, <1>7, ConsoleSizes
  <2>2. begin - q < Space
    BY <1>6, <2>1, ConsoleSizes
  <2>3. ((q % Space) - (begin % Space)) % Space = Space - (begin - q)
    BY <1>6, <2>2, ConsoleSizes, OffsetsBehind
  <2>4. Space - (begin - q) > Half
    BY <1>6, <2>1, ConsoleSizes
  <2>5. QED
    BY <1>1, <1>6, <1>7, <2>3, <2>4 DEF ReadsOn
<1>9. n \in Earliest .. written - 1 /\ n >= From /\ n < FoundAt + ReadLen
  BY <1>3, <1>6, <1>7, <1>8 DEF From
<1>10. QED
  BY <1>1, <1>2, <1>5, <1>9, PieceIsNext

\* htool_console_run(), htool_console_snapshot() and libhoth_print_erot_console()
\* show the stream in its order, nothing twice while stdout takes it, and skip
\* only what the RoT has overwritten, through failed reads, reconnects and the
\* wrap-around of the offsets; a snapshot shows all that was there.
THEOREM StreamStaysPrinted == MCSpec => StreamIsPrinted
<1>1. OutputInv => NoAvailableByteSkipped
  BY DEF OutputInv
<1>2. OutputInv /\ [Steps]_<<vars, inputVars>> =>
         [ReadConsole /\ stdout_ok =>
            \A n \in FoundAt .. FoundAt + ReadLen - 1, m \in printed : n > m]_vars
  BY PieceIsLater
<1>3. OutputInv /\ [Steps]_<<vars, inputVars>> =>
         [mode = "snapshot" /\ ReadConsole /\ pc' = "end" =>
            \A n \in Earliest .. begin - 1 : n \in printed']_vars
  BY SnapshotReaches
<1>4. QED
  BY <1>1, <1>2, <1>3, OutputInvariant, PTL
     DEF MCSpec, StreamIsPrinted, PrintedInOrder, SnapshotReachesBegin

-----------------------------------------------------------------------------
(* Input: what the loop of unescape() computes                             *)

\* A set of numbers that is not empty has a least one.
LEMMA LeastNumber ==
    ASSUME NEW T, T \subseteq Nat, T # {}
    PROVE  \E x \in T : \A y \in T : x <= y
<1> DEFINE R == OpToRel(<, Nat)
<1>1. IsWellFoundedOn(R, Nat)
  BY NatLessThanWellFounded
<1>2. PICK x \in T : \A y \in T : ~(<<y, x>> \in R)
  <2> HIDE DEF R
  <2> QED
    BY <1>1, WFMin
<1>3. ASSUME NEW y \in T PROVE x <= y
  <2>1. x \in Nat /\ y \in Nat
    OBVIOUS
  <2>2. ~(y < x)
    BY <1>2, <2>1 DEF OpToRel
  <2>3. QED
    BY <2>1, <2>2
<1>4. QED
  BY <1>3

\* Induction over numbers, for a set of them: one that holds 0 and with n also
\* n + 1, up to a bound, holds all of them.
LEMMA Counting ==
    ASSUME NEW T, NEW N \in Nat, 0 \in T,
           \A n \in 0 .. N - 1 : n \in T => n + 1 \in T
    PROVE  \A n \in 0 .. N : n \in T
<1> SUFFICES ASSUME {n \in 0 .. N : n \notin T} # {} PROVE FALSE
  OBVIOUS
<1>1. PICK m \in {n \in 0 .. N : n \notin T} :
         \A n \in {k \in 0 .. N : k \notin T} : m <= n
  <2>1. {n \in 0 .. N : n \notin T} \subseteq Nat
    OBVIOUS
  <2>2. QED
    BY <2>1, LeastNumber
<1>2. m - 1 \in 0 .. N - 1 /\ m - 1 \in T
  BY <1>1
<1>3. QED
  BY <1>1, <1>2

States ==
    [escaped : BOOLEAN, out : Seq(Input!Keys), stop : {"no", "quit", "break"}]

\* A state is what its three fields say.
LEMMA StateIs ==
    ASSUME NEW st \in States
    PROVE  st = Input!State(st.escaped, st.out, st.stop)
  BY DEF States, Input!State

\* One key before a quit or a break, outside of a sequence and within one.
LEMMA KeyIs ==
    ASSUME NEW st, st.stop = "no", NEW key
    PROVE  Input!UnescapeKey(st, key) =
             IF ~st.escaped
             THEN IF key = Esc THEN Input!State(TRUE, st.out, "no")
                               ELSE Input!State(FALSE, Append(st.out, key), "no")
             ELSE IF key = Esc THEN Input!State(FALSE, Append(st.out, key), "no")
             ELSE IF key = QuitKey THEN Input!State(FALSE, <<>>, "quit")
             ELSE IF key = BreakKey THEN Input!State(FALSE, <<>>, "break")
             ELSE Input!State(FALSE, st.out, "no")
<1>1. Esc # QuitKey /\ Esc # BreakKey /\ QuitKey # BreakKey
  BY InputAssumption DEF Input!InputAssumption
<1>2. QED
  BY <1>1 DEF Input!UnescapeKey

\* A key after a quit or a break is not looked at.
LEMMA KeyAfterStop ==
    ASSUME NEW st, st.stop # "no", NEW key
    PROVE  Input!UnescapeKey(st, key) = st
  BY DEF Input!UnescapeKey

\* One key takes the loop from state to state.
LEMMA KeyTyped ==
    ASSUME NEW st \in States, NEW key \in Input!Keys
    PROVE  Input!UnescapeKey(st, key) \in States
<1>1. CASE st.stop # "no"
  BY <1>1, KeyAfterStop
<1>2. CASE st.stop = "no"
  <2>1. st.out \in Seq(Input!Keys) /\ <<>> \in Seq(Input!Keys)
        /\ Append(st.out, key) \in Seq(Input!Keys)
    BY DEF States
  <2>2. \A o \in Seq(Input!Keys) :
           /\ Input!State(TRUE, o, "no") \in States
           /\ Input!State(FALSE, o, "no") \in States
           /\ Input!State(FALSE, o, "quit") \in States
           /\ Input!State(FALSE, o, "break") \in States
    BY DEF Input!State, States
  <2>3. QED
    BY <1>2, <2>1, <2>2, KeyIs
<1>3. QED
  BY <1>1, <1>2

\* The loop of unescape() has a state after each key.
LEMMA LoopExists ==
    ASSUME NEW start, NEW s \in Seq(Input!Keys)
    PROVE  \E f : f = [n \in 0 .. Len(s) |->
                         IF n = 0 THEN start
                         ELSE Input!UnescapeKey(f[n - 1], s[n])]
<1> DEFINE Fits(f, k) == f = [n \in 0 .. k |->
                               IF n = 0 THEN start
                               ELSE Input!UnescapeKey(f[n - 1], s[n])]
           T == {k \in 0 .. Len(s) : \E f : Fits(f, k)}
<1>1. 0 \in T
  <2>1. Fits([n \in {0} |-> start], 0)
    OBVIOUS
  <2> HIDE DEF Fits
  <2>2. QED
    BY <2>1
<1>2. ASSUME NEW k \in 0 .. Len(s) - 1, k \in T PROVE k + 1 \in T
  <2>1. PICK f : Fits(f, k)
    BY <1>2
  <2> DEFINE g == [n \in 0 .. k + 1 |->
                     IF n = k + 1 THEN Input!UnescapeKey(f[k], s[k + 1])
                                  ELSE f[n]]
  <2>2. \A n \in 0 .. k : f[n] = IF n = 0 THEN start
                                 ELSE Input!UnescapeKey(f[n - 1], s[n])
    BY <2>1
  <2>3. \A n \in 0 .. k + 1 :
           g[n] = IF n = 0 THEN start ELSE Input!UnescapeKey(g[n - 1], s[n])
    BY <2>2
  <2>4. Fits(g, k + 1)
    BY <2>3
  <2> HIDE DEF Fits, g
  <2>5. QED
    BY <2>4
<1>3. Len(s) \in T
  <2>1. Len(s) \in Nat
    OBVIOUS
  <2> HIDE DEF T
  <2>2. \A n \in 0 .. Len(s) : n \in T
    BY <1>1, <1>2, <2>1, Counting
  <2>3. QED
    BY <2>1, <2>2
<1>4. QED
  BY <1>3

\* What its state is after each key.
LEMMA LoopIs ==
    ASSUME NEW start, NEW s \in Seq(Input!Keys)
    PROVE  LET f == Input!UnescapeLoop(start, s)
           IN  /\ f[0] = start
               /\ \A n \in 0 .. Len(s) - 1 :
                     f[n + 1] = Input!UnescapeKey(f[n], s[n + 1])
<1>1. Input!UnescapeLoop(start, s) =
         [n \in 0 .. Len(s) |->
            IF n = 0 THEN start
            ELSE Input!UnescapeKey(Input!UnescapeLoop(start, s)[n - 1], s[n])]
  BY LoopExists DEF Input!UnescapeLoop
<1> DEFINE f == Input!UnescapeLoop(start, s)
<1> HIDE DEF f
<1>2. \A n \in 0 .. Len(s) :
         f[n] = IF n = 0 THEN start ELSE Input!UnescapeKey(f[n - 1], s[n])
  BY <1>1 DEF f
<1>3. f[0] = start
  BY <1>2
<1>4. ASSUME NEW n \in 0 .. Len(s) - 1
      PROVE  f[n + 1] = Input!UnescapeKey(f[n], s[n + 1])
  <2>1. n + 1 \in 0 .. Len(s) /\ n + 1 # 0 /\ (n + 1) - 1 = n
    OBVIOUS
  <2>2. QED
    BY <1>2, <2>1
<1>5. QED
  BY <1>3, <1>4 DEF f

LEMMA LoopTyped ==
    ASSUME NEW start \in States, NEW s \in Seq(Input!Keys)
    PROVE  \A n \in 0 .. Len(s) : Input!UnescapeLoop(start, s)[n] \in States
<1> DEFINE f == Input!UnescapeLoop(start, s)
           T == {n \in 0 .. Len(s) : f[n] \in States}
<1> HIDE DEF f
<1>1. 0 \in T
  BY LoopIs DEF f
<1>2. ASSUME NEW n \in 0 .. Len(s) - 1, n \in T PROVE n + 1 \in T
  <2>1. f[n + 1] = Input!UnescapeKey(f[n], s[n + 1])
    BY LoopIs DEF f
  <2>2. s[n + 1] \in Input!Keys /\ f[n] \in States
    BY <1>2
  <2>3. f[n + 1] \in States
    BY <2>1, <2>2, KeyTyped
  <2>4. QED
    BY <2>3
<1>3. QED
  <2> HIDE DEF T
  <2>1. \A n \in 0 .. Len(s) : n \in T
    BY <1>1, <1>2, Counting
  <2>2. QED
    BY <2>1 DEF T, f

\* Keys that come in two reads: the second goes on where the first ended.
LEMMA LoopOverTwo ==
    ASSUME NEW start, NEW a \in Seq(Input!Keys), NEW b \in Seq(Input!Keys),
           NEW mid, mid = Input!UnescapeLoop(start, a)[Len(a)]
    PROVE  Input!UnescapeLoop(start, a \o b)[Len(a \o b)] =
             Input!UnescapeLoop(mid, b)[Len(b)]
<1> DEFINE f == Input!UnescapeLoop(start, a)
           g == Input!UnescapeLoop(mid, b)
           h == Input!UnescapeLoop(start, a \o b)
           T == {n \in 0 .. Len(a) : h[n] = f[n]}
           U == {n \in 0 .. Len(b) : h[Len(a) + n] = g[n]}
<1>1. /\ a \o b \in Seq(Input!Keys) /\ Len(a \o b) = Len(a) + Len(b)
      /\ Len(a) \in Nat /\ Len(b) \in Nat
      /\ \A n \in 1 .. Len(a) : (a \o b)[n] = a[n]
      /\ \A n \in 1 .. Len(b) : (a \o b)[Len(a) + n] = b[n]
  OBVIOUS
<1>2. /\ f[0] = start
      /\ \A n \in 0 .. Len(a) - 1 : f[n + 1] = Input!UnescapeKey(f[n], a[n + 1])
  BY LoopIs
<1>3. /\ g[0] = mid
      /\ \A n \in 0 .. Len(b) - 1 : g[n + 1] = Input!UnescapeKey(g[n], b[n + 1])
  BY LoopIs
<1>4. /\ h[0] = start
      /\ \A n \in 0 .. Len(a) + Len(b) - 1 :
            h[n + 1] = Input!UnescapeKey(h[n], (a \o b)[n + 1])
  <2>1. /\ h[0] = start
        /\ \A n \in 0 .. Len(a \o b) - 1 :
              h[n + 1] = Input!UnescapeKey(h[n], (a \o b)[n + 1])
    <3> DEFINE c == a \o b
    <3>1. c \in Seq(Input!Keys)
      OBVIOUS
    <3> HIDE DEF c
    <3>2. /\ Input!UnescapeLoop(start, c)[0] = start
          /\ \A n \in 0 .. Len(c) - 1 :
                Input!UnescapeLoop(start, c)[n + 1]
                  = Input!UnescapeKey(Input!UnescapeLoop(start, c)[n], c[n + 1])
      BY <3>1, LoopIs
    <3>3. QED
      BY <3>2 DEF c
  <2> HIDE DEF h
  <2>2. QED
    BY <1>1, <2>1
<1>5. mid = f[Len(a)]
  OBVIOUS
<1> HIDE DEF f, g, h
<1>6. 0 \in T
  BY <1>1, <1>2, <1>4
<1>7. ASSUME NEW n \in 0 .. Len(a) - 1, n \in T PROVE n + 1 \in T
  <2>1. n + 1 \in 1 .. Len(a) /\ n \in 0 .. Len(a) + Len(b) - 1
    BY <1>1
  <2>2. QED
    BY <1>1, <1>2, <1>4, <1>7, <2>1
<1>8. Len(a) \in T
  <2> HIDE DEF T
  <2>1. \A n \in 0 .. Len(a) : n \in T
    BY <1>1, <1>6, <1>7, Counting
  <2>2. QED
    BY <1>1, <2>1
<1>9. 0 \in U
  BY <1>1, <1>3, <1>5, <1>8
<1>10. ASSUME NEW n \in 0 .. Len(b) - 1, n \in U PROVE n + 1 \in U
  <2>1. n + 1 \in 1 .. Len(b) /\ Len(a) + n \in 0 .. Len(a) + Len(b) - 1
        /\ (Len(a) + n) + 1 = Len(a) + (n + 1)
    BY <1>1
  <2>2. h[Len(a) + (n + 1)] = Input!UnescapeKey(h[Len(a) + n], b[n + 1])
    BY <1>1, <1>4, <2>1
  <2>3. QED
    BY <1>3, <1>10, <2>1, <2>2
<1>11. Len(b) \in U
  <2> HIDE DEF U
  <2>1. \A n \in 0 .. Len(b) : n \in U
    BY <1>1, <1>9, <1>10, Counting
  <2>2. QED
    BY <1>1, <2>1
<1>12. QED
  BY <1>1, <1>11 DEF g, h

\* A state with more keys in front of those the loop has kept.
After(o, st) ==
    Input!State(st.escaped, IF st.stop = "no" THEN o \o st.out ELSE <<>>, st.stop)

LEMMA KeyAfter ==
    ASSUME NEW o \in Seq(Input!Keys), NEW st \in States, NEW key \in Input!Keys
    PROVE  Input!UnescapeKey(After(o, st), key) =
             After(o, Input!UnescapeKey(st, key))
<1>1. /\ After(o, st).stop = st.stop /\ After(o, st).escaped = st.escaped
      /\ After(o, st).out = IF st.stop = "no" THEN o \o st.out ELSE <<>>
  BY DEF After, Input!State
<1>2. CASE st.stop # "no"
  BY <1>1, <1>2, KeyAfterStop
<1>3. CASE st.stop = "no"
  <2>1. o \o Append(st.out, key) = Append(o \o st.out, key)
    BY DEF States
  <2>2. \A e, p : After(o, Input!State(e, p, "no")) = Input!State(e, o \o p, "no")
    BY DEF After, Input!State
  <2>3. \A e : /\ After(o, Input!State(e, <<>>, "quit")) = Input!State(e, <<>>, "quit")
               /\ After(o, Input!State(e, <<>>, "break")) = Input!State(e, <<>>, "break")
    BY DEF After, Input!State
  <2>4. After(o, st).stop = "no" /\ After(o, st).out = o \o st.out
    BY <1>1, <1>3
  <2>5. CASE ~st.escaped /\ key = Esc
    BY <1>1, <1>3, <2>2, <2>4, <2>5, KeyIs
  <2>6. CASE (~st.escaped /\ key # Esc) \/ (st.escaped /\ key = Esc)
    <3>1. /\ Input!UnescapeKey(st, key)
               = Input!State(FALSE, Append(st.out, key), "no")
          /\ Input!UnescapeKey(After(o, st), key)
               = Input!State(FALSE, Append(o \o st.out, key), "no")
      BY <1>1, <1>3, <2>4, <2>6, KeyIs
    <3>2. After(o, Input!State(FALSE, Append(st.out, key), "no"))
            = Input!State(FALSE, o \o Append(st.out, key), "no")
      BY <2>2
    <3>3. QED
      BY <2>1, <3>1, <3>2
  <2>7. CASE st.escaped /\ key # Esc
    <3>1. CASE key = QuitKey
      BY <1>1, <1>3, <2>3, <2>4, <2>7, <3>1, KeyIs
    <3>2. CASE key = BreakKey /\ key # QuitKey
      BY <1>1, <1>3, <2>3, <2>4, <2>7, <3>2, KeyIs
    <3>3. CASE key # BreakKey /\ key # QuitKey
      <4>1. /\ Input!UnescapeKey(st, key) = Input!State(FALSE, st.out, "no")
            /\ Input!UnescapeKey(After(o, st), key)
                 = Input!State(FALSE, o \o st.out, "no")
        BY <1>1, <1>3, <2>4, <2>7, <3>3, KeyIs
      <4>2. QED
        BY <2>2, <4>1
    <3>4. QED
      BY <3>1, <3>2, <3>3
  <2>8. QED
    BY <2>5, <2>6, <2>7
<1>4. QED
  BY <1>2, <1>3

\* The loop treats the keys the same whatever was kept before.
LEMMA LoopAfter ==
    ASSUME NEW e \in BOOLEAN, NEW o \in Seq(Input!Keys), NEW s \in Seq(Input!Keys)
    PROVE  Input!UnescapeLoop(Input!State(e, o, "no"), s)[Len(s)] =
             After(o, Input!Unescape(e, s))
<1> DEFINE f == Input!UnescapeLoop(Input!Start(e), s)
           g == Input!UnescapeLoop(Input!State(e, o, "no"), s)
           T == {n \in 0 .. Len(s) : g[n] = After(o, f[n])}
<1>1. Len(s) \in Nat
  OBVIOUS
<1>2. /\ f[0] = Input!Start(e)
      /\ \A n \in 0 .. Len(s) - 1 : f[n + 1] = Input!UnescapeKey(f[n], s[n + 1])
  BY LoopIs
<1>3. /\ g[0] = Input!State(e, o, "no")
      /\ \A n \in 0 .. Len(s) - 1 : g[n + 1] = Input!UnescapeKey(g[n], s[n + 1])
  BY LoopIs
<1>4. Input!Start(e) \in States
  BY DEF Input!Start, Input!State, States
<1>5. \A n \in 0 .. Len(s) : f[n] \in States
  BY <1>4, LoopTyped
<1> HIDE DEF f, g
<1>6. 0 \in T
  <2>1. o \o <<>> = o
    OBVIOUS
  <2>2. Input!Start(e).stop = "no" /\ Input!Start(e).out = <<>>
        /\ Input!Start(e).escaped = e
    BY DEF Input!Start, Input!State
  <2>3. After(o, Input!Start(e)) = Input!State(e, o, "no")
    BY <2>1, <2>2 DEF After
  <2>4. QED
    BY <1>1, <1>2, <1>3, <2>3
<1>7. ASSUME NEW n \in 0 .. Len(s) - 1, n \in T PROVE n + 1 \in T
  <2>1. n \in 0 .. Len(s) /\ n + 1 \in 0 .. Len(s) /\ s[n + 1] \in Input!Keys
    BY <1>1
  <2>2. Input!UnescapeKey(After(o, f[n]), s[n + 1])
           = After(o, Input!UnescapeKey(f[n], s[n + 1]))
    BY <1>5, <2>1, KeyAfter
  <2>3. QED
    BY <1>2, <1>3, <1>7, <2>1, <2>2
<1>8. Len(s) \in T
  <2> HIDE DEF T
  <2>1. \A n \in 0 .. Len(s) : n \in T
    BY <1>1, <1>6, <1>7, Counting
  <2>2. QED
    BY <1>1, <2>1
<1>9. QED
  BY <1>8 DEF f, g, Input!Unescape

-----------------------------------------------------------------------------
(* Input: keys taken from a text in its order                              *)

LEMMA WithinMore ==
    ASSUME NEW keys, NEW text, NEW n \in Nat, NEW m \in Nat, n <= m,
           Input!Within(keys, text, n)
    PROVE  Input!Within(keys, text, m)
<1>1. PICK place \in [DOMAIN keys -> 1 .. n] :
         /\ \A k, j \in DOMAIN keys : k < j => place[k] < place[j]
         /\ \A k \in DOMAIN keys : keys[k] = text[place[k]]
  BY DEF Input!Within
<1>2. place \in [DOMAIN keys -> 1 .. m]
  <2>1. \A k \in DOMAIN keys : place[k] \in 1 .. n
    OBVIOUS
  <2>2. \A k \in DOMAIN keys : place[k] \in 1 .. m
    BY <2>1
  <2>3. QED
    BY <2>2
<1>3. QED
  BY <1>1, <1>2 DEF Input!Within

LEMMA WithinSame ==
    ASSUME NEW keys, NEW text, NEW other, NEW n \in Nat,
           \A k \in 1 .. n : other[k] = text[k],
           Input!Within(keys, text, n)
    PROVE  Input!Within(keys, other, n)
<1>1. PICK place \in [DOMAIN keys -> 1 .. n] :
         /\ \A k, j \in DOMAIN keys : k < j => place[k] < place[j]
         /\ \A k \in DOMAIN keys : keys[k] = text[place[k]]
  BY DEF Input!Within
<1>2. \A k \in DOMAIN keys : keys[k] = other[place[k]]
  <2>1. \A k \in DOMAIN keys : place[k] \in 1 .. n
    OBVIOUS
  <2>2. QED
    BY <1>1, <2>1
<1>3. QED
  BY <1>1, <1>2 DEF Input!Within

\* Some of the first n keys of one text followed by some of the m after them.
LEMMA WithinConcat ==
    ASSUME NEW S, NEW a \in Seq(S), NEW b \in Seq(S), NEW text, NEW later,
           NEW n \in Nat, NEW m \in Nat,
           Input!Within(a, text, n), Input!Within(b, later, m),
           \A k \in 1 .. m : later[k] = text[n + k]
    PROVE  Input!Within(a \o b, text, n + m)
<1>1. PICK f \in [DOMAIN a -> 1 .. n] :
         /\ \A k, j \in DOMAIN a : k < j => f[k] < f[j]
         /\ \A k \in DOMAIN a : a[k] = text[f[k]]
  BY DEF Input!Within
<1>2. PICK g \in [DOMAIN b -> 1 .. m] :
         /\ \A k, j \in DOMAIN b : k < j => g[k] < g[j]
         /\ \A k \in DOMAIN b : b[k] = later[g[k]]
  BY DEF Input!Within
<1> DEFINE c == a \o b
           h == [k \in DOMAIN c |-> IF k <= Len(a) THEN f[k] ELSE n + g[k - Len(a)]]
<1>3. /\ Len(a) \in Nat /\ Len(b) \in Nat
      /\ DOMAIN a = 1 .. Len(a) /\ DOMAIN b = 1 .. Len(b)
      /\ DOMAIN c = 1 .. Len(a) + Len(b)
      /\ \A k \in 1 .. Len(a) : c[k] = a[k]
      /\ \A k \in 1 .. Len(b) : c[Len(a) + k] = b[k]
  OBVIOUS
<1> HIDE DEF c
<1>4. \A k \in DOMAIN c : k <= Len(a) =>
         k \in DOMAIN a /\ h[k] = f[k] /\ f[k] \in 1 .. n /\ c[k] = a[k]
  BY <1>1, <1>3
<1>5. \A k \in DOMAIN c : ~(k <= Len(a)) =>
         /\ k - Len(a) \in DOMAIN b /\ h[k] = n + g[k - Len(a)]
         /\ g[k - Len(a)] \in 1 .. m /\ c[k] = b[k - Len(a)]
  <2> SUFFICES ASSUME NEW k \in DOMAIN c, ~(k <= Len(a))
               PROVE  /\ k - Len(a) \in DOMAIN b /\ h[k] = n + g[k - Len(a)]
                      /\ g[k - Len(a)] \in 1 .. m /\ c[k] = b[k - Len(a)]
    OBVIOUS
  <2>1. k - Len(a) \in 1 .. Len(b) /\ Len(a) + (k - Len(a)) = k
    BY <1>3
  <2>2. c[k] = b[k - Len(a)]
    BY <1>3, <2>1
  <2>3. g[k - Len(a)] \in 1 .. m
    BY <1>2, <1>3, <2>1
  <2>4. QED
    BY <1>3, <2>1, <2>2, <2>3
<1>6. \A k \in DOMAIN c : k \in Nat /\ h[k] \in 1 .. n + m
  BY <1>3, <1>4, <1>5
<1> HIDE DEF h
<1>7. h \in [DOMAIN c -> 1 .. n + m]
  BY <1>6 DEF h
<1>8. ASSUME NEW k \in DOMAIN c, NEW j \in DOMAIN c, k < j PROVE h[k] < h[j]
  <2>0. k \in Nat /\ j \in Nat
    BY <1>6
  <2>1. CASE j <= Len(a)
    <3>1. k <= Len(a)
      BY <1>3, <1>8, <2>0, <2>1
    <3>2. QED
      BY <1>1, <1>4, <1>8, <2>1, <3>1
  <2>2. CASE k <= Len(a) /\ ~(j <= Len(a))
    <3>1. h[k] \in 1 .. n /\ h[j] = n + g[j - Len(a)] /\ g[j - Len(a)] \in 1 .. m
      BY <1>4, <1>5, <2>2
    <3>2. QED
      BY <3>1
  <2>3. CASE ~(k <= Len(a)) /\ ~(j <= Len(a))
    <3>1. /\ k - Len(a) \in DOMAIN b /\ j - Len(a) \in DOMAIN b
          /\ h[k] = n + g[k - Len(a)] /\ h[j] = n + g[j - Len(a)]
          /\ g[k - Len(a)] \in 1 .. m /\ g[j - Len(a)] \in 1 .. m
      BY <1>5, <2>3
    <3>2. k - Len(a) < j - Len(a)
      BY <1>3, <1>8, <2>0
    <3>3. g[k - Len(a)] < g[j - Len(a)]
      BY <1>2, <3>1, <3>2
    <3>4. QED
      BY <3>1, <3>3
  <2>4. QED
    BY <2>1, <2>2, <2>3
<1>9. ASSUME NEW k \in DOMAIN c PROVE c[k] = text[h[k]]
  <2>1. CASE k <= Len(a)
    BY <1>1, <1>4, <2>1
  <2>2. CASE ~(k <= Len(a))
    <3>1. c[k] = later[g[k - Len(a)]] /\ g[k - Len(a)] \in 1 .. m
      BY <1>2, <1>5, <2>2
    <3>2. QED
      BY <1>5, <2>2, <3>1
  <2>3. QED
    BY <2>1, <2>2
<1>10. Input!Within(c, text, n + m)
  BY <1>7, <1>8, <1>9 DEF Input!Within
<1>11. QED
  BY <1>10 DEF c

LEMMA WithinEmpty ==
    ASSUME NEW text, NEW n \in Nat
    PROVE  Input!Within(<<>>, text, n)
<1>1. <<>> \in [DOMAIN <<>> -> 1 .. n] /\ DOMAIN <<>> = {}
  OBVIOUS
<1>2. QED
  BY <1>1 DEF Input!Within

\* One more key, the next one of the text.
LEMMA WithinAppend ==
    ASSUME NEW S, NEW keys \in Seq(S), NEW text, NEW n \in Nat, text[n + 1] \in S,
           Input!Within(keys, text, n)
    PROVE  Input!Within(Append(keys, text[n + 1]), text, n + 1)
<1> DEFINE key == text[n + 1]
<1>1. Input!Within(<<key>>, <<key>>, 1)
  <2>1. DOMAIN <<key>> = {1} /\ <<key>>[1] = key
    OBVIOUS
  <2>2. [k \in {1} |-> 1] \in [{1} -> 1 .. 1] /\ [k \in {1} |-> 1][1] = 1
    OBVIOUS
  <2>3. QED
    BY <2>1, <2>2 DEF Input!Within
<1>2. \A k \in 1 .. 1 : <<key>>[k] = text[n + k]
  OBVIOUS
<1>3. <<key>> \in Seq(S) /\ keys \o <<key>> = Append(keys, key)
  OBVIOUS
<1> HIDE DEF key
<1>4. Input!Within(keys \o <<key>>, text, n + 1)
  BY <1>1, <1>2, <1>3, WithinConcat
<1>5. QED
  BY <1>3, <1>4 DEF key

\* One key is kept, or dropped, or with it all others.
LEMMA KeyOut ==
    ASSUME NEW st, NEW key
    PROVE  Input!UnescapeKey(st, key).out \in {st.out, Append(st.out, key), <<>>}
<1> DEFINE now == Input!UnescapeKey(st, key)
<1>1. CASE st.stop # "no"
  BY <1>1, KeyAfterStop
<1>2. CASE st.stop = "no"
  <2>1. \/ now = Input!State(TRUE, st.out, "no")
        \/ now = Input!State(FALSE, Append(st.out, key), "no")
        \/ now = Input!State(FALSE, st.out, "no")
        \/ now = Input!State(FALSE, <<>>, "quit")
        \/ now = Input!State(FALSE, <<>>, "break")
    BY <1>2, KeyIs
  <2> HIDE DEF now
  <2>2. now.out \in {st.out, Append(st.out, key), <<>>}
    BY <2>1 DEF Input!State
  <2>3. QED
    BY <2>2 DEF now
<1>3. QED
  BY <1>1, <1>2

\* What unescape() keeps of the first n keys is some of them, in their order.
LEMMA LoopWithin ==
    ASSUME NEW e \in BOOLEAN, NEW s \in Seq(Input!Keys)
    PROVE  /\ Input!Unescape(e, s) \in States
           /\ Input!Within(Input!Unescape(e, s).out, s, Len(s))
<1> DEFINE f == Input!UnescapeLoop(Input!Start(e), s)
           T == {n \in 0 .. Len(s) : Input!Within(f[n].out, s, n)}
<1>1. Len(s) \in Nat
  OBVIOUS
<1>2. /\ f[0] = Input!Start(e)
      /\ \A n \in 0 .. Len(s) - 1 : f[n + 1] = Input!UnescapeKey(f[n], s[n + 1])
  BY LoopIs
<1>3. \A n \in 0 .. Len(s) : f[n] \in States
  <2>1. Input!Start(e) \in States
    BY DEF Input!Start, Input!State, States
  <2>2. QED
    BY <2>1, LoopTyped
<1> HIDE DEF f
<1>4. 0 \in T
  <2>1. f[0].out = <<>>
    BY <1>2 DEF Input!Start, Input!State
  <2>2. QED
    BY <1>1, <2>1, WithinEmpty
<1>5. ASSUME NEW n \in 0 .. Len(s) - 1, n \in T PROVE n + 1 \in T
  <2>1. /\ n \in Nat /\ n + 1 \in 0 .. Len(s) /\ s[n + 1] \in Input!Keys
        /\ n \in 0 .. Len(s) /\ n + 1 \in Nat /\ n <= n + 1
    BY <1>1
  <2>2. f[n].out \in Seq(Input!Keys) /\ Input!Within(f[n].out, s, n)
    BY <1>3, <1>5, <2>1 DEF States
  <2>3. /\ Input!Within(f[n].out, s, n + 1)
        /\ Input!Within(Append(f[n].out, s[n + 1]), s, n + 1)
        /\ Input!Within(<<>>, s, n + 1)
    BY <2>1, <2>2, WithinMore, WithinAppend, WithinEmpty
  <2>4. f[n + 1].out \in {f[n].out, Append(f[n].out, s[n + 1]), <<>>}
    <3>1. f[n + 1] = Input!UnescapeKey(f[n], s[n + 1])
      BY <1>2
    <3>2. QED
      BY <3>1, KeyOut
  <2>5. QED
    BY <2>1, <2>3, <2>4
<1>6. Len(s) \in T
  <2> HIDE DEF T
  <2>1. \A n \in 0 .. Len(s) : n \in T
    BY <1>1, <1>4, <1>5, Counting
  <2>2. QED
    BY <1>1, <2>1
<1>7. QED
  BY <1>1, <1>3, <1>6 DEF f, Input!Unescape

-----------------------------------------------------------------------------
(* Input: the invariant and its steps                                      *)

\* How many of the keys typed have been read.
ReadKeys == Len(typed) - Len(stdin)

InputTypes ==
    /\ typed \in Seq(Input!Keys) /\ stdin \in Seq(Input!Keys)
    /\ sent \in Seq(Input!Keys)
    /\ escaped \in BOOLEAN /\ connected \in BOOLEAN
    /\ quit \in BOOLEAN /\ lost \in BOOLEAN
    /\ Len(stdin) <= Len(typed)
    /\ \A n \in 1 .. Len(stdin) : stdin[n] = typed[ReadKeys + n]

InputInv ==
    /\ InputTypes
    /\ Input!Within(sent, typed, ReadKeys)
    /\ ~lost => IF quit THEN Input!Reference(Input!Read).stop = "quit"
                ELSE Input!Reference(Input!Read) = Input!State(escaped, sent, "no")

LEMMA InputInit == Input!Init => InputInv
<1> SUFFICES ASSUME Input!Init PROVE InputInv
  OBVIOUS
<1>1. InputTypes /\ ReadKeys = 0 /\ Input!Read = <<>>
  <2>1. typed = <<>> /\ stdin = <<>> /\ sent = <<>> /\ Len(<<>>) = 0
    BY DEF Input!Init
  <2>2. ReadKeys = 0
    BY <2>1 DEF ReadKeys
  <2>3. Input!Read = <<>>
    BY <2>1 DEF Input!Read
  <2>4. 1 .. Len(stdin) = {} /\ <<>> \in Seq(Input!Keys)
    BY <2>1
  <2>5. /\ escaped \in BOOLEAN /\ connected \in BOOLEAN
        /\ quit \in BOOLEAN /\ lost \in BOOLEAN
    BY DEF Input!Init
  <2>6. Len(stdin) <= Len(typed)
    BY <2>1
  <2>7. QED
    BY <2>1, <2>2, <2>3, <2>4, <2>5, <2>6 DEF InputTypes
<1>2. Input!Within(sent, typed, ReadKeys)
  BY <1>1, WithinEmpty DEF Input!Init
<1>3. Input!Reference(<<>>) = Input!State(FALSE, <<>>, "no")
  <2>1. <<>> \in Seq(Input!Keys) /\ Len(<<>>) = 0
    OBVIOUS
  <2>2. Input!UnescapeLoop(Input!Start(FALSE), <<>>)[0] = Input!Start(FALSE)
    BY <2>1, LoopIs
  <2>3. QED
    BY <2>1, <2>2 DEF Input!Reference, Input!Unescape, Input!Start
<1>4. QED
  BY <1>1, <1>2, <1>3 DEF InputInv, Input!Init

\* A key is typed; what has been read stays.
LEMMA TypeStep ==
    ASSUME InputInv, NEW key \in Input!Keys, Input!Type(key)
    PROVE  InputInv'
<1>1. /\ typed' = Append(typed, key) /\ stdin' = Append(stdin, key)
      /\ UNCHANGED <<escaped, connected, quit, sent, breaks, lost>>
  BY DEF Input!Type
<1>2. /\ typed \in Seq(Input!Keys) /\ stdin \in Seq(Input!Keys)
      /\ Len(typed) \in Nat /\ Len(stdin) \in Nat /\ Len(stdin) <= Len(typed)
      /\ \A n \in 1 .. Len(stdin) : stdin[n] = typed[ReadKeys + n]
  BY DEF InputInv, InputTypes
<1>3. /\ typed' \in Seq(Input!Keys) /\ stdin' \in Seq(Input!Keys)
      /\ Len(typed') = Len(typed) + 1 /\ Len(stdin') = Len(stdin) + 1
      /\ \A n \in 1 .. Len(typed) : typed'[n] = typed[n]
      /\ \A n \in 1 .. Len(stdin) : stdin'[n] = stdin[n]
      /\ typed'[Len(typed) + 1] = key /\ stdin'[Len(stdin) + 1] = key
  BY <1>1, <1>2
<1>4. ReadKeys' = ReadKeys /\ ReadKeys \in 0 .. Len(typed) /\ ReadKeys \in Nat
      /\ ReadKeys + Len(stdin) = Len(typed)
  BY <1>2, <1>3 DEF ReadKeys
<1>5. ASSUME NEW n \in 1 .. Len(stdin') PROVE stdin'[n] = typed'[ReadKeys + n]
  <2>1. CASE n \in 1 .. Len(stdin)
    <3>1. ReadKeys + n \in 1 .. Len(typed)
      BY <1>2, <1>4, <2>1
    <3>2. QED
      BY <1>2, <1>3, <2>1, <3>1
  <2>2. CASE n = Len(stdin) + 1
    <3>1. ReadKeys + n = Len(typed) + 1
      BY <1>2, <1>4, <2>2
    <3>2. QED
      BY <1>3, <2>2, <3>1
  <2>3. QED
    BY <1>2, <1>3, <2>1, <2>2
<1>6. InputTypes'
  <2>1. Len(stdin') <= Len(typed')
    BY <1>2, <1>3
  <2>2. QED
    BY <1>1, <1>3, <1>4, <1>5, <2>1 DEF InputInv, InputTypes
<1>7. Input!Within(sent, typed', ReadKeys)
  <2>1. \A k \in 1 .. ReadKeys : typed'[k] = typed[k]
    BY <1>3, <1>4
  <2>2. QED
    BY <1>4, <2>1, WithinSame DEF InputInv
<1>8. Input!Read' = Input!Read
  <2>1. Input!Read' = SubSeq(typed', 1, ReadKeys) /\ Input!Read = SubSeq(typed, 1, ReadKeys)
    BY <1>4 DEF Input!Read, ReadKeys
  <2>2. SubSeq(typed', 1, ReadKeys) = SubSeq(typed, 1, ReadKeys)
    BY <1>2, <1>3, <1>4
  <2>3. QED
    BY <2>1, <2>2
<1>9. Input!Reference(Input!Read)' = Input!Reference(Input!Read)
  BY <1>8 DEF Input!Reference, Input!Unescape, Input!UnescapeLoop
<1>10. QED
  BY <1>1, <1>4, <1>6, <1>7, <1>9 DEF InputInv

\* A read takes the next keys typed.
LEMMA ReadBufIs ==
    ASSUME InputTypes
    PROVE  LET buf == Input!ReadBuf
               rest == SubSeq(stdin, Len(buf) + 1, Len(stdin))
               all == SubSeq(typed, 1, ReadKeys + Len(buf))
           IN  /\ buf \in Seq(Input!Keys) /\ Len(buf) \in 0 .. Len(stdin)
               /\ \A n \in 1 .. Len(buf) : buf[n] = typed[ReadKeys + n]
               /\ rest \in Seq(Input!Keys) /\ Len(rest) = Len(stdin) - Len(buf)
               /\ \A n \in 1 .. Len(rest) : rest[n] = stdin[Len(buf) + n]
               /\ all = Input!Read \o buf /\ Input!Read \in Seq(Input!Keys)
<1>1. PICK r \in Nat : r = IF Len(stdin) < InputSize THEN Len(stdin) ELSE InputSize
  BY InputAssumption DEF Input!InputAssumption, InputTypes
<1>2. PICK t \in Nat : t = Len(typed)
  BY DEF InputTypes
<1>3. PICK s \in Nat : s = Len(stdin)
  BY DEF InputTypes
<1>4. PICK k \in Nat : k = ReadKeys
  <2>1. Len(stdin) <= Len(typed)
    BY DEF InputTypes
  <2>2. QED
    BY <1>2, <1>3, <2>1 DEF ReadKeys
<1>5. r <= s /\ s <= t /\ k + s = t
  BY <1>1, <1>2, <1>3, <1>4, InputAssumption
     DEF Input!InputAssumption, InputTypes, ReadKeys
<1> DEFINE buf == Input!ReadBuf
           rest == SubSeq(stdin, r + 1, s)
           all == SubSeq(typed, 1, k + r)
<1>6. /\ typed \in Seq(Input!Keys) /\ stdin \in Seq(Input!Keys)
      /\ \A n \in 1 .. s : stdin[n] \in Input!Keys /\ stdin[n] = typed[k + n]
      /\ \A n \in 1 .. t : typed[n] \in Input!Keys
  BY <1>2, <1>3, <1>4 DEF InputTypes
<1>7. buf = SubSeq(stdin, 1, r)
  BY <1>1 DEF Input!ReadBuf
<1>8. /\ buf \in Seq(Input!Keys) /\ Len(buf) = r
      /\ \A n \in 1 .. r : buf[n] = stdin[n]
  <2>1. \A n \in 1 .. r : stdin[n] \in Input!Keys
    BY <1>5, <1>6
  <2>2. /\ SubSeq(stdin, 1, r) \in Seq(Input!Keys)
        /\ Len(SubSeq(stdin, 1, r)) = IF 1 <= r THEN r - 1 + 1 ELSE 0
        /\ \A n \in 1 .. r - 1 + 1 : SubSeq(stdin, 1, r)[n] = stdin[1 + n - 1]
    BY <2>1, SubSeqProperties
  <2>3. r = IF 1 <= r THEN r - 1 + 1 ELSE 0
    OBVIOUS
  <2>4. r - 1 + 1 = r /\ \A n \in 1 .. r : 1 + n - 1 = n
    OBVIOUS
  <2> HIDE DEF buf
  <2>5. QED
    BY <1>7, <2>2, <2>3, <2>4
<1>9. /\ rest \in Seq(Input!Keys) /\ Len(rest) = s - r
      /\ \A n \in 1 .. s - r : rest[n] = stdin[r + n]
  <2>1. \A n \in r + 1 .. s : stdin[n] \in Input!Keys
    BY <1>6
  <2>2. /\ rest \in Seq(Input!Keys)
        /\ Len(rest) = IF r + 1 <= s THEN s - (r + 1) + 1 ELSE 0
        /\ \A n \in 1 .. s - (r + 1) + 1 : rest[n] = stdin[r + 1 + n - 1]
    BY <2>1, SubSeqProperties
  <2>3. s - r = IF r + 1 <= s THEN s - (r + 1) + 1 ELSE 0
    BY <1>5
  <2>4. s - (r + 1) + 1 = s - r /\ \A n \in 1 .. s - r : r + 1 + n - 1 = r + n
    OBVIOUS
  <2> HIDE DEF rest
  <2>5. QED
    BY <2>2, <2>3, <2>4
<1>10. /\ Input!Read \in Seq(Input!Keys) /\ Len(Input!Read) = k
       /\ \A n \in 1 .. k : Input!Read[n] = typed[n]
  <2>1. Input!Read = SubSeq(typed, 1, k)
    BY <1>4 DEF Input!Read, ReadKeys
  <2>2. \A n \in 1 .. k : typed[n] \in Input!Keys
    BY <1>5, <1>6
  <2>3. /\ SubSeq(typed, 1, k) \in Seq(Input!Keys)
        /\ Len(SubSeq(typed, 1, k)) = IF 1 <= k THEN k - 1 + 1 ELSE 0
        /\ \A n \in 1 .. k - 1 + 1 : SubSeq(typed, 1, k)[n] = typed[1 + n - 1]
    BY <2>2, SubSeqProperties
  <2>4. k = IF 1 <= k THEN k - 1 + 1 ELSE 0
    OBVIOUS
  <2>5. k - 1 + 1 = k /\ \A n \in 1 .. k : 1 + n - 1 = n
    OBVIOUS
  <2>6. QED
    BY <2>1, <2>3, <2>4, <2>5
<1>11. /\ all \in Seq(Input!Keys) /\ Len(all) = k + r
       /\ \A n \in 1 .. k + r : all[n] = typed[n]
  <2>1. PICK m \in Nat : m = k + r
    OBVIOUS
  <2>2. \A n \in 1 .. m : typed[n] \in Input!Keys
    BY <1>5, <1>6, <2>1
  <2>3. /\ SubSeq(typed, 1, m) \in Seq(Input!Keys)
        /\ Len(SubSeq(typed, 1, m)) = IF 1 <= m THEN m - 1 + 1 ELSE 0
        /\ \A n \in 1 .. m - 1 + 1 : SubSeq(typed, 1, m)[n] = typed[1 + n - 1]
    BY <2>2, SubSeqProperties
  <2>4. m = IF 1 <= m THEN m - 1 + 1 ELSE 0
    OBVIOUS
  <2>5. m - 1 + 1 = m /\ \A n \in 1 .. m : 1 + n - 1 = n
    OBVIOUS
  <2>6. QED
    BY <2>1, <2>3, <2>4, <2>5
<1>12. \A n \in 1 .. r : buf[n] = typed[k + n]
  BY <1>5, <1>6, <1>8
<1> HIDE DEF buf, rest, all
<1>13. all = Input!Read \o buf
  <2> DEFINE both == Input!Read \o buf
  <2>1. /\ both \in Seq(Input!Keys) /\ Len(both) = k + r
        /\ \A n \in 1 .. k : both[n] = Input!Read[n]
        /\ \A n \in 1 .. r : both[k + n] = buf[n]
    BY <1>8, <1>10
  <2> HIDE DEF both
  <2>2. ASSUME NEW n \in 1 .. k + r PROVE both[n] = all[n]
    <3>1. CASE n <= k
      <4>1. n \in 1 .. k
        BY <3>1
      <4>2. QED
        BY <1>10, <1>11, <2>1, <4>1
    <3>2. CASE ~(n <= k)
      <4>1. n - k \in 1 .. r /\ k + (n - k) = n
        BY <3>2
      <4>2. QED
        BY <1>11, <1>12, <2>1, <4>1
    <3>3. QED
      BY <3>1, <3>2
  <2>3. both = all
    BY <1>11, <2>1, <2>2, SeqEqual
  <2>4. QED
    BY <2>3 DEF both
<1>14. rest = SubSeq(stdin, Len(buf) + 1, Len(stdin))
       /\ all = SubSeq(typed, 1, ReadKeys + Len(buf))
  BY <1>3, <1>4, <1>8 DEF rest, all
<1>15. QED
  BY <1>3, <1>4, <1>5, <1>8, <1>9, <1>10, <1>12, <1>13, <1>14 DEF buf

\* A read, the loop over it and the host command with what it kept.
LEMMA WriteConsoleStep ==
    ASSUME InputInv, NEW ok \in BOOLEAN, NEW arrives \in BOOLEAN,
           Input!WriteConsole(ok, arrives)
    PROVE  InputInv'
<1> DEFINE buf == Input!ReadBuf
           st == Input!Unescape(escaped, buf)
           sends == st.stop = "break" \/ (st.stop = "no" /\ st.out # <<>>)
<1>1. InputTypes /\ escaped \in BOOLEAN /\ sent \in Seq(Input!Keys)
  BY DEF InputInv, InputTypes
<1>2. /\ ~quit /\ (ok => arrives)
      /\ escaped' = st.escaped /\ quit' = (st.stop = "quit")
      /\ connected' = (ok \/ ~sends)
      /\ sent' = IF arrives /\ sends THEN sent \o st.out ELSE sent
      /\ lost' = (lost \/ (sends /\ ~ok) \/ st.stop = "break")
      /\ stdin' = SubSeq(stdin, Len(buf) + 1, Len(stdin))
      /\ typed' = typed
  BY DEF Input!WriteConsole
<1>3. /\ buf \in Seq(Input!Keys) /\ Len(buf) \in 0 .. Len(stdin)
      /\ \A n \in 1 .. Len(buf) : buf[n] = typed[ReadKeys + n]
      /\ stdin' \in Seq(Input!Keys) /\ Len(stdin') = Len(stdin) - Len(buf)
      /\ \A n \in 1 .. Len(stdin') : stdin'[n] = stdin[Len(buf) + n]
      /\ SubSeq(typed, 1, ReadKeys + Len(buf)) = Input!Read \o buf
      /\ Input!Read \in Seq(Input!Keys)
  BY <1>1, <1>2, ReadBufIs
<1>4. PICK r \in Nat : r = Len(buf)
  BY <1>3
<1> HIDE DEF buf
<1>5. /\ st \in States /\ Input!Within(st.out, buf, r)
      /\ st.out \in Seq(Input!Keys) /\ st.escaped \in BOOLEAN
      /\ st.stop \in {"no", "quit", "break"}
  BY <1>1, <1>3, <1>4, LoopWithin DEF States
<1> HIDE DEF st
<1>6. PICK k \in Nat : k = ReadKeys /\ k + Len(stdin) = Len(typed)
  <2>1. Len(typed) \in Nat /\ Len(stdin) \in Nat /\ Len(stdin) <= Len(typed)
    BY <1>1 DEF InputTypes
  <2>2. QED
    BY <2>1 DEF ReadKeys
<1>7. Len(stdin) \in Nat /\ Len(typed) \in Nat /\ r <= Len(stdin)
  BY <1>1, <1>3, <1>4 DEF InputTypes
<1>8. ReadKeys' = k + r /\ Len(stdin') = Len(stdin) - r
  <2>1. ReadKeys' = Len(typed') - Len(stdin')
    BY DEF ReadKeys
  <2>2. Len(typed') = Len(typed) /\ Len(stdin') = Len(stdin) - r
    BY <1>2, <1>3, <1>4
  <2>3. QED
    BY <1>6, <1>7, <2>1, <2>2
<1>9. Input!Within(sent', typed, k + r) /\ sent' \in Seq(Input!Keys)
  <2>1. Input!Within(sent, typed, k)
    BY <1>6 DEF InputInv
  <2>2. Input!Within(sent, typed, k + r)
    <3>1. k + r \in Nat /\ k <= k + r
      OBVIOUS
    <3>2. QED
      BY <2>1, <3>1, WithinMore
  <2>3. \A n \in 1 .. r : buf[n] = typed[k + n]
    BY <1>3, <1>4, <1>6
  <2>4. Input!Within(sent \o st.out, typed, k + r)
    BY <1>1, <1>5, <2>1, <2>3, WithinConcat
  <2>5. QED
    BY <1>1, <1>2, <1>5, <2>2, <2>4
<1>10. InputTypes'
  <2>1. ASSUME NEW n \in 1 .. Len(stdin') PROVE stdin'[n] = typed[(k + r) + n]
    <3>1. r + n \in 1 .. Len(stdin) /\ k + (r + n) = (k + r) + n
      BY <1>7, <1>8
    <3>2. stdin'[n] = stdin[r + n]
      BY <1>3, <1>4
    <3>3. stdin[r + n] = typed[k + (r + n)]
      BY <1>1, <1>6, <3>1 DEF InputTypes
    <3>4. QED
      BY <3>1, <3>2, <3>3
  <2>2. Len(stdin') <= Len(typed)
    BY <1>6, <1>7, <1>8
  <2>3. /\ connected' \in BOOLEAN /\ quit' \in BOOLEAN /\ lost' \in BOOLEAN
        /\ escaped' \in BOOLEAN
    BY <1>2, <1>5
  <2>4. QED
    BY <1>1, <1>2, <1>3, <1>8, <1>9, <2>1, <2>2, <2>3 DEF InputTypes
<1>11. ASSUME ~lost'
       PROVE  IF quit' THEN Input!Reference(Input!Read').stop = "quit"
              ELSE Input!Reference(Input!Read') = Input!State(escaped', sent', "no")
  <2>1. ~lost /\ st.stop # "break" /\ (sends => ok)
    BY <1>2, <1>11
  <2>2. Input!Reference(Input!Read) = Input!State(escaped, sent, "no")
    BY <1>2, <2>1 DEF InputInv
  <2>3. Input!Read' = Input!Read \o buf
    <3>1. Len(typed') - Len(stdin') = k + r
      BY <1>8 DEF ReadKeys
    <3>2. QED
      BY <1>2, <1>3, <1>4, <1>6, <3>1 DEF Input!Read
  <2>4. Input!Reference(Input!Read \o buf) = After(sent, st)
    <3> DEFINE mid == Input!State(escaped, sent, "no")
    <3>1. mid = Input!UnescapeLoop(Input!Start(FALSE), Input!Read)[Len(Input!Read)]
      BY <2>2 DEF Input!Reference, Input!Unescape
    <3>2. Input!UnescapeLoop(Input!Start(FALSE), Input!Read \o buf)[Len(Input!Read \o buf)]
            = Input!UnescapeLoop(mid, buf)[Len(buf)]
      <4>1. PICK a \in Seq(Input!Keys) : a = Input!Read
        BY <1>3
      <4>2. PICK b \in Seq(Input!Keys) : b = buf
        BY <1>3
      <4>3. PICK start : start = Input!Start(FALSE)
        OBVIOUS
      <4> HIDE DEF mid
      <4>4. mid = Input!UnescapeLoop(start, a)[Len(a)]
        BY <3>1, <4>1, <4>3
      <4>5. Input!UnescapeLoop(start, a \o b)[Len(a \o b)]
              = Input!UnescapeLoop(mid, b)[Len(b)]
        BY <4>4, LoopOverTwo
      <4>6. QED
        BY <4>1, <4>2, <4>3, <4>5
    <3>3. Input!UnescapeLoop(mid, buf)[Len(buf)] = After(sent, st)
      BY <1>1, <1>3, LoopAfter DEF st
    <3>4. QED
      BY <3>2, <3>3 DEF Input!Reference, Input!Unescape
  <2>5. CASE st.stop = "quit"
    <3>1. After(sent, st).stop = "quit"
      BY <2>5 DEF After, Input!State
    <3>2. quit'
      BY <1>2, <2>5
    <3>3. QED
      BY <2>3, <2>4, <3>1, <3>2
  <2>6. CASE st.stop = "no"
    <3>1. sent' = sent \o st.out
      <4>1. CASE sends
        BY <1>2, <2>1, <4>1
      <4>2. CASE ~sends
        <5>1. st.out = <<>>
          BY <2>6, <4>2
        <5>2. sent \o <<>> = sent
          BY <1>1
        <5>3. QED
          BY <1>2, <4>2, <5>1, <5>2
      <4>3. QED
        BY <4>1, <4>2
    <3>2. After(sent, st) = Input!State(st.escaped, sent \o st.out, "no")
      BY <2>6 DEF After
    <3>3. ~quit'
      BY <1>2, <2>6
    <3>4. QED
      BY <1>2, <2>3, <2>4, <3>1, <3>2, <3>3
  <2>7. QED
    BY <1>5, <2>1, <2>5, <2>6
<1>12. Input!Reference(Input!Read)' = Input!Reference(Input!Read')
  BY DEF Input!Reference, Input!Unescape, Input!UnescapeLoop
<1>13. QED
  BY <1>2, <1>8, <1>9, <1>10, <1>11, <1>12 DEF InputInv

\* Every step of the user, the console and its connection keeps the invariant.
LEMMA InputStep == InputInv /\ [Input!Next]_inputVars => InputInv'
<1> SUFFICES ASSUME InputInv, [Input!Next]_inputVars PROVE InputInv'
  OBVIOUS
<1>1. CASE Input!ConnectionFails \/ Input!Reconnect \/ UNCHANGED inputVars
  <2>1. /\ UNCHANGED <<typed, stdin, escaped, quit, sent, breaks, lost>>
        /\ connected' \in BOOLEAN
    BY <1>1 DEF Input!ConnectionFails, Input!Reconnect, inputVars, InputInv,
                InputTypes
  <2>2. ReadKeys' = ReadKeys /\ Input!Read' = Input!Read
    BY <2>1 DEF ReadKeys, Input!Read
  <2>3. Input!Reference(Input!Read)' = Input!Reference(Input!Read)
    BY <2>2 DEF Input!Reference, Input!Unescape, Input!UnescapeLoop
  <2>4. QED
    BY <2>1, <2>2, <2>3 DEF InputInv, InputTypes
<1>2. QED
  BY <1>1, TypeStep, WriteConsoleStep DEF Input!Next

\* The invariant of typing into the console holds always.
THEOREM InputInvariant == MCSpec => []InputInv
<1>1. MCInit => InputInv
  BY InputInit DEF MCInit
<1>2. InputInv /\ [Steps]_<<vars, inputVars>> => InputInv'
  <2>1. [Steps]_<<vars, inputVars>> => [Input!Next]_inputVars
    BY DEF Steps
  <2>2. QED
    BY <2>1, InputStep
<1>3. QED
  BY <1>1, <1>2, PTL DEF MCSpec

\* libhoth_write_console() sends what unescape() would make of everything typed
\* in one read, wherever the reads cut it, while nothing fails; and when a host
\* command fails, it never sends a key out of order or twice.
THEOREM InputStaysFaithful == MCSpec => []InputIsFaithful
<1>1. InputInv => InputIsFaithful
  <2> SUFFICES ASSUME InputInv PROVE Input!CutsMakeNoDifference /\ Input!SentWasTyped
    BY DEF InputIsFaithful, Input!InputIsFaithful
  <2>1. Input!CutsMakeNoDifference
    <3>1. /\ Input!State(escaped, sent, "no").stop = "no"
          /\ Input!State(escaped, sent, "no").out = sent
          /\ Input!State(escaped, sent, "no").escaped = escaped
      BY DEF Input!State
    <3>2. CASE quit
      BY <3>2 DEF InputInv, Input!CutsMakeNoDifference
    <3>3. CASE ~quit
      BY <3>1, <3>3 DEF InputInv, Input!CutsMakeNoDifference
    <3>4. QED
      BY <3>2, <3>3
  <2>2. Input!SentWasTyped
    <3>1. ReadKeys \in Nat /\ Len(typed) \in Nat /\ ReadKeys <= Len(typed)
      BY DEF InputInv, InputTypes, ReadKeys
    <3>2. QED
      BY <3>1, WithinMore DEF InputInv, Input!SentWasTyped
  <2>3. QED
    BY <2>1, <2>2
<1>2. QED
  BY <1>1, InputInvariant, PTL
=============================================================================
