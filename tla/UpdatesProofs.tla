--------------------------- MODULE UpdatesProofs ----------------------------
(***************************************************************************)
(* Proofs about the modules the updates run composes, for any records,     *)
(* files, images, sizes and limits: whatever fails and wherever the tool   *)
(* dies, the active half of the key area is a whole record (KeyRotation);  *)
(* a read returns exactly what was asked for (KeyRotation, ChunkRead); the *)
(* SPI flash holds the file and nothing else has changed but the rest of   *)
(* the sectors it touches (SpiProxy); the RoT never boots a torn slot, a   *)
(* successful install has installed, and the updates that are counted      *)
(* suffice (DfuInstall).  The theorems about Provisioning, proved in a     *)
(* module of their own, are carried over to the composition.               *)
(***************************************************************************)
EXTENDS MCUpdates, TLAPS

Images == [record : Records, size : Sizes]

\* The staging half holds the first offset bytes of the image and is blank
\* after them.
Staged ==
    staging = [a \in Area |-> IF a < offset THEN ByteOf(image, a) ELSE Erased]

\* An update that has sent INITIATE has a valid image and has staged what it
\* has written of it; at COMMIT that is all of it.
Updating ==
    /\ pc \in {"initiate", "write", "commit"} =>
          /\ image \in Images /\ ~SizeInvalid(image.size)
          /\ read = NoRead
    /\ pc = "initiate" => offset = 0
    /\ pc = "write" => offset \in 0 .. image.size - 1 /\ Staged
    /\ pc = "commit" => offset = image.size /\ Staged

\* The n bytes of a half from a given one on.
Slice(half, from, n) == [k \in 1 .. n |-> half[from + k - 1]]

\* What a read has returned of the half it reads.
Fetched ==
    /\ offset \in Nat
    /\ offset > 0 => read.from + offset <= AreaSize
    /\ data = Slice(Half, read.from, offset)

\* A read that goes on is of a valid size, and no update is under way.
Reading ==
    pc = "read" =>
        /\ read \in [half : {"active", "staging"}, from : 0 .. Space - 1,
                     size : 1 .. AreaSize]
        /\ image = NoImage
        /\ offset < read.size
        /\ Fetched

\* Between two calls nothing of the last one is left.
Quiet ==
    /\ pc = "idle" => image = NoImage /\ read = NoRead /\ data = <<>>
    /\ pc # "returned" => result = "none"

\* The inductive invariant.
KeyInv ==
    /\ Updating /\ Reading /\ Quiet
    /\ ActiveIsWhole /\ SuccessActivates /\ ReadIsExact
    /\ result # "none" => pc = "returned"

-----------------------------------------------------------------------------
(* What the operators compute                                              *)

\* The constants are numbers, and so is the size of an image.
LEMMA ConstantsAreNumbers ==
    /\ AreaSize \in Nat /\ WriteMax \in Nat /\ ReadMax \in Nat /\ Space \in Nat
    /\ AreaSize > 0 /\ WriteMax > 0 /\ ReadMax > 0 /\ AreaSize < Space
    /\ SignatureSize \in Nat
  BY KeyRotationAssumption

\* libhoth_key_rotation_update() is given a size that is a number.
LEMMA ImageSizeIsNat ==
    ASSUME NEW img \in Images PROVE img.size \in Nat
<1>1. img.size \in Sizes
  BY DEF Images
<1>2. QED
  BY <1>1, KeyRotationAssumption, Zenon

\* Writing the next n bytes of the image to a half that is blank after the
\* first offset extends what is staged by n bytes.
LEMMA WrittenExtends ==
    ASSUME Staged, offset \in Nat, NEW n \in Nat
    PROVE  Written(staging, offset, n, image) =
              [a \in Area |-> IF a < offset + n THEN ByteOf(image, a)
                                               ELSE Erased]
<1> DEFINE W == Written(staging, offset, n, image)
           V == [a \in Area |-> IF a < offset + n THEN ByteOf(image, a)
                                                  ELSE Erased]
<1>1. Area \subseteq Int
  BY KeyRotationAssumption DEF Area
<1>2. ASSUME NEW a \in Area PROVE W[a] = V[a]
  <2>1. staging[a] = IF a < offset THEN ByteOf(image, a) ELSE Erased
    BY DEF Staged
  <2>2. CASE a < offset
    BY <1>1, <2>1, <2>2 DEF Written
  <2>3. CASE ~(a < offset) /\ a < offset + n
    BY <1>1, <2>1, <2>3 DEF Written
  <2>4. CASE ~(a < offset + n)
    BY <1>1, <2>1, <2>4 DEF Written
  <2>5. QED
    BY <1>1, <2>2, <2>3, <2>4
<1>3. QED
  BY <1>2 DEF Written

\* A packet is not empty while bytes are left, and not longer than they are.
LEMMA PacketSizeRange ==
    ASSUME image \in Images, offset \in 0 .. image.size - 1
    PROVE  PacketSize \in 1 .. image.size - offset
<1>1. image.size \in Nat
  BY ImageSizeIsNat
<1>2. QED
  BY <1>1, ConstantsAreNumbers DEF PacketSize

\* An offset inside the area is not changed by being sent as 16 bits.
LEMMA PacketOffsetExact ==
    ASSUME NEW a \in Nat, a < Space
    PROVE  a % Space = a
  BY KeyRotationAssumption

\* A packet appended to what was fetched is what is fetched up to its end.
LEMMA FetchedExtends ==
    ASSUME NEW f, NEW m \in Nat, NEW n \in Nat, NEW from \in Nat
    PROVE  Slice(f, from, m) \o Slice(f, from + m, n) = Slice(f, from, m + n)
<1> DEFINE s == Slice(f, from, m)
           t == Slice(f, from + m, n)
<1>1. s \in Seq({f[x] : x \in Int}) /\ t \in Seq({f[x] : x \in Int})
  BY DEF Slice
<1>2. Len(s) = m /\ Len(t) = n
  BY DEF Slice
<1>3. QED
  BY <1>1, <1>2 DEF Slice

-----------------------------------------------------------------------------
(* The invariant holds initially and is kept by every step.                *)

\* Nothing is staged, fetched or active at the start.
LEMMA KeyInit == Init => KeyInv
  BY DEF Init, KeyInv, Updating, Reading, Quiet, ActiveIsWhole,
         SuccessActivates, ReadIsExact

\* An update that goes on, or fails, leaves the active half alone.
LEMMA UpdateStep ==
    ASSUME KeyInv,
           \/ \E img \in Images : Update(img)
           \/ Initiate \/ InitiateFails
           \/ WritePacket \/ WritePacketFails
    PROVE  KeyInv'
<1>1. CASE \E img \in Images : Update(img)
  BY <1>1 DEF KeyInv, Update, Return, Updating, Reading, Quiet, ActiveIsWhole,
              SuccessActivates, ReadIsExact
<1>2. CASE Initiate
  <2>1. image \in Images /\ ~SizeInvalid(image.size) /\ offset = 0
    BY <1>2 DEF KeyInv, Updating, Initiate
  <2>2. image.size \in Nat /\ image.size > 0
    BY <2>1, ImageSizeIsNat, ConstantsAreNumbers DEF SizeInvalid
  <2>3. Staged'
    <3>1. staging' = Blank /\ offset' = 0
      BY <1>2, <2>1 DEF Initiate
    <3>2. \A a \in Area : ~(a < 0)
      BY KeyRotationAssumption DEF Area
    <3>3. QED
      BY <3>1, <3>2 DEF Staged, Blank
  <2>4. Updating'
    BY <1>2, <2>1, <2>2, <2>3 DEF KeyInv, Updating, Initiate
  <2>5. QED
    BY <1>2, <2>4 DEF KeyInv, Initiate, Reading, Quiet, ActiveIsWhole,
                      SuccessActivates, ReadIsExact
<1>3. CASE WritePacket
  <2>1. /\ image \in Images /\ ~SizeInvalid(image.size)
        /\ offset \in 0 .. image.size - 1 /\ Staged
    BY <1>3 DEF KeyInv, Updating, WritePacket
  <2>2. PacketSize \in 1 .. image.size - offset /\ image.size \in Nat
    BY <2>1, PacketSizeRange, ImageSizeIsNat
  <2>3. Staged' /\ offset' \in 1 .. image.size
    BY <1>3, <2>1, <2>2, WrittenExtends DEF WritePacket, Staged
  <2>4. Updating'
    BY <1>3, <2>1, <2>2, <2>3 DEF KeyInv, Updating, WritePacket
  <2>5. QED
    BY <1>3, <2>4 DEF KeyInv, WritePacket, Reading, Quiet, ActiveIsWhole,
                      SuccessActivates, ReadIsExact
<1>4. CASE InitiateFails \/ WritePacketFails
  BY <1>4 DEF KeyInv, InitiateFails, WritePacketFails, Return, Updating,
              Reading, Quiet, ActiveIsWhole, SuccessActivates, ReadIsExact
<1>5. QED
  BY <1>1, <1>2, <1>3, <1>4

\* A commit, carried out whether or not it is reported so, copies a half that
\* holds all of the image and nothing else.
LEMMA CommitStep ==
    ASSUME KeyInv, Commit \/ CommitFails
    PROVE  KeyInv'
<1>1. /\ image \in Images /\ ~SizeInvalid(image.size) /\ read = NoRead
      /\ staging = Whole(image)
  BY DEF KeyInv, Updating, Commit, CommitFails, Staged, Whole
<1>2. active' \in {active, staging} /\ image' = image /\ read' = NoRead
  BY <1>1 DEF Commit, CommitFails
<1>3. ActiveIsWhole'
  BY <1>1, <1>2 DEF KeyInv, ActiveIsWhole, Images
<1>4. SuccessActivates'
  BY <1>1, <1>2 DEF Commit, CommitFails, Return, SuccessActivates
<1>5. ReadIsExact'
  BY <1>2 DEF ReadIsExact
<1>6. QED
  BY <1>3, <1>4, <1>5
     DEF KeyInv, Commit, CommitFails, Return, Updating, Reading, Quiet

\* A read is checked by the RoT packet by packet.
LEMMA ReadStep ==
    ASSUME KeyInv,
           \/ \E half \in {"active", "staging"}, from \in 0 .. Space - 1,
                 n \in 0 .. AreaSize + 1 : Read(half, from, n)
           \/ ReadPacket \/ ReadPacketFails
    PROVE  KeyInv'
<1>1. CASE \E half \in {"active", "staging"}, from \in 0 .. Space - 1,
              n \in 0 .. AreaSize + 1 : Read(half, from, n)
  <2>1. PICK half \in {"active", "staging"}, from \in 0 .. Space - 1,
             n \in 0 .. AreaSize + 1 : Read(half, from, n)
    BY <1>1
  <2>2. image' = NoImage /\ data' = <<>> /\ offset' = 0
    BY <2>1 DEF KeyInv, Quiet, Read
  <2>3. Reading'
    <3>1. SUFFICES ASSUME pc' = "read"
                   PROVE  /\ read' \in [half : {"active", "staging"},
                                        from : 0 .. Space - 1,
                                        size : 1 .. AreaSize]
                          /\ image' = NoImage /\ offset' < read'.size
                          /\ Fetched'
      BY DEF Reading
    <3>2. n \in 1 .. AreaSize
      BY <2>1, <3>1, KeyRotationAssumption DEF Read, Return
    <3>3. Fetched'
      BY <2>2 DEF Fetched, Slice
    <3>4. QED
      BY <2>1, <2>2, <3>2, <3>3 DEF Read
  <2>4. QED
    BY <2>1, <2>2, <2>3 DEF KeyInv, Read, Return, Updating, Quiet,
                            ActiveIsWhole, SuccessActivates, ReadIsExact
<1>2. CASE ReadPacket
  <2> DEFINE left == read.size - offset
             n == IF left > ReadMax THEN ReadMax ELSE left
  <2>1. /\ read \in [half : {"active", "staging"}, from : 0 .. Space - 1,
                     size : 1 .. AreaSize]
        /\ image = NoImage /\ offset < read.size /\ Fetched
    BY <1>2 DEF KeyInv, Reading, ReadPacket
  <2>2. n \in 1 .. left /\ read.from \in Nat /\ offset \in Nat /\ read.size \in Nat
    BY <2>1, KeyRotationAssumption DEF Fetched
  <2>3. PacketOffset = read.from + offset
    <3>1. read.from + offset < Space
      BY <2>1, <2>2, KeyRotationAssumption DEF Fetched
    <3>2. QED
      BY <2>2, <3>1, PacketOffsetExact DEF PacketOffset
  <2>4. read.from + offset + n <= AreaSize /\ offset' = offset + n
    BY <1>2, <2>2, <2>3 DEF ReadPacket
  <2>5. data' = Slice(Half, read.from, offset + n)
    <3>1. data' = data \o Slice(Half, read.from + offset, n)
      BY <1>2, <2>2, <2>3 DEF ReadPacket, Slice
    <3>2. n \in Nat
      BY <2>2
    <3>3. data = Slice(Half, read.from, offset)
      BY <2>1 DEF Fetched
    <3> HIDE DEF n
    <3>4. QED
      BY <2>2, <3>1, <3>2, <3>3, FetchedExtends, ZenonT(40)
  <2>6. UNCHANGED <<active, staging, image, read, Half>>
    BY <1>2 DEF ReadPacket, Half
  <2>7. Fetched'
    BY <2>2, <2>4, <2>5, <2>6 DEF Fetched
  <2>8. n = left \/ n < left
    BY <2>2
  <2>9. IF n = left THEN Return("ok") ELSE UNCHANGED <<pc, result>>
    BY <1>2 DEF ReadPacket
  <2>10. Reading' /\ ReadIsExact'
    <3> HIDE DEF n
    <3>1. CASE n = left
      <4>1. offset' = read.size /\ read.from + read.size <= AreaSize
        BY <2>2, <2>4, <3>1
      <4>2. QED
        BY <2>5, <2>6, <2>4, <2>9, <3>1, <4>1
           DEF Return, Reading, ReadIsExact, Slice
    <3>2. CASE n < left
      <4>1. offset' < read.size /\ pc' = pc /\ result' = result
        BY <2>2, <2>4, <2>9, <3>2
      <4>2. result' # "ok"
        BY <1>2, <4>1 DEF KeyInv, Quiet, ReadPacket
      <4>3. QED
        BY <2>1, <2>6, <2>7, <4>1, <4>2 DEF Reading, ReadIsExact
    <3>3. QED
      BY <2>8, <3>1, <3>2
  <2>11. QED
    BY <1>2, <2>1, <2>6, <2>10
       DEF KeyInv, ReadPacket, Return, Updating, Quiet, ActiveIsWhole,
           SuccessActivates
<1>3. CASE ReadPacketFails
  BY <1>3 DEF KeyInv, ReadPacketFails, Return, Updating, Reading, Quiet,
              ActiveIsWhole, SuccessActivates, ReadIsExact
<1>4. QED
  BY <1>1, <1>2, <1>3

\* Every step of an update, a read or the tool's end keeps the invariant.
LEMMA KeyStep == KeyInv /\ [Next]_vars => KeyInv'
<1> SUFFICES ASSUME KeyInv, [Next]_vars PROVE KeyInv'
  OBVIOUS
<1>1. CASE Next
  <2>1. CASE Exit
    BY <2>1 DEF KeyInv, Exit, Updating, Reading, Quiet, ActiveIsWhole,
                SuccessActivates, ReadIsExact
  <2>2. QED
    BY <1>1, <2>1, UpdateStep, CommitStep, ReadStep DEF Next, Images
<1>2. CASE UNCHANGED vars
  BY <1>2 DEF vars, KeyInv, Updating, Staged, Reading, Fetched, Half, Quiet,
              ActiveIsWhole, SuccessActivates, ReadIsExact
<1>3. QED
  BY <1>1, <1>2

\* The invariant of libhoth_key_rotation_update() and _read() holds always.
THEOREM KeyInvariant == Spec => []KeyInv
  BY KeyInit, KeyStep, PTL DEF Spec

\* Nothing but one whole record is ever active, after any sequence of updates
\* that fail, are interrupted or succeed; and an update that returns 0 has
\* made its record the active one (libhoth_key_rotation_update()).
THEOREM RecordStaysWhole == Spec => []RecordIsWhole
<1>1. KeyInv => RecordIsWhole
  BY DEF KeyInv, RecordIsWhole
<1>2. QED
  BY <1>1, KeyInvariant, PTL

\* libhoth_key_rotation_read() returns 0 only with the bytes asked for, all of
\* them inside the area, whatever offset it was given.
THEOREM ReadsStayExact == Spec => []ReadIsExact
<1>1. KeyInv => ReadIsExact
  BY DEF KeyInv
<1>2. QED
  BY <1>1, KeyInvariant, PTL

-----------------------------------------------------------------------------
(* Reading a chunk of the record                                           *)

\* The bytes that the call asks for.
Wanted == IF args.size = 0 THEN Chunk!LengthOf(chunk) - args.offset
                           ELSE args.size

\* The chunk's bytes that packets have brought, the lengths between them
\* overwritten.
Arrived ==
    \A k \in (0 .. read_offset - 1) \ missing :
        response[k] = chunk[args.offset + k]

\* The loop of libhoth_key_rotation_read_chunk_type(): until the first response
\* a size of zero is one; then what is left and what is done make up what the
\* call asks for, unless the offset lies behind the chunk's end: then the loop
\* stops at its next turn.
ChunkLoop ==
    chunk_pc = "read" =>
        /\ chunk \in Chunk!ChunkValues
        /\ args \in [offset : 0 .. AreaSize - 1, size : Nat]
        /\ read_offset \in Nat /\ read_size \in Nat
        /\ \/ read_size = 0 /\ read_offset = 0 /\ args.size = 0
           \/ read_size > 0 /\ read_offset + read_size = Wanted
           \/ read_size > 0 /\ Chunk!TooFar
        /\ Arrived

\* The inductive invariant of the chunked read.
ChunkInv ==
    /\ ChunkLoop /\ Chunk!ReadIsExact
    /\ chunk_result # "none" => chunk_pc = "returned"

\* The length of a chunk is one of the lengths.
LEMMA LengthOfChunk ==
    ASSUME NEW c \in Chunk!ChunkValues
    PROVE  Chunk!LengthOf(c) \in 0 .. AreaSize
<1>1. PICK n \in ChunkLengths : c \in [0 .. n - 1 -> Bytes]
  BY DEF Chunk!ChunkValues
<1>2. \E m \in ChunkLengths : DOMAIN c = 0 .. m - 1
  BY <1>1
<1>3. Chunk!LengthOf(c) \in ChunkLengths
  BY <1>2 DEF Chunk!LengthOf
<1>4. QED
  BY <1>3, UpdatesAssumption DEF Chunk!ChunkAssumption

\* A difference of two sizes as 16 bits: itself, or wrapped around.
LEMMA SizeWraps ==
    ASSUME NEW w \in Nat, NEW d \in Int, -w < d, d < w
    PROVE  d % w = IF d >= 0 THEN d ELSE d + w
  OBVIOUS

\* What a turn has left to read, before it advances: what the call asks for
\* beyond the turns before, or more than the area holds.
LEMMA ChunkTotal ==
    ASSUME ChunkInv, NEW n \in 0 .. ChunkPacketMax, Chunk!ReadPacket(n)
    PROVE  /\ Chunk!Total(n) \in Nat
           /\ \/ read_offset + Chunk!Total(n) = Wanted
              \/ read_offset = 0 /\ Chunk!Total(n) > AreaSize
<1> DEFINE L == Chunk!LengthOf(chunk)
<1>1. /\ chunk \in Chunk!ChunkValues
      /\ args.offset \in 0 .. AreaSize - 1 /\ args.size \in Nat
      /\ read_offset \in Nat /\ read_size \in Nat
      /\ \/ read_size = 0 /\ read_offset = 0 /\ args.size = 0
         \/ read_size > 0 /\ read_offset + read_size = Wanted
  BY DEF ChunkInv, ChunkLoop, Chunk!ReadPacket
<1>2. /\ L \in 0 .. AreaSize /\ AreaSize \in Nat
      /\ ChunkPacketMax \in 1 .. AreaSize
      /\ ChunkWidth \in Nat /\ ChunkWidth > AreaSize + (AreaSize - 1)
  BY <1>1, LengthOfChunk, UpdatesAssumption DEF Chunk!ChunkAssumption
<1>3. CASE read_size = 0 /\ read_offset = 0 /\ args.size = 0
  <2>1. Chunk!ChunkLength(n) = L
    BY <1>2, <1>3 DEF Chunk!ChunkLength, Chunk!Received, Chunk!Cells
  <2>2. Chunk!Total(n) = (L - args.offset) % ChunkWidth
    BY <1>3, <2>1 DEF Chunk!Total
  <2>3. /\ L - args.offset \in Int
        /\ -ChunkWidth < L - args.offset /\ L - args.offset < ChunkWidth
    BY <1>1, <1>2
  <2>4. Chunk!Total(n) = IF L - args.offset >= 0 THEN L - args.offset
                         ELSE L - args.offset + ChunkWidth
    BY <1>2, <2>2, <2>3, SizeWraps
  <2>5. QED
    BY <1>1, <1>2, <1>3, <2>4 DEF Wanted
<1>4. CASE read_size > 0 /\ read_offset + read_size = Wanted
  BY <1>1, <1>4 DEF Chunk!Total
<1>5. QED
  BY <1>1, <1>3, <1>4

\* One response: the length behind the first one is the chunk's own, and every
\* later packet overwrites the length behind the one before.
LEMMA ChunkPacket ==
    ASSUME ChunkInv, NEW n \in 0 .. ChunkPacketMax, Chunk!ReadPacket(n)
    PROVE  ChunkInv'
<1> DEFINE packet == Chunk!PacketSize(n)
<1>1. /\ chunk \in Chunk!ChunkValues
      /\ args \in [offset : 0 .. AreaSize - 1, size : Nat]
      /\ read_offset \in Nat /\ read_size \in Nat
      /\ read_offset + read_size <= AreaSize
      /\ Arrived
      /\ chunk_result = "none" /\ chunk_pc = "read"
  BY UpdatesAssumption
     DEF ChunkInv, ChunkLoop, Chunk!ReadPacket, Chunk!TooFar, Chunk!ChunkAssumption
<1>2. /\ response' = Chunk!Received(n)
      /\ chunk' = chunk /\ args' = args
      /\ missing' = missing \union (read_offset + n .. read_offset + packet - 1)
  BY DEF Chunk!ReadPacket
<1>3. /\ Chunk!LengthOf(chunk) \in 0 .. AreaSize
      /\ AreaSize \in Nat /\ ChunkPacketMax \in 1 .. AreaSize
  BY <1>1, LengthOfChunk, UpdatesAssumption DEF Chunk!ChunkAssumption
<1>4. /\ Chunk!Total(n) \in Nat
      /\ \/ read_offset + Chunk!Total(n) = Wanted
         \/ read_offset = 0 /\ Chunk!Total(n) > AreaSize
      /\ packet = Chunk!MinOf(Chunk!Total(n), ChunkPacketMax)
  BY ChunkTotal DEF Chunk!PacketSize
<1>5. packet \in 0 .. ChunkPacketMax /\ packet <= Chunk!Total(n)
  BY <1>3, <1>4 DEF Chunk!MinOf
<1>6. \A k \in (0 .. read_offset + packet - 1) \ missing' :
          response'[k] = chunk[args.offset + k]
  <2> SUFFICES ASSUME NEW k \in 0 .. read_offset + packet - 1, k \notin missing'
               PROVE  response'[k] = chunk[args.offset + k]
    OBVIOUS
  <2>1. k < read_offset + n /\ k \notin missing
    BY <1>1, <1>2, <1>5
  <2>2. k \in Chunk!Cells
    BY <1>1, <1>3, <2>1 DEF Chunk!Cells
  <2>3. CASE k < read_offset
    <3>1. Chunk!Received(n)[k] = response[k]
      BY <1>1, <2>2, <2>3 DEF Chunk!Received
    <3>2. QED
      BY <1>1, <1>2, <2>1, <2>3, <3>1 DEF Arrived
  <2>4. CASE ~(k < read_offset)
    <3>1. Chunk!Received(n)[k] = chunk[Chunk!At + k - read_offset]
      BY <1>1, <2>1, <2>2, <2>4 DEF Chunk!Received
    <3>2. Chunk!At + k - read_offset = args.offset + k
      BY <1>1 DEF Chunk!At
    <3>3. QED
      BY <1>2, <3>1, <3>2
  <2>5. QED
    BY <2>3, <2>4
<1>7. CASE Chunk!ChunkLength(n) < StructSize
  BY <1>7 DEF Chunk!ReadPacket, Chunk!Return, ChunkInv, ChunkLoop,
              Chunk!ReadIsExact
<1>8. CASE ~(Chunk!ChunkLength(n) < StructSize)
  <2>1. /\ read_offset' = read_offset + packet
        /\ read_size' = Chunk!Total(n) - packet
        /\ IF read_size' = 0 THEN Chunk!Return("ok")
                             ELSE UNCHANGED <<chunk_pc, chunk_result>>
    BY <1>8 DEF Chunk!ReadPacket
  <2>2. Wanted \in Int /\ Wanted' = Wanted
    BY <1>1, <1>2, <1>3 DEF Wanted
  <2>3. read_offset' \in Nat /\ read_size' \in Nat
    BY <1>1, <1>3, <1>4, <1>5, <2>1
  <2>4. Arrived'
    <3>1. read_offset' = read_offset + packet /\ chunk' = chunk /\ args' = args
      BY <1>2, <2>1
    <3>2. ASSUME NEW k \in (0 .. read_offset' - 1) \ missing'
          PROVE  response'[k] = chunk'[args'.offset + k]
      <4>1. k \in (0 .. read_offset + packet - 1) \ missing'
        BY <1>1, <1>3, <1>5, <2>3, <3>1
      <4>2. response'[k] = chunk[args.offset + k]
        BY <1>6, <4>1
      <4>3. QED
        BY <3>1, <4>2
    <3>3. QED
      BY <3>2 DEF Arrived
  <2>5. \/ read_offset' + read_size' = Wanted'
        \/ read_size' > 0 /\ read_offset' + read_size' > AreaSize
    BY <1>1, <1>3, <1>4, <1>5, <2>1, <2>2
  <2>6. CASE read_size' = 0
    <3>0. Chunk!Total(n) = packet
      BY <1>4, <1>5, <2>1, <2>6
    <3>1. read_offset' = Wanted'
      BY <1>1, <1>3, <1>4, <1>5, <2>1, <2>2, <3>0
    <3>2. Chunk!ReadIsExact'
      BY <2>4, <3>1 DEF Chunk!ReadIsExact, Wanted, Arrived
    <3>3. QED
      BY <2>1, <2>6, <3>2 DEF ChunkInv, ChunkLoop, Chunk!Return
  <2>7. CASE read_size' # 0
    <3>1. read_size' > 0
      BY <2>3, <2>7
    <3>2. Chunk!TooFar' <=> read_offset' + read_size' > AreaSize
      BY DEF Chunk!TooFar
    <3>3. chunk_result' = "none" /\ chunk_pc' = "read"
      BY <1>1, <2>1, <2>7
    <3>4. ChunkLoop'
      BY <1>1, <1>2, <2>3, <2>4, <2>5, <3>1, <3>2 DEF ChunkLoop
    <3>5. QED
      BY <3>3, <3>4 DEF ChunkInv, Chunk!ReadIsExact
  <2>8. QED
    BY <2>6, <2>7
<1>9. QED
  BY <1>7, <1>8

\* Calls, failures and the tool's end keep the invariant as well.
LEMMA ChunkStep == ChunkInv /\ [Chunk!Next]_chunkVars => ChunkInv'
<1> SUFFICES ASSUME ChunkInv, [Chunk!Next]_chunkVars PROVE ChunkInv'
  OBVIOUS
<1>1. ASSUME NEW c \in Chunk!ChunkValues, NEW o \in 0 .. AreaSize,
             NEW s \in 0 .. AreaSize, Chunk!Call(c, o, s)
      PROVE  ChunkInv'
  <2>1. /\ chunk' = c /\ args' = [offset |-> o, size |-> s]
        /\ read_offset' = 0 /\ read_size' = s
        /\ \/ chunk_pc' = "returned" /\ chunk_result' = "invalid"
           \/ /\ chunk_pc' = "read" /\ chunk_result' = chunk_result
              /\ ~(o > AreaSize - 1)
    BY <1>1 DEF Chunk!Call, Chunk!Return
  <2>2. o \in Nat /\ s \in Nat /\ AreaSize \in Nat
    BY UpdatesAssumption DEF Chunk!ChunkAssumption
  <2>3. /\ chunk_pc' = "read" => args' \in [offset : 0 .. AreaSize - 1, size : Nat]
        /\ Arrived'
    BY <2>1, <2>2 DEF Arrived
  <2>4. \/ read_size' = 0 /\ read_offset' = 0 /\ args'.size = 0
        \/ read_size' > 0 /\ read_offset' + read_size' = Wanted'
    BY <2>1, <2>2 DEF Wanted
  <2>5. chunk_result = "none"
    BY <1>1 DEF ChunkInv, Chunk!Call
  <2>6. QED
    BY <2>1, <2>2, <2>3, <2>4, <2>5 DEF ChunkInv, ChunkLoop, Chunk!ReadIsExact
<1>2. CASE Chunk!ReadPacketFails
  BY <1>2 DEF Chunk!ReadPacketFails, Chunk!Return, ChunkInv, ChunkLoop,
              Chunk!ReadIsExact
<1>3. CASE Chunk!Exit
  BY <1>3 DEF Chunk!Exit, ChunkInv, ChunkLoop, Chunk!ReadIsExact
<1>4. CASE UNCHANGED chunkVars
  BY <1>4 DEF chunkVars, ChunkInv, ChunkLoop, Arrived, Wanted,
              Chunk!TooFar, Chunk!ReadIsExact
<1>5. QED
  BY <1>1, <1>2, <1>3, <1>4, ChunkPacket DEF Chunk!Next

\* A read of the record that returns 0 has left exactly the bytes asked for in
\* the caller's buffer (libhoth_key_rotation_read()); a read of a chunk, as many
\* as asked for, each one that a packet brought in its place: a packet that is
\* too short is only warned about (libhoth_key_rotation_read_chunk_type()).
THEOREM AllReadsExact == MCSpec => []ReadsAreExact
<1>1. MCInit => KeyInv /\ ChunkInv
  BY KeyInit DEF MCInit, Chunk!Init, ChunkInv, ChunkLoop, Chunk!ReadIsExact
<1>2. KeyInv /\ ChunkInv /\ [MCNext]_<<part, vars, chunkVars, dfuVars, spiVars, logVars>>
         => KeyInv' /\ ChunkInv'
  <2>1. [MCNext]_<<part, vars, chunkVars, dfuVars, spiVars, logVars>>
           => [Next]_vars /\ [Chunk!Next]_chunkVars
    BY DEF MCNext
  <2>2. QED
    BY <2>1, KeyStep, ChunkStep
<1>3. KeyInv /\ ChunkInv => ReadsAreExact
  BY DEF KeyInv, ChunkInv, ReadsAreExact
<1>4. QED
  BY <1>1, <1>2, <1>3, PTL DEF MCSpec

-----------------------------------------------------------------------------
(* Writing a file to the SPI flash                                         *)

Aligned(a, unit) == \E k \in Nat : a = k * unit

\* Address a is among those that step s erases or programs.
Covers(s, a) == s.at <= a /\ a < s.at + s.len

FileEnd == range.start + range.len

\* Address a lies in a sector of the range.
Touched(a) ==
    \E b \in range.start .. FileEnd - 1 :
        Spi!Truncate(a, Sector) = Spi!Truncate(b, Sector)

Steps == [kind : {"erase", "write"}, at : Nat, len : Nat, from : Nat]

SpiTypes ==
    /\ spi_pc \in {"idle", "update", "execute", "verify", "ok", "failed"}
    /\ range \in [start : Nat, len : Nat, verify : BOOLEAN, is_4_byte : BOOLEAN]
    /\ FileEnd <= Limit
    /\ spi_pc # "idle" => range.len > 0
    /\ flash \in [0 .. FlashSpace - 1 -> Int]
    /\ spi_pc = "idle" => \A a \in 0 .. FlashSpace - 1 : flash[a] = Spi!Old
    /\ op \in Seq(Steps)

\* The loop's position: the address up to which steps have been collected, and
\* the address up to which flash is erased when they have been carried out.
Position ==
    spi_pc \in {"update", "execute"} =>
        /\ len_remaining \in 0 .. range.len
        /\ addr = FileEnd - len_remaining
        /\ need_erase_addr \in 0 .. FlashSpace
        /\ len_remaining = range.len =>
              op = <<>> /\ spi_pc = "update" /\ need_erase_addr = addr
        /\ spi_pc = "update" => len_remaining > 0
        /\ len_remaining \in 1 .. range.len - 1 =>
              /\ Aligned(addr, Page) /\ Aligned(need_erase_addr, Sector)
              /\ addr <= need_erase_addr

\* The operation's buffer and table hold what the pages in them may take.
Room ==
    /\ spi_pc = "update" =>
          /\ pages_in_op \in 0 .. PagesPerOp - 1
          /\ Len(op) <= 2 * pages_in_op
          /\ op_bytes \in Nat /\ op_bytes <= pages_in_op * Spi!PageCost
    /\ spi_pc = "execute" => pages_in_op = 0

\* The steps that wait to be carried out reach sectors of the range only, and
\* write bytes of the file, in order, to where they belong.
Pending ==
    /\ \A j \in 1 .. Len(op) :
          /\ op[j].at + op[j].len <= FlashSpace
          /\ \A a \in Nat : Covers(op[j], a) => Touched(a)
          /\ op[j].kind = "write" =>
                /\ range.start <= op[j].at /\ op[j].at + op[j].len <= addr
                /\ op[j].from = op[j].at - range.start
    /\ \A h, j \in 1 .. Len(op) :
          h < j /\ op[h].kind = "write" /\ op[j].kind = "write" =>
             op[h].at + op[h].len <= op[j].at

\* Byte a is erased, or will be by one of the first n steps.
Clear(a, n) ==
    \/ flash[a] = Spi!ErasedByte
    \/ \E k \in 1 .. n : op[k].kind = "erase" /\ Covers(op[k], a)

\* What is going to be written is erased before, and so is what is left of the
\* erased sectors behind it.
ErasedFirst ==
    /\ \A j \in 1 .. Len(op) :
          op[j].kind = "write" =>
             \A a \in Nat : Covers(op[j], a) => Clear(a, j - 1)
    /\ len_remaining \in 1 .. range.len - 1 =>
          \A a \in addr .. need_erase_addr - 1 : Clear(a, Len(op))

\* Byte a holds the file's byte, as far as the chip takes it.
Holds(a) ==
    \/ flash[a] = a - range.start
    \/ flash[a] = Spi!Worn /\ a \in WornBytes

\* One of the steps after the first n will write byte a.
WillWrite(a, n) ==
    \E k \in n + 1 .. Len(op) : op[k].kind = "write" /\ Covers(op[k], a)

\* The bytes that steps were collected for are written, or will be, also after
\* each erase that waits.
WrittenLast ==
    \A a \in range.start .. addr - 1 :
        /\ Holds(a) \/ WillWrite(a, 0)
        /\ \A j \in 1 .. Len(op) :
              op[j].kind = "erase" /\ Covers(op[j], a) => WillWrite(a, j)

Programming ==
    spi_pc \in {"update", "execute"} => Pending /\ ErasedFirst /\ WrittenLast

\* The verification has found the file up to its position.
Verifying ==
    spi_pc = "verify" =>
        /\ range.verify
        /\ len_remaining \in 1 .. range.len
        /\ addr = FileEnd - len_remaining
        /\ \A a \in range.start .. addr - 1 : flash[a] = a - range.start

\* A success.
Ended ==
    spi_pc = "ok" =>
        IF range.verify
        THEN \A a \in range.start .. FileEnd - 1 : flash[a] = a - range.start
        ELSE \A a \in range.start .. FileEnd - 1 : Holds(a)

\* No byte is mixed, and the ones outside the sectors of the range are old.
FlashKept ==
    \A a \in 0 .. FlashSpace - 1 :
        flash[a] # Spi!MixedByte /\ (flash[a] # Spi!Old => Touched(a))

\* What holds of the client's loop for any range, and of the flash while the
\* addresses of the range are sent as they are.
LoopInv == SpiTypes /\ Position /\ Room
FlashInv == Programming /\ Verifying /\ Ended /\ FlashKept

\* The inductive invariant of the SPI update.
SpiInv == LoopInv /\ (Spi!Reachable => FlashInv)


-----------------------------------------------------------------------------
(* Sectors, pages and blocks                                               *)

\* Multiples grow with their factor, by at least the unit.
LEMMA Multiples ==
    ASSUME NEW h \in Nat, NEW k \in Nat, NEW unit \in Nat, h < k
    PROVE  h * unit + unit <= k * unit
<1>1. PICK d \in Nat : k = h + 1 + d
  <2>1. k - (h + 1) \in Nat /\ k = h + 1 + (k - (h + 1))
    OBVIOUS
  <2>2. QED
    BY <2>1
<1>2. k * unit = h * unit + unit + d * unit
  BY <1>1
<1>3. h * unit \in Nat /\ d * unit \in Nat
  OBVIOUS
<1>4. QED
  BY <1>2, <1>3

\* Truncating finds the multiple of the unit at or below a number.
LEMMA TruncateFacts ==
    ASSUME NEW n \in Nat, NEW unit \in Nat \ {0}
    PROVE  /\ Spi!Truncate(n, unit) \in Nat
           /\ Aligned(Spi!Truncate(n, unit), unit)
           /\ Spi!Truncate(n, unit) <= n
           /\ n < Spi!Truncate(n, unit) + unit
<1> DEFINE q == n \div unit
<1>1. q \in Nat /\ n = unit * q + (n % unit) /\ n % unit \in 0 .. unit - 1
  OBVIOUS
<1>2. unit * q = q * unit /\ q * unit \in Nat
  BY <1>1
<1>3. Spi!Truncate(n, unit) = q * unit
  BY DEF Spi!Truncate
<1> HIDE DEF q
<1>4. QED
  BY <1>1, <1>2, <1>3 DEF Aligned

\* There is only one such multiple.
LEMMA TruncateIs ==
    ASSUME NEW n \in Nat, NEW unit \in Nat \ {0}, NEW t \in Nat,
           Aligned(t, unit), t <= n, n < t + unit
    PROVE  Spi!Truncate(n, unit) = t
<1>1. PICK k \in Nat : t = k * unit
  BY DEF Aligned
<1>2. PICK h \in Nat : Spi!Truncate(n, unit) = h * unit
  BY TruncateFacts DEF Aligned
<1>3. /\ h * unit \in Nat /\ h * unit <= n /\ n < h * unit + unit
      /\ k * unit \in Nat /\ k * unit <= n /\ n < k * unit + unit
  BY <1>1, <1>2, TruncateFacts
<1>4. ~(h < k)
  BY <1>3, Multiples
<1>5. ~(k < h)
  BY <1>3, Multiples
<1>6. QED
  BY <1>1, <1>2, <1>4, <1>5

\* A multiple above another one is above it by a unit.
LEMMA AlignedAbove ==
    ASSUME NEW s \in Nat, NEW t \in Nat, NEW unit \in Nat \ {0},
           Aligned(s, unit), Aligned(t, unit), s < t
    PROVE  s + unit <= t
<1>1. PICK h \in Nat : s = h * unit
  BY DEF Aligned
<1>2. PICK k \in Nat : t = k * unit
  BY DEF Aligned
<1>3. ~(k < h)
  <2>1. h * unit \in Nat /\ k * unit \in Nat
    OBVIOUS
  <2>2. QED
    BY <1>1, <1>2, <2>1, Multiples
<1>4. h < k
  BY <1>1, <1>2, <1>3
<1>5. QED
  BY <1>1, <1>2, <1>4, Multiples

\* A unit on top of a multiple is a multiple.
LEMMA AlignedNext ==
    ASSUME NEW t \in Nat, NEW unit \in Nat, Aligned(t, unit)
    PROVE  Aligned(t + unit, unit)
<1>1. PICK k \in Nat : t = k * unit
  BY DEF Aligned
<1>2. t + unit = (k + 1) * unit /\ k + 1 \in Nat
  BY <1>1
<1>3. QED
  BY <1>2 DEF Aligned

\* A multiple of a multiple of the unit is a multiple of the unit.
LEMMA AlignedFiner ==
    ASSUME NEW t \in Nat, NEW large \in Nat, NEW unit \in Nat,
           Aligned(t, large), Aligned(large, unit)
    PROVE  Aligned(t, unit)
<1>1. PICK k \in Nat : t = k * large
  BY DEF Aligned
<1>2. PICK h \in Nat : large = h * unit
  BY DEF Aligned
<1>3. k * (h * unit) = (k * h) * unit /\ k * h \in Nat
  OBVIOUS
<1>4. QED
  BY <1>1, <1>2, <1>3 DEF Aligned

\* What the assumption says of the sizes.
LEMMA FlashSizes ==
    /\ \A n \in {FlashSpace, ShortSpace, Page, Sector, Block, PagesPerOp,
                 ReadChunk, CommandBytes} : n \in Nat \ {0}
    /\ Aligned(Sector, Page) /\ Aligned(Block, Sector)
    /\ Page <= Sector /\ Sector <= Block
    /\ Limit \in Nat /\ Limit + Block <= FlashSpace
<1>1. /\ \A n \in {FlashSpace, ShortSpace, Page, Sector, Block, PagesPerOp,
                   ReadChunk, CommandBytes} : n \in Nat \ {0}
      /\ Sector % Page = 0 /\ Block % Sector = 0
      /\ Limit \in 0 .. FlashSpace - Block
  BY UpdatesAssumption DEF Spi!SpiAssumption
<1>2. ASSUME NEW m \in Nat \ {0}, NEW unit \in Nat \ {0}, m % unit = 0
      PROVE  Aligned(m, unit) /\ unit <= m
  <2>1. m \div unit \in Nat /\ m = unit * (m \div unit)
    BY <1>2
  <2>2. Aligned(m, unit)
    BY <2>1 DEF Aligned
  <2>3. unit <= m
    BY <1>2
  <2>4. QED
    BY <2>2, <2>3
<1>3. QED
  BY <1>1, <1>2


-----------------------------------------------------------------------------
(* One turn of the loop of libhoth_spi_proxy_update()                      *)

\* Where no sum wraps around, the remainder is the number itself.
LEMMA NoWrap ==
    ASSUME NEW n \in 0 .. FlashSpace - 1
    PROVE  n % FlashSpace = n
<1>1. FlashSpace \in Nat \ {0}
  BY FlashSizes
<1>2. QED
  BY <1>1

\* An address is sent as a number, and as itself when three bytes reach it.
LEMMA OnWireNat == ASSUME NEW n \in Nat PROVE Spi!OnWire(n) \in Nat
<1>1. ShortSpace \in Nat \ {0}
  BY FlashSizes
<1>2. n % ShortSpace \in Nat
  BY <1>1
<1>3. QED
  BY <1>2 DEF Spi!OnWire

LEMMA OnWireExact ==
    ASSUME LoopInv, Spi!Reachable, NEW n \in Nat, n < FileEnd
    PROVE  Spi!OnWire(n) = n
<1>1. CASE range.is_4_byte
  BY <1>1 DEF Spi!OnWire
<1>2. CASE ~range.is_4_byte
  <2>1. range.start \in Nat /\ range.len \in Nat
    BY DEF LoopInv, SpiTypes
  <2>2. ShortSpace \in Nat \ {0} /\ n < ShortSpace
    BY <1>2, <2>1, FlashSizes DEF Spi!Reachable, FileEnd
  <2>3. n % ShortSpace = n
    BY <2>2
  <2>4. QED
    BY <1>2, <2>3 DEF Spi!OnWire
<1>3. QED
  BY <1>1, <1>2

\* The bytes of a turn end with their page or with the file.
LEMMA PageOfTurn ==
    ASSUME LoopInv, spi_pc = "update"
    PROVE  /\ addr \in Nat /\ range.start \in Nat /\ FileEnd \in Nat
           /\ range.start <= addr /\ addr + len_remaining = FileEnd
           /\ FileEnd <= Limit
           /\ Spi!PageEnd \in Nat /\ Aligned(Spi!PageEnd, Page)
           /\ addr < Spi!PageEnd /\ Spi!PageEnd <= addr + Page
           /\ Spi!WriteLen \in 1 .. len_remaining /\ Spi!WriteLen <= Page
           /\ addr + Spi!WriteLen <= Spi!PageEnd
           /\ Spi!WriteLen < len_remaining => addr + Spi!WriteLen = Spi!PageEnd
<1>1. /\ range.start \in Nat /\ range.len \in Nat /\ FileEnd \in Nat
      /\ FileEnd <= Limit /\ len_remaining \in 1 .. range.len
      /\ addr = FileEnd - len_remaining
  BY DEF LoopInv, SpiTypes, Position, FileEnd
<1>2. addr \in Nat /\ range.start <= addr /\ addr + len_remaining = FileEnd
      /\ addr < FileEnd
  BY <1>1 DEF FileEnd
<1>3. Page \in Nat \ {0} /\ addr + Page \in 0 .. FlashSpace - 1
  BY <1>1, <1>2, FlashSizes
<1>4. Spi!PageEnd = Spi!Truncate(addr + Page, Page)
  BY <1>3, NoWrap DEF Spi!PageEnd
<1>5. /\ Spi!PageEnd \in Nat /\ Aligned(Spi!PageEnd, Page)
      /\ Spi!PageEnd <= addr + Page /\ addr + Page < Spi!PageEnd + Page
  BY <1>2, <1>3, <1>4, TruncateFacts
<1>6. addr < Spi!PageEnd
  BY <1>2, <1>3, <1>5
<1>7. Spi!WriteLen = Spi!MinOf(Spi!PageEnd - addr, len_remaining)
  BY <1>6 DEF Spi!WriteLen
<1>8. QED
  BY <1>1, <1>2, <1>3, <1>5, <1>6, <1>7 DEF Spi!MinOf

\* An erase begins with the sector of the turn's first byte, which is that byte
\* except in the first turn; it reaches the end of the page and at least a
\* sector, and no sector but those of the range.
LEMMA EraseOfTurn ==
    ASSUME LoopInv, spi_pc = "update", Spi!NeedsErase
    PROVE  \E s, l \in Nat :
              /\ Spi!Erase = [step |-> Spi!EraseStep(s, l), end |-> s + l]
              /\ s <= addr /\ (addr = range.start \/ s = addr)
              /\ Spi!PageEnd <= s + l /\ s + l <= FlashSpace
              /\ Aligned(s + l, Sector)
              /\ \A a \in Nat : s <= a /\ a < s + l => Touched(a)
<1> DEFINE T == Spi!Truncate(addr, Sector)
           B == Spi!Truncate(addr, Block)
<1>1. /\ Page \in Nat \ {0} /\ Sector \in Nat \ {0} /\ Block \in Nat \ {0}
      /\ Aligned(Sector, Page) /\ Aligned(Block, Sector) /\ Sector <= Block
      /\ Limit \in Nat /\ Limit + Block <= FlashSpace /\ FlashSpace \in Nat
  BY FlashSizes
<1>2. /\ addr \in Nat /\ range.start \in Nat /\ FileEnd \in Nat
      /\ len_remaining \in Nat \ {0} /\ range.start <= addr
      /\ addr + len_remaining = FileEnd /\ FileEnd <= Limit /\ addr < FileEnd
      /\ Spi!PageEnd \in Nat /\ Aligned(Spi!PageEnd, Page)
      /\ addr < Spi!PageEnd /\ Spi!PageEnd <= addr + Page
  BY PageOfTurn DEF LoopInv, SpiTypes, Position
<1>3. /\ T \in Nat /\ Aligned(T, Sector) /\ T <= addr /\ addr < T + Sector
      /\ B \in Nat /\ Aligned(B, Block) /\ B <= addr /\ addr < B + Block
  BY <1>1, <1>2, TruncateFacts
<1> HIDE DEF T, B
<1>4. /\ Aligned(B, Sector) /\ Aligned(T + Sector, Sector)
      /\ Aligned(B + Block, Sector)
  <2>1. Aligned(B + Block, Block) /\ Aligned(T + Sector, Sector)
    BY <1>1, <1>3, AlignedNext
  <2>2. QED
    BY <1>1, <1>3, <2>1, AlignedFiner
<1>5. B <= T
  <2> SUFFICES ASSUME T < B PROVE FALSE
    BY <1>3
  <2>1. T + Sector <= B
    BY <1>1, <1>3, <1>4, AlignedAbove
  <2>2. QED
    BY <1>1, <1>2, <1>3, <2>1
<1>6. Spi!PageEnd <= T + Sector
  <2> SUFFICES ASSUME T + Sector < Spi!PageEnd PROVE FALSE
    BY <1>1, <1>2, <1>3
  <2>1. T + Sector \in Nat /\ Aligned(T + Sector, Page)
    BY <1>1, <1>3, <1>4, AlignedFiner
  <2>2. T + Sector + Page <= Spi!PageEnd
    BY <1>1, <1>2, <2>1, AlignedAbove
  <2>3. QED
    BY <1>1, <1>2, <1>3, <2>2
<1>7. addr = range.start \/ T = addr
  <2> SUFFICES ASSUME addr # range.start PROVE T = addr
    OBVIOUS
  <2>1. len_remaining \in 1 .. range.len - 1
    BY <1>2 DEF LoopInv, SpiTypes, Position, FileEnd
  <2>2. /\ Aligned(addr, Page) /\ Aligned(need_erase_addr, Sector)
        /\ addr <= need_erase_addr /\ need_erase_addr \in Nat
    BY <1>1, <2>1 DEF LoopInv, Position
  <2>3. Aligned(need_erase_addr, Page)
    BY <1>1, <2>2, AlignedFiner
  <2>4. ~(addr < need_erase_addr)
    <3> SUFFICES ASSUME addr < need_erase_addr PROVE FALSE
      OBVIOUS
    <3>1. addr + Page <= need_erase_addr
      BY <1>1, <1>2, <2>2, <2>3, AlignedAbove
    <3>2. Spi!PageEnd > need_erase_addr
      BY DEF Spi!NeedsErase
    <3>3. QED
      BY <1>1, <1>2, <2>2, <3>1, <3>2
  <2>5. Aligned(addr, Sector)
    <3>1. addr = need_erase_addr
      BY <1>2, <2>2, <2>4
    <3>2. QED
      BY <2>2, <3>1
  <2>6. Spi!Truncate(addr, Sector) = addr
    BY <1>1, <1>2, <2>5, TruncateIs
  <2>7. QED
    BY <2>6 DEF T
<1>8. \A a \in T .. T + Sector - 1 : Touched(a)
  <2> SUFFICES ASSUME NEW a \in T .. T + Sector - 1 PROVE Touched(a)
    OBVIOUS
  <2>1. Spi!Truncate(a, Sector) = T
    BY <1>1, <1>3, TruncateIs
  <2>2. addr \in range.start .. FileEnd - 1
    BY <1>2
  <2>3. QED
    BY <2>1, <2>2 DEF T, Touched
<1>9. (B + Block) % FlashSpace = B + Block /\ (T + Sector) % FlashSpace = T + Sector
  <2>1. B + Block \in 0 .. FlashSpace - 1 /\ T + Sector \in 0 .. FlashSpace - 1
    BY <1>1, <1>2, <1>3
  <2>2. QED
    BY <2>1, NoWrap
<1> DEFINE whole == /\ B >= addr \/ B = T
                    /\ B + Block <= addr + len_remaining \/ B + Block = T + Sector
<1>10. Spi!Erase = IF whole
                   THEN [step |-> Spi!EraseStep(B, Block), end |-> B + Block]
                   ELSE [step |-> Spi!EraseStep(T, Sector), end |-> T + Sector]
  BY Zenon, <1>9 DEF Spi!Erase, T, B
<1>11. CASE whole
  <2>1. B = T
    BY <1>2, <1>3, <1>5, <1>11
  <2>2. \A a \in Nat : B <= a /\ a < B + Block => Touched(a)
    <3> SUFFICES ASSUME NEW a \in Nat, B <= a, a < B + Block PROVE Touched(a)
      OBVIOUS
    <3>1. CASE a < T + Sector
      <4>1. a \in T .. T + Sector - 1
        BY <1>1, <1>3, <2>1, <3>1
      <4>2. QED
        BY <4>1, <1>8
    <3>2. CASE ~(a < T + Sector)
      <4>1. a \in range.start .. FileEnd - 1
        BY <1>1, <1>2, <1>3, <1>11, <3>2
      <4>2. QED
        BY <4>1 DEF Touched
    <3>3. QED
      BY <3>1, <3>2
  <2>3. B + Block <= FlashSpace /\ Spi!PageEnd <= B + Block /\ B <= addr
    BY <1>1, <1>2, <1>3, <1>6, <2>1
  <2>4. addr = range.start \/ B = addr
    BY <1>7, <2>1
  <2>5. Spi!Erase = [step |-> Spi!EraseStep(B, Block), end |-> B + Block]
    BY <1>10, <1>11
  <2> HIDE DEF whole
  <2>6. QED
    BY <1>1, <1>3, <1>4, <2>2, <2>3, <2>4, <2>5
<1>12. CASE ~whole
  <2>1. T + Sector <= FlashSpace
    BY <1>1, <1>2, <1>3
  <2>2. \A a \in Nat : T <= a /\ a < T + Sector => Touched(a)
    BY <1>1, <1>3, <1>8
  <2>3. Spi!Erase = [step |-> Spi!EraseStep(T, Sector), end |-> T + Sector]
    BY <1>10, <1>12
  <2> HIDE DEF whole
  <2>4. QED
    BY <1>1, <1>3, <1>4, <1>6, <1>7, <2>1, <2>2, <2>3
<1>13. QED
  BY <1>11, <1>12


\* Two steps in a row.
LEMMA TwoSteps ==
    ASSUME NEW S, NEW x \in S, NEW y \in S, NEW t, t = <<x>> \o <<y>>
    PROVE  t \in Seq(S) /\ Len(t) = 2 /\ t[1] = x /\ t[2] = y
<1>1. <<x>> \in Seq(S) /\ Len(<<x>>) = 1 /\ <<x>>[1] = x
  OBVIOUS
<1>2. <<y>> \in Seq(S) /\ Len(<<y>>) = 1 /\ <<y>>[1] = y
  OBVIOUS
<1>3. t \in Seq(S) /\ Len(t) = 2
  BY <1>1, <1>2
<1>4. QED
  BY <1>1, <1>2, <1>3

\* One sequence after another.
LEMMA Joined ==
    ASSUME NEW S, NEW s \in Seq(S), NEW t \in Seq(S)
    PROVE  /\ s \o t \in Seq(S) /\ Len(s \o t) = Len(s) + Len(t)
           /\ Len(s) \in Nat /\ Len(t) \in Nat
           /\ \A j \in 1 .. Len(s) : (s \o t)[j] = s[j]
           /\ \A j \in 1 .. Len(t) : (s \o t)[Len(s) + j] = t[j]
  OBVIOUS

\* The turn's write.
PageWrite == [kind |-> "write", at |-> Spi!OnWire(addr), len |-> Spi!WriteLen,
              from |-> addr - range.start]

\* The steps of a turn reach the addresses they are meant for.
LEMMA PageWriteSent ==
    ASSUME LoopInv, Spi!Reachable, spi_pc = "update"
    PROVE  /\ PageWrite.kind = "write" /\ PageWrite.at = addr
           /\ PageWrite.len = Spi!WriteLen
           /\ PageWrite.from = addr - range.start
<1>1. addr \in Nat /\ addr < FileEnd
  BY PageOfTurn DEF LoopInv, SpiTypes, Position
<1>2. Spi!OnWire(addr) = addr
  BY <1>1, OnWireExact
<1>3. QED
  BY <1>2 DEF PageWrite

LEMMA EraseSent ==
    ASSUME LoopInv, Spi!Reachable, spi_pc = "update",
           NEW s \in Nat, NEW l \in Nat, s <= addr
    PROVE  /\ Spi!EraseStep(s, l).kind = "erase"
           /\ Spi!EraseStep(s, l).at = s /\ Spi!EraseStep(s, l).len = l
<1>1. addr \in Nat /\ FileEnd \in Nat /\ addr < FileEnd
  BY PageOfTurn DEF LoopInv, SpiTypes, Position
<1>2. Spi!OnWire(s) = s
  BY <1>1, OnWireExact
<1>3. QED
  BY <1>2 DEF Spi!EraseStep

\* A turn adds a write, and before it an erase if the page reaches beyond what
\* is erased.
LEMMA StepsOfTurn ==
    ASSUME LoopInv, spi_pc = "update"
    PROVE  /\ Spi!TurnSteps \in Seq(Steps)
           /\ IF Spi!NeedsErase
              THEN /\ Len(Spi!TurnSteps) = 2
                   /\ Spi!TurnSteps[1] = Spi!Erase.step
                   /\ Spi!TurnSteps[2] = PageWrite
              ELSE Len(Spi!TurnSteps) = 1 /\ Spi!TurnSteps[1] = PageWrite
<1>1. range.len - len_remaining = addr - range.start
  BY DEF LoopInv, SpiTypes, Position, FileEnd
<1>2. Spi!WriteStep(addr, Spi!WriteLen, range.len - len_remaining) = PageWrite
  BY <1>1 DEF Spi!WriteStep, PageWrite
<1>3. PageWrite \in Steps
  BY PageOfTurn, OnWireNat DEF Steps, PageWrite
<1>4. CASE Spi!NeedsErase
  <2>1. PICK s, l \in Nat :
           Spi!Erase = [step |-> Spi!EraseStep(s, l), end |-> s + l]
    BY <1>4, EraseOfTurn
  <2>2. Spi!Erase.step \in Steps
    BY <2>1, OnWireNat DEF Spi!EraseStep, Steps
  <2>3. Spi!TurnSteps = <<Spi!Erase.step>> \o <<PageWrite>>
    BY <1>2, <1>4 DEF Spi!TurnSteps
  <2>4. QED
    BY <1>3, <1>4, <2>2, <2>3, TwoSteps
<1>5. CASE ~Spi!NeedsErase
  <2>1. Spi!TurnSteps = <<PageWrite>>
    BY <1>2, <1>5 DEF Spi!TurnSteps
  <2>2. QED
    BY <1>3, <1>5, <2>1
<1>6. QED
  BY <1>4, <1>5

\* They are collected behind those that wait already.
LEMMA Collected ==
    ASSUME LoopInv, Spi!AddPage
    PROVE  /\ spi_pc = "update" /\ Len(op) \in Nat /\ op' \in Seq(Steps)
           /\ Len(op') = Len(op) + Len(Spi!TurnSteps)
           /\ Len(Spi!TurnSteps) \in {1, 2}
           /\ Len(op') \in Nat /\ Len(op) < Len(op')
           /\ Spi!NeedsErase <=> Len(op') = Len(op) + 2
           /\ \A j \in 1 .. Len(op) : op'[j] = op[j]
           /\ Spi!NeedsErase => op'[Len(op) + 1] = Spi!Erase.step
           /\ op'[Len(op')] = PageWrite
<1>1. op \in Seq(Steps) /\ spi_pc = "update" /\ op' = op \o Spi!TurnSteps
  BY DEF LoopInv, SpiTypes, Spi!AddPage
<1>2. /\ op' \in Seq(Steps) /\ Len(op') = Len(op) + Len(Spi!TurnSteps)
      /\ Len(op) \in Nat
      /\ \A j \in 1 .. Len(op) : op'[j] = op[j]
      /\ \A j \in 1 .. Len(Spi!TurnSteps) : op'[Len(op) + j] = Spi!TurnSteps[j]
  BY <1>1, StepsOfTurn, Joined
<1>3. CASE Spi!NeedsErase
  <2>1. /\ Len(Spi!TurnSteps) = 2
        /\ Spi!TurnSteps[1] = Spi!Erase.step /\ Spi!TurnSteps[2] = PageWrite
    BY <1>1, <1>3, StepsOfTurn
  <2>2. 1 \in 1 .. Len(Spi!TurnSteps) /\ 2 \in 1 .. Len(Spi!TurnSteps)
    BY <2>1
  <2>3. op'[Len(op) + 1] = Spi!Erase.step /\ op'[Len(op) + 2] = PageWrite
    BY <1>2, <2>1, <2>2
  <2>4. Len(op') = Len(op) + 2 /\ Len(op') \in Nat /\ Len(op) < Len(op')
    BY <1>2, <2>1
  <2>5. QED
    BY <1>1, <1>2, <1>3, <2>1, <2>3, <2>4
<1>4. CASE ~Spi!NeedsErase
  <2>1. Len(Spi!TurnSteps) = 1 /\ Spi!TurnSteps[1] = PageWrite
    BY <1>1, <1>4, StepsOfTurn
  <2>2. 1 \in 1 .. Len(Spi!TurnSteps)
    BY <2>1
  <2>3. op'[Len(op) + 1] = PageWrite
    BY <1>2, <2>1, <2>2
  <2>4. Len(op') = Len(op) + 1 /\ Len(op') \in Nat /\ Len(op) < Len(op')
    BY <1>2, <2>1
  <2>5. QED
    BY <1>1, <1>2, <1>4, <2>1, <2>3, <2>4
<1>5. QED
  BY <1>3, <1>4

\* A turn takes no more of the buffer than a page may cost: the assertions hold.
LEMMA RoomOfTurn ==
    ASSUME LoopInv, Spi!AddPage
    PROVE  /\ Spi!TurnFits
           /\ pages_in_op + 1 < PagesPerOp =>
                 /\ pages_in_op + 1 \in 0 .. PagesPerOp - 1
                 /\ Len(op') <= 2 * (pages_in_op + 1)
                 /\ op_bytes' \in Nat
                 /\ op_bytes' <= (pages_in_op + 1) * Spi!PageCost
<1> DEFINE p == pages_in_op
           K == Spi!PageCost
<1>1. /\ spi_pc = "update" /\ p \in 0 .. PagesPerOp - 1 /\ Len(op) <= 2 * p
      /\ op_bytes \in Nat /\ op_bytes <= p * K
  BY DEF LoopInv, Room, Spi!AddPage
<1>2. /\ HeaderBytes \in Nat /\ CommandBytes \in Nat /\ Page \in Nat
      /\ PagesPerOp \in Nat /\ MaxTransactions \in Nat /\ MaxOpBytes \in Nat
      /\ 4 * PagesPerOp <= MaxTransactions /\ PagesPerOp * K < MaxOpBytes
  BY UpdatesAssumption DEF Spi!SpiAssumption
<1>3. /\ K \in Nat
      /\ Spi!AddressedBytes \in Nat /\ Spi!AddressedBytes <= CommandBytes
  <2>1. CommandBytes \in Nat \ {0}
    BY FlashSizes
  <2>2. QED
    BY <1>2, <2>1 DEF Spi!PageCost, Spi!AddressedBytes
<1>4. p * K + K <= PagesPerOp * K /\ p * K + K = (p + 1) * K /\ p * K \in Nat
      /\ PagesPerOp * K \in Nat
  <2> HIDE DEF K
  <2>1. p \in Nat /\ p < PagesPerOp
    BY <1>1, <1>2
  <2>2. QED
    BY <1>2, <1>3, <2>1, Multiples
<1>5. Spi!TurnBytes \in Nat /\ Spi!TurnBytes <= K
  <2>1. Spi!WriteLen \in Nat /\ Spi!WriteLen <= Page
    BY <1>1, PageOfTurn
  <2>2. Spi!StepBytes(PageWrite)
           = 2 * HeaderBytes + 1 + Spi!AddressedBytes + Spi!WriteLen
    BY <1>2, <1>3, <2>1 DEF Spi!StepBytes, PageWrite
  <2>3. CASE Spi!NeedsErase
    <3>1. PICK s, l \in Nat :
             Spi!Erase = [step |-> Spi!EraseStep(s, l), end |-> s + l]
      BY <1>1, <2>3, EraseOfTurn
    <3>2. Spi!StepBytes(Spi!Erase.step) = 2 * HeaderBytes + 1 + Spi!AddressedBytes
      BY <1>2, <1>3, <3>1 DEF Spi!StepBytes, Spi!EraseStep
    <3>3. Spi!TurnBytes = (2 * HeaderBytes + 1 + Spi!AddressedBytes)
                          + (2 * HeaderBytes + 1 + Spi!AddressedBytes + Spi!WriteLen)
      BY <1>1, <2>2, <2>3, <3>2, StepsOfTurn DEF Spi!TurnBytes
    <3>4. QED
      BY <1>2, <1>3, <2>1, <3>3 DEF Spi!PageCost
  <2>4. CASE ~Spi!NeedsErase
    <3>1. Spi!TurnBytes = 2 * HeaderBytes + 1 + Spi!AddressedBytes + Spi!WriteLen
      BY <1>1, <1>2, <1>3, <2>1, <2>2, <2>4, StepsOfTurn DEF Spi!TurnBytes
    <3>2. QED
      BY <1>2, <1>3, <2>1, <3>1 DEF Spi!PageCost
  <2>5. QED
    BY <2>3, <2>4
<1>6. op_bytes' = op_bytes + Spi!TurnBytes
  BY DEF Spi!AddPage
<1>7. /\ Len(op) \in Nat /\ Len(Spi!TurnSteps) \in {1, 2}
      /\ Len(op') = Len(op) + Len(Spi!TurnSteps)
  BY Collected
<1> HIDE DEF K, p
<1>8. /\ 2 * (Len(op) + Len(Spi!TurnSteps)) <= MaxTransactions
      /\ Len(op') <= 2 * (p + 1)
  <2>1. ASSUME NEW m \in Nat, NEW n \in {1, 2}, NEW q \in 0 .. PagesPerOp - 1,
               m <= 2 * q
        PROVE  2 * (m + n) <= MaxTransactions /\ m + n <= 2 * (q + 1)
    BY <1>2, <2>1
  <2>2. QED
    BY <1>1, <1>7, <2>1
<1>9. Spi!TurnFits
  <2>1. op_bytes + Spi!TurnBytes < MaxOpBytes
    BY <1>1, <1>2, <1>3, <1>4, <1>5
  <2>2. QED
    BY <1>8, <2>1 DEF Spi!TurnFits
<1>10. op_bytes' \in Nat /\ op_bytes' <= (p + 1) * K
  BY <1>1, <1>3, <1>4, <1>5, <1>6
<1>11. p + 1 < PagesPerOp => p + 1 \in 0 .. PagesPerOp - 1
  BY <1>1, <1>2
<1>12. QED
  BY <1>8, <1>9, <1>10, <1>11 DEF K, p


\* What a turn of the loop does to its variables.
LEMMA TurnEffect ==
    ASSUME LoopInv, Spi!AddPage
    PROVE  /\ range' = range /\ flash' = flash
           /\ addr' = addr + Spi!WriteLen /\ addr' \in Nat
           /\ len_remaining' = len_remaining - Spi!WriteLen
           /\ len_remaining' \in 0 .. range.len - 1
           /\ addr' = FileEnd - len_remaining'
           /\ need_erase_addr' = IF Spi!NeedsErase THEN Spi!Erase.end
                                                   ELSE need_erase_addr
           /\ len_remaining' > 0 => addr' = Spi!PageEnd
           /\ \/ /\ spi_pc' = "update" /\ pages_in_op' = pages_in_op + 1
                 /\ len_remaining' > 0 /\ pages_in_op + 1 < PagesPerOp
              \/ spi_pc' = "execute" /\ pages_in_op' = 0
<1>1. spi_pc = "update"
  BY DEF Spi!AddPage
<1>2. /\ range' = range /\ flash' = flash
      /\ addr' = (addr + Spi!WriteLen) % FlashSpace
      /\ len_remaining' = len_remaining - Spi!WriteLen
      /\ need_erase_addr' = IF Spi!NeedsErase THEN Spi!Erase.end
                                              ELSE need_erase_addr
  BY DEF Spi!AddPage
<1>3. /\ addr \in Nat /\ FileEnd \in Nat /\ addr + len_remaining = FileEnd
      /\ FileEnd <= Limit /\ Spi!WriteLen \in 1 .. len_remaining
      /\ Spi!WriteLen < len_remaining => addr + Spi!WriteLen = Spi!PageEnd
  BY <1>1, PageOfTurn
<1>4. len_remaining \in 1 .. range.len /\ range.len \in Nat
  BY <1>1 DEF LoopInv, SpiTypes, Position
<1>5. Limit \in Nat /\ Block \in Nat \ {0} /\ Limit + Block <= FlashSpace
      /\ FlashSpace \in Nat
  BY FlashSizes
<1>6. addr' = addr + Spi!WriteLen
  <2>1. addr + Spi!WriteLen \in 0 .. FlashSpace - 1
    BY <1>3, <1>4, <1>5
  <2>2. QED
    BY <1>2, <2>1, NoWrap
<1>7. len_remaining' \in 0 .. range.len - 1
  BY <1>2, <1>3, <1>4
<1>8. \/ /\ spi_pc' = "update" /\ pages_in_op' = pages_in_op + 1
         /\ len_remaining' > 0 /\ pages_in_op + 1 < PagesPerOp
      \/ spi_pc' = "execute" /\ pages_in_op' = 0
  <2>1. Spi!TurnFits
    BY RoomOfTurn
  <2>2. CASE pages_in_op + 1 >= PagesPerOp \/ len_remaining' = 0
    BY <2>1, <2>2 DEF Spi!AddPage
  <2>3. CASE ~(pages_in_op + 1 >= PagesPerOp \/ len_remaining' = 0)
    <3>1. spi_pc' = "update" /\ pages_in_op' = pages_in_op + 1
      BY <2>1, <2>3 DEF Spi!AddPage
    <3>2. pages_in_op \in Nat /\ PagesPerOp \in Nat
      BY <1>1, FlashSizes DEF LoopInv, Room
    <3>3. QED
      BY <1>4, <1>7, <2>3, <3>1, <3>2
  <2>4. QED
    BY <2>2, <2>3
<1>9. QED
  BY <1>2, <1>3, <1>4, <1>6, <1>7, <1>8

\* The steps collected, sorted: old ones, an erase of the turn, its write.
LEMMA SortOfStep ==
    ASSUME LoopInv, Spi!AddPage, NEW j \in 1 .. Len(op')
    PROVE  \/ j \in 1 .. Len(op) /\ op'[j] = op[j]
           \/ /\ Spi!NeedsErase /\ j = Len(op) + 1 /\ op'[j] = Spi!Erase.step
              /\ Len(op') = Len(op) + 2
           \/ j = Len(op') /\ op'[j] = PageWrite
<1>1. /\ Len(op) \in Nat /\ Len(Spi!TurnSteps) \in {1, 2}
      /\ Len(op') = Len(op) + Len(Spi!TurnSteps)
  BY Collected
<1>2. /\ \A k \in 1 .. Len(op) : op'[k] = op[k]
      /\ Spi!NeedsErase <=> Len(op') = Len(op) + 2
      /\ Spi!NeedsErase => op'[Len(op) + 1] = Spi!Erase.step
      /\ op'[Len(op')] = PageWrite
  BY Collected
<1>3. j \in 1 .. Len(op) \/ (j = Len(op) + 1 /\ Len(op') = Len(op) + 2)
         \/ j = Len(op')
  <2>1. ASSUME NEW m \in Nat, NEW n \in {1, 2}, NEW k \in 1 .. m + n
        PROVE  k \in 1 .. m \/ (k = m + 1 /\ m + n = m + 2) \/ k = m + n
    OBVIOUS
  <2>2. QED
    BY <1>1, <2>1
<1>4. QED
  BY <1>2, <1>3

\* The collected steps stay in the sectors of the range and in order.
LEMMA TurnPending ==
    ASSUME LoopInv, Spi!Reachable, FlashInv, Spi!AddPage
    PROVE  Pending'
<1>1. /\ spi_pc = "update" /\ Pending /\ range' = range
      /\ addr' = addr + Spi!WriteLen /\ addr' \in Nat
  BY TurnEffect, Collected DEF LoopInv, FlashInv, Programming
<1>2. /\ addr \in Nat /\ range.start \in Nat /\ range.start <= addr
      /\ FileEnd \in Nat /\ FileEnd <= FlashSpace
      /\ Spi!WriteLen \in Nat /\ addr + Spi!WriteLen <= FileEnd
  <2>1. Limit \in Nat /\ Block \in Nat /\ Limit + Block <= FlashSpace
        /\ FlashSpace \in Nat
    BY FlashSizes
  <2>2. len_remaining \in Nat
    BY <1>1 DEF LoopInv, FlashInv, SpiTypes, Position
  <2>3. QED
    BY <1>1, <2>1, <2>2, PageOfTurn
<1>3. \A a : Touched(a)' = Touched(a)
  BY <1>1 DEF Touched, FileEnd
<1>4. /\ PageWrite.kind = "write" /\ PageWrite.at = addr
      /\ PageWrite.len = Spi!WriteLen /\ PageWrite.from = addr - range.start
  BY <1>1, PageWriteSent
<1>5. ASSUME Spi!NeedsErase
      PROVE  /\ Spi!Erase.step.kind = "erase"
             /\ Spi!Erase.step.at + Spi!Erase.step.len <= FlashSpace
             /\ \A a \in Nat : Covers(Spi!Erase.step, a) => Touched(a)
  <2>1. PICK s, l \in Nat :
           /\ Spi!Erase = [step |-> Spi!EraseStep(s, l), end |-> s + l]
           /\ s <= addr /\ s + l <= FlashSpace
           /\ \A a \in Nat : s <= a /\ a < s + l => Touched(a)
    BY <1>1, <1>5, EraseOfTurn
  <2>2. /\ Spi!Erase.step.kind = "erase" /\ Spi!Erase.step.at = s
        /\ Spi!Erase.step.len = l
    BY <1>1, <2>1, EraseSent
  <2>3. QED
    BY <2>1, <2>2 DEF Covers
<1>6. \A a \in Nat : Covers(PageWrite, a) => Touched(a)
  <2> SUFFICES ASSUME NEW a \in Nat, Covers(PageWrite, a) PROVE Touched(a)
    OBVIOUS
  <2>1. a \in range.start .. FileEnd - 1
    BY <1>2, <1>4 DEF Covers
  <2>2. QED
    BY <2>1 DEF Touched
<1>7. ASSUME NEW j \in 1 .. Len(op')
      PROVE  /\ op'[j].at + op'[j].len <= FlashSpace
             /\ \A a \in Nat : Covers(op'[j], a) => Touched(a)'
             /\ op'[j].kind = "write" =>
                   /\ range'.start <= op'[j].at /\ op'[j].at + op'[j].len <= addr'
                   /\ op'[j].from = op'[j].at - range'.start
  <2>1. CASE j \in 1 .. Len(op) /\ op'[j] = op[j]
    <3>1. /\ op[j].at + op[j].len <= FlashSpace
          /\ \A a \in Nat : Covers(op[j], a) => Touched(a)
          /\ op[j].kind = "write" =>
                /\ range.start <= op[j].at /\ op[j].at + op[j].len <= addr
                /\ op[j].from = op[j].at - range.start
      BY <1>1, <2>1 DEF Pending
    <3>2. op[j].at \in Nat /\ op[j].len \in Nat
      <4>1. op \in Seq(Steps)
        BY DEF LoopInv, FlashInv, SpiTypes
      <4>2. op[j] \in Steps
        BY <2>1, <4>1
      <4>3. QED
        BY <4>2 DEF Steps
    <3>3. op[j].at + op[j].len <= addr => op[j].at + op[j].len <= addr'
      BY <1>1, <1>2, <3>2
    <3>4. QED
      BY <1>1, <1>3, <2>1, <3>1, <3>3
  <2>2. CASE Spi!NeedsErase /\ op'[j] = Spi!Erase.step
    BY <1>3, <1>5, <2>2
  <2>3. CASE op'[j] = PageWrite
    <3>1. addr + Spi!WriteLen <= FlashSpace
      BY <1>2, FlashSizes
    <3>2. addr + Spi!WriteLen <= addr'
      BY <1>1
    <3>3. QED
      BY <1>1, <1>2, <1>3, <1>4, <1>6, <2>3, <3>1, <3>2
  <2>4. QED
    BY <2>1, <2>2, <2>3, SortOfStep
<1>8. ASSUME NEW h \in 1 .. Len(op'), NEW j \in 1 .. Len(op'),
             h < j, op'[h].kind = "write", op'[j].kind = "write"
      PROVE  op'[h].at + op'[h].len <= op'[j].at
  <2>1. Len(op) \in Nat /\ Len(op') \in Nat /\ Len(op) < Len(op')
    BY Collected
  <2>2. h \in 1 .. Len(op) /\ op'[h] = op[h]
    <3>1. h # Len(op')
      BY <1>8, <2>1
    <3>2. ~(Spi!NeedsErase /\ op'[h] = Spi!Erase.step)
      BY <1>5, <1>8
    <3>3. QED
      BY <3>1, <3>2, SortOfStep
  <2>3. CASE j \in 1 .. Len(op) /\ op'[j] = op[j]
    BY <1>1, <1>8, <2>2, <2>3 DEF Pending
  <2>4. CASE op'[j] = PageWrite
    BY <1>1, <1>4, <1>8, <2>2, <2>4 DEF Pending
  <2>5. CASE Spi!NeedsErase /\ op'[j] = Spi!Erase.step
    BY <1>5, <1>8, <2>5
  <2>6. QED
    BY <2>3, <2>4, <2>5, SortOfStep
<1>9. QED
  BY <1>7, <1>8 DEF Pending

\* What was erased or will be erased in time stays so when a turn is added.
LEMMA ClearKept ==
    ASSUME LoopInv, Spi!AddPage, NEW a, NEW n \in 0 .. Len(op), Clear(a, n),
           NEW m \in Nat, n <= m
    PROVE  Clear(a, m)'
<1>1. flash' = flash /\ (\A j \in 1 .. Len(op) : op'[j] = op[j]) /\ Len(op) \in Nat
  BY TurnEffect, Collected
<1>2. CASE flash[a] = Spi!ErasedByte
  BY <1>1, <1>2 DEF Clear, Spi!ErasedByte
<1>3. CASE \E k \in 1 .. n : op[k].kind = "erase" /\ Covers(op[k], a)
  <2>1. PICK k \in 1 .. n : op[k].kind = "erase" /\ Covers(op[k], a)
    BY <1>3
  <2>2. k \in 1 .. m /\ k \in 1 .. Len(op)
    BY <1>1
  <2>3. op'[k].kind = "erase" /\ Covers(op'[k], a)
    BY <1>1, <2>1, <2>2
  <2>4. QED
    BY <2>2, <2>3 DEF Clear, Covers
<1>4. QED
  BY <1>2, <1>3 DEF Clear

\* The page of a turn is erased before: by the erase of the turn, or as part of
\* what an earlier one erased.
LEMMA TurnErasedFirst ==
    ASSUME LoopInv, Spi!Reachable, FlashInv, Spi!AddPage
    PROVE  ErasedFirst'
<1>1. /\ spi_pc = "update" /\ ErasedFirst /\ flash' = flash /\ range' = range
      /\ addr' = addr + Spi!WriteLen /\ addr' \in Nat
      /\ len_remaining' = len_remaining - Spi!WriteLen
      /\ need_erase_addr' = IF Spi!NeedsErase THEN Spi!Erase.end
                                              ELSE need_erase_addr
  BY TurnEffect, Collected DEF LoopInv, FlashInv, Programming
<1>2. /\ Len(op) \in Nat /\ Len(op') \in Nat /\ Len(op) < Len(op')
      /\ Spi!NeedsErase => Len(op') = Len(op) + 2
      /\ ~Spi!NeedsErase => Len(op') = Len(op) + 1
  <2>1. /\ Len(op) \in Nat /\ Len(op') \in Nat /\ Len(op) < Len(op')
        /\ Spi!NeedsErase <=> Len(op') = Len(op) + 2
        /\ Len(op') = Len(op) + Len(Spi!TurnSteps)
        /\ Len(Spi!TurnSteps) \in {1, 2}
    BY Collected
  <2>2. QED
    BY <2>1
<1>3. /\ addr \in Nat /\ Spi!WriteLen \in Nat \ {0} /\ len_remaining \in Nat
      /\ Spi!PageEnd \in Nat /\ addr < Spi!PageEnd
      /\ addr + Spi!WriteLen <= Spi!PageEnd
      /\ len_remaining \in 1 .. range.len /\ range.len \in Nat
      /\ need_erase_addr \in Nat
  <2>1. /\ len_remaining \in 1 .. range.len /\ range.len \in Nat
        /\ need_erase_addr \in 0 .. FlashSpace
    BY <1>1 DEF LoopInv, FlashInv, SpiTypes, Position
  <2>2. FlashSpace \in Nat
    BY FlashSizes
  <2>3. QED
    BY <1>1, <2>1, <2>2, PageOfTurn
<1>4. ASSUME Spi!NeedsErase, NEW a \in Nat, addr <= a,
             a < Spi!PageEnd \/ a < Spi!Erase.end,
             NEW m \in Nat, Len(op) + 1 <= m
      PROVE  Clear(a, m)'
  <2>1. PICK s, l \in Nat :
           /\ Spi!Erase = [step |-> Spi!EraseStep(s, l), end |-> s + l]
           /\ s <= addr /\ Spi!PageEnd <= s + l
    BY <1>1, <1>4, EraseOfTurn
  <2>2. /\ Spi!Erase.step.kind = "erase" /\ Spi!Erase.step.at = s
        /\ Spi!Erase.step.len = l /\ Spi!Erase.end = s + l
    BY <1>1, <2>1, EraseSent
  <2>3. Covers(Spi!Erase.step, a)
    BY <1>3, <1>4, <2>1, <2>2 DEF Covers
  <2>4. op'[Len(op) + 1] = Spi!Erase.step
    BY <1>4, Collected
  <2>5. Len(op) + 1 \in 1 .. m
    BY <1>2, <1>4
  <2>6. \E k \in 1 .. m : op'[k].kind = "erase" /\ Covers(op'[k], a)
    BY <2>2, <2>3, <2>4, <2>5
  <2>7. QED
    BY <2>6 DEF Clear, Covers
<1>5. ASSUME ~Spi!NeedsErase
      PROVE  /\ Spi!PageEnd <= need_erase_addr
             /\ \A a \in addr .. need_erase_addr - 1 : Clear(a, Len(op))
  <2>1. ~(Spi!PageEnd > need_erase_addr)
    BY <1>5 DEF Spi!NeedsErase
  <2>2. Spi!PageEnd <= need_erase_addr
    BY <1>3, <2>1
  <2>3. len_remaining # range.len
    BY <1>1, <1>3, <2>1 DEF LoopInv, FlashInv, Position
  <2>4. len_remaining \in 1 .. range.len - 1
    BY <1>3, <2>3
  <2>5. QED
    BY <1>1, <2>2, <2>4 DEF ErasedFirst
<1>6. ASSUME NEW j \in 1 .. Len(op'), op'[j].kind = "write",
             NEW a \in Nat, Covers(op'[j], a)
      PROVE  Clear(a, j - 1)'
  <2>1. CASE j \in 1 .. Len(op) /\ op'[j] = op[j]
    <3>1. Clear(a, j - 1)
      BY <1>1, <1>6, <2>1 DEF ErasedFirst
    <3>2. j - 1 \in 0 .. Len(op) /\ j - 1 \in Nat /\ j - 1 <= j - 1
      BY <1>2, <2>1
    <3>3. QED
      BY <3>1, <3>2, ClearKept
  <2>2. CASE Spi!NeedsErase /\ op'[j] = Spi!Erase.step
    <3>1. PICK s, l \in Nat :
             Spi!Erase = [step |-> Spi!EraseStep(s, l), end |-> s + l]
      BY <1>1, <2>2, EraseOfTurn
    <3>2. QED
      BY <1>6, <2>2, <3>1 DEF Spi!EraseStep
  <2>3. CASE j = Len(op') /\ op'[j] = PageWrite
    <3>1. addr <= a /\ a < addr + Spi!WriteLen
      BY <1>1, <1>6, <2>3, PageWriteSent DEF Covers
    <3>2. CASE Spi!NeedsErase
      <4>1. a < Spi!PageEnd
        BY <1>3, <3>1
      <4>2. j - 1 \in Nat /\ Len(op) + 1 <= j - 1
        BY <1>2, <2>3, <3>2
      <4>3. QED
        BY <1>4, <3>1, <3>2, <4>1, <4>2
    <3>3. CASE ~Spi!NeedsErase
      <4>1. a \in addr .. need_erase_addr - 1
        BY <1>3, <1>5, <3>1, <3>3
      <4>2. Clear(a, Len(op))
        BY <1>5, <3>3, <4>1
      <4>3. Len(op) \in 0 .. Len(op) /\ j - 1 \in Nat /\ Len(op) <= j - 1
        BY <1>2, <2>3, <3>3
      <4>4. QED
        BY <4>2, <4>3, ClearKept
    <3>4. QED
      BY <3>2, <3>3
  <2>4. QED
    BY <2>1, <2>2, <2>3, SortOfStep
<1>7. ASSUME NEW a \in addr' .. need_erase_addr' - 1,
             NEW m \in Nat, Len(op') = m
      PROVE  Clear(a, m)'
  <2>1. CASE Spi!NeedsErase
    <3>1. PICK s, l \in Nat :
             Spi!Erase = [step |-> Spi!EraseStep(s, l), end |-> s + l]
      BY <1>1, <2>1, EraseOfTurn
    <3>2. need_erase_addr' = Spi!Erase.end /\ Spi!Erase.end \in Nat
      BY <1>1, <2>1, <3>1
    <3>3. a \in Nat /\ addr <= a /\ a < Spi!Erase.end
      BY <1>1, <1>3, <3>2
    <3>4. Len(op) + 1 <= m
      BY <1>2, <1>7, <2>1
    <3>5. QED
      BY <1>4, <2>1, <3>3, <3>4
  <2>2. CASE ~Spi!NeedsErase
    <3>1. a \in addr .. need_erase_addr - 1
      BY <1>1, <1>3, <2>2
    <3>2. Clear(a, Len(op))
      BY <1>5, <2>2, <3>1
    <3>3. Len(op) \in 0 .. Len(op) /\ Len(op) <= m
      BY <1>2, <1>7
    <3>4. QED
      BY <3>2, <3>3, ClearKept
  <2>3. QED
    BY <2>1, <2>2
<1>8. (\A j \in 1 .. Len(op) :
          op[j].kind = "write" =>
             \A a \in Nat : Covers(op[j], a) => Clear(a, j - 1))'
  BY <1>6 DEF Covers
<1>9. (\A a \in addr .. need_erase_addr - 1 : Clear(a, Len(op)))'
  <2>1. PICK m \in Nat : m = Len(op')
    BY <1>2
  <2>2. \A a \in addr' .. need_erase_addr' - 1 : Clear(a, m)'
    BY <1>7, <2>1
  <2>3. QED
    BY <2>1, <2>2 DEF Clear
<1>10. QED
  BY <1>8, <1>9 DEF ErasedFirst

\* What will be written stays so when a turn is added.
LEMMA WillWriteKept ==
    ASSUME LoopInv, Spi!AddPage, NEW a, NEW n \in Nat, WillWrite(a, n)
    PROVE  WillWrite(a, n)'
<1>1. /\ \A j \in 1 .. Len(op) : op'[j] = op[j]
      /\ Len(op) \in Nat /\ Len(op') \in Nat /\ Len(op) < Len(op')
  BY Collected
<1>2. PICK k \in n + 1 .. Len(op) : op[k].kind = "write" /\ Covers(op[k], a)
  BY DEF WillWrite
<1>3. k \in 1 .. Len(op) /\ k \in n + 1 .. Len(op')
  BY <1>1
<1>4. op'[k].kind = "write" /\ Covers(op'[k], a)
  BY <1>1, <1>2, <1>3
<1>5. QED
  BY <1>3, <1>4 DEF WillWrite, Covers

\* The page of a turn will be written after the erases that wait, and no erase
\* of a turn reaches back to bytes of the turns before.
LEMMA TurnWrittenLast ==
    ASSUME LoopInv, Spi!Reachable, FlashInv, Spi!AddPage
    PROVE  WrittenLast'
<1>1. /\ spi_pc = "update" /\ WrittenLast /\ flash' = flash /\ range' = range
      /\ addr' = addr + Spi!WriteLen
  BY TurnEffect, Collected DEF LoopInv, FlashInv, Programming
<1>2. /\ Len(op) \in Nat /\ Len(op') \in Nat /\ Len(op) < Len(op')
      /\ op'[Len(op')] = PageWrite
  BY Collected
<1>3. addr \in Nat /\ range.start \in Nat /\ Spi!WriteLen \in Nat
      /\ range.start <= addr
  <2>1. len_remaining \in Nat
    BY <1>1 DEF LoopInv, FlashInv, SpiTypes, Position
  <2>2. QED
    BY <1>1, <2>1, PageOfTurn
<1>4. ASSUME NEW j \in 1 .. Len(op'), op'[j].kind = "erase", NEW a,
             Covers(op'[j], a)
      PROVE  /\ j < Len(op')
             /\ \/ j \in 1 .. Len(op) /\ op'[j] = op[j]
                \/ a \in Nat /\ a < addr => addr = range.start
  <2>1. j # Len(op')
    BY <1>2, <1>4 DEF PageWrite
  <2>2. j < Len(op')
    BY <1>2, <2>1
  <2>3. ASSUME Spi!NeedsErase, op'[j] = Spi!Erase.step, a \in Nat, a < addr
        PROVE  addr = range.start
    <3>1. PICK s, l \in Nat :
             /\ Spi!Erase = [step |-> Spi!EraseStep(s, l), end |-> s + l]
             /\ s <= addr /\ (addr = range.start \/ s = addr)
      BY <1>1, <2>3, EraseOfTurn
    <3>2. Spi!Erase.step.at = s
      BY <1>1, <3>1, EraseSent
    <3>3. s <= a
      BY <1>4, <2>3, <3>2 DEF Covers
    <3>4. QED
      BY <1>3, <2>3, <3>1, <3>3
  <2>4. QED
    BY <2>1, <2>2, <2>3, SortOfStep
<1>5. ASSUME NEW a \in range.start .. addr' - 1
      PROVE  /\ Holds(a)' \/ WillWrite(a, 0)'
             /\ \A j \in 1 .. Len(op') :
                   op'[j].kind = "erase" /\ Covers(op'[j], a) => WillWrite(a, j)'
  <2>1. a \in Nat
    BY <1>3
  <2>2. CASE a < addr
    <3>1. /\ Holds(a) \/ WillWrite(a, 0)
          /\ \A j \in 1 .. Len(op) :
                op[j].kind = "erase" /\ Covers(op[j], a) => WillWrite(a, j)
      <4>1. a \in range.start .. addr - 1
        BY <1>3, <2>1, <2>2
      <4>2. QED
        BY <1>1, <4>1 DEF WrittenLast
    <3>2. Holds(a) => Holds(a)'
      BY <1>1 DEF Holds, Spi!Worn
    <3>3. Holds(a)' \/ WillWrite(a, 0)'
      BY <3>1, <3>2, WillWriteKept
    <3>4. ASSUME NEW j \in 1 .. Len(op'), op'[j].kind = "erase",
                 Covers(op'[j], a)
          PROVE  WillWrite(a, j)'
      <4>1. j \in 1 .. Len(op) /\ op'[j] = op[j]
        <5>1. addr # range.start
          BY <1>3, <2>1, <2>2
        <5>2. QED
          BY <1>4, <2>1, <2>2, <3>4, <5>1
      <4>2. WillWrite(a, j) /\ j \in Nat
        BY <3>1, <3>4, <4>1
      <4>3. QED
        BY <4>2, WillWriteKept
    <3>5. QED
      BY <3>3, <3>4
  <2>3. CASE ~(a < addr)
    <3>1. Covers(PageWrite, a) /\ PageWrite.kind = "write"
      BY <1>1, <1>3, <2>1, <2>3, PageWriteSent DEF Covers
    <3>2. ASSUME NEW n \in Nat, n < Len(op')
          PROVE  WillWrite(a, n)'
      <4>1. Len(op') \in n + 1 .. Len(op')
        BY <1>2, <3>2
      <4>2. \E k \in n + 1 .. Len(op') :
               op'[k].kind = "write" /\ Covers(op'[k], a)
        BY <1>2, <3>1, <4>1
      <4>3. QED
        BY <4>2 DEF WillWrite, Covers
    <3>3. WillWrite(a, 0)'
      BY <1>2, <3>2
    <3>4. ASSUME NEW j \in 1 .. Len(op'), op'[j].kind = "erase",
                 Covers(op'[j], a)
          PROVE  WillWrite(a, j)'
      <4>1. j < Len(op')
        BY <1>4, <3>4
      <4>2. j \in Nat
        BY <1>2
      <4>3. QED
        BY <3>2, <4>1, <4>2
    <3>5. QED
      BY <3>3, <3>4
  <2>4. QED
    BY <2>2, <2>3
<1>6. QED
  BY <1>1, <1>5 DEF WrittenLast, Covers

\* A turn of the loop keeps the invariant.
LEMMA TurnLoop == ASSUME LoopInv, Spi!AddPage PROVE LoopInv'
<1>1. /\ range' = range /\ flash' = flash
      /\ addr' = addr + Spi!WriteLen /\ addr' \in Nat
      /\ len_remaining' \in 0 .. range.len - 1
      /\ addr' = FileEnd - len_remaining'
      /\ need_erase_addr' = IF Spi!NeedsErase THEN Spi!Erase.end
                                              ELSE need_erase_addr
      /\ len_remaining' > 0 => addr' = Spi!PageEnd
      /\ \/ /\ spi_pc' = "update" /\ pages_in_op' = pages_in_op + 1
            /\ len_remaining' > 0 /\ pages_in_op + 1 < PagesPerOp
         \/ spi_pc' = "execute" /\ pages_in_op' = 0
  BY TurnEffect
<1>2. spi_pc = "update" /\ op' \in Seq(Steps)
  BY Collected
<1>3. SpiTypes'
  BY <1>1, <1>2 DEF LoopInv, SpiTypes, FileEnd
<1>4. Room'
  BY <1>1, RoomOfTurn DEF Room
<1>5. Position'
  <2>1. /\ need_erase_addr' \in 0 .. FlashSpace
        /\ len_remaining' > 0 => /\ Aligned(addr', Page)
                                 /\ Aligned(need_erase_addr', Sector)
                                 /\ addr' <= need_erase_addr'
    <3>1. Aligned(Spi!PageEnd, Page) /\ Spi!PageEnd \in Nat /\ addr \in Nat
      BY <1>2, PageOfTurn
    <3>2. CASE Spi!NeedsErase
      <4>1. PICK s, l \in Nat :
               /\ Spi!Erase = [step |-> Spi!EraseStep(s, l), end |-> s + l]
               /\ Spi!PageEnd <= s + l /\ s + l <= FlashSpace
               /\ Aligned(s + l, Sector)
        BY <1>2, <3>2, EraseOfTurn
      <4>2. need_erase_addr' = s + l
        BY <1>1, <3>2, <4>1
      <4>3. FlashSpace \in Nat
        BY FlashSizes
      <4>4. QED
        BY <1>1, <3>1, <4>1, <4>2, <4>3
    <3>3. CASE ~Spi!NeedsErase
      <4>1. need_erase_addr \in 0 .. FlashSpace /\ FlashSpace \in Nat
        BY <1>2, FlashSizes DEF LoopInv, Position
      <4>2. ~(Spi!PageEnd > need_erase_addr)
        BY <3>3 DEF Spi!NeedsErase
      <4>3. need_erase_addr # addr
        BY <1>2, <3>1, <4>2, PageOfTurn
      <4>4. Aligned(need_erase_addr, Sector)
        BY <1>2, <4>3 DEF LoopInv, SpiTypes, Position
      <4>5. need_erase_addr' = need_erase_addr /\ Spi!PageEnd <= need_erase_addr
        BY <1>1, <3>1, <3>3, <4>1, <4>2
      <4>6. QED
        BY <1>1, <3>1, <4>1, <4>4, <4>5
    <3>4. QED
      BY <3>2, <3>3
  <2>2. FileEnd' = FileEnd /\ range.len \in Nat
    BY <1>1 DEF FileEnd, LoopInv, SpiTypes
  <2>3. len_remaining' # range.len /\ len_remaining' \in 0 .. range.len
    BY <1>1, <2>2
  <2>4. QED
    BY <1>1, <2>1, <2>2, <2>3 DEF Position, Aligned
<1>6. QED
  BY <1>3, <1>4, <1>5 DEF LoopInv

LEMMA TurnFlash ==
    ASSUME LoopInv, Spi!Reachable, FlashInv, Spi!AddPage
    PROVE  FlashInv'
<1>1. /\ range' = range /\ flash' = flash
      /\ spi_pc' \in {"update", "execute"}
  BY TurnEffect
<1>2. Programming'
  BY TurnPending, TurnErasedFirst, TurnWrittenLast DEF Programming
<1>3. Verifying' /\ Ended'
  BY <1>1 DEF Verifying, Ended
<1>4. FlashKept'
  BY <1>1 DEF FlashInv, FlashKept, Touched, FileEnd
<1>5. QED
  BY <1>2, <1>3, <1>4 DEF FlashInv


-----------------------------------------------------------------------------
(* The RoT carries the operation out                                       *)

\* What the flash chip does with a step that does not wrap around.
LEMMA AppliedIs ==
    ASSUME NEW f, NEW s \in Steps, s.at + s.len <= FlashSpace,
           NEW a \in 0 .. FlashSpace - 1
    PROVE  Spi!Applied(f, s)[a] =
              IF ~Covers(s, a) THEN f[a]
              ELSE IF s.kind = "erase" THEN Spi!ErasedByte
              ELSE IF f[a] # Spi!ErasedByte THEN Spi!MixedByte
              ELSE IF a \in WornBytes THEN Spi!Worn
              ELSE s.from + (a - s.at)
<1>1. s.at \in Nat /\ s.len \in Nat /\ s.from \in Nat /\ FlashSpace \in Nat \ {0}
  BY FlashSizes DEF Steps
<1>2. a \in Spi!Reach(s) <=> Covers(s, a)
  <2>1. ASSUME a \in Spi!Reach(s) PROVE Covers(s, a)
    <3>1. PICK n \in 0 .. s.len - 1 : a = (s.at + n) % FlashSpace
      BY <2>1 DEF Spi!Reach
    <3>2. s.at + n \in 0 .. FlashSpace - 1
      BY <1>1
    <3>3. a = s.at + n
      BY <3>1, <3>2, NoWrap
    <3>4. QED
      BY <1>1, <3>3 DEF Covers
  <2>2. ASSUME Covers(s, a) PROVE a \in Spi!Reach(s)
    <3>1. a - s.at \in 0 .. s.len - 1 /\ a = s.at + (a - s.at)
      BY <1>1, <2>2 DEF Covers
    <3>2. a = (s.at + (a - s.at)) % FlashSpace
      BY <3>1, NoWrap
    <3>3. QED
      BY <3>1, <3>2 DEF Spi!Reach
  <2>3. QED
    BY <2>1, <2>2
<1>3. Covers(s, a) => (a - s.at) % FlashSpace = a - s.at
  <2>1. Covers(s, a) => a - s.at \in 0 .. FlashSpace - 1
    BY <1>1 DEF Covers
  <2>2. QED
    BY <2>1, NoWrap
<1>4. QED
  BY <1>2, <1>3 DEF Spi!Applied

\* The first step is taken from those that wait.
LEMMA StepTaken ==
    ASSUME LoopInv, Spi!RotStep
    PROVE  /\ spi_pc = "execute" /\ op[1] \in Steps
           /\ Len(op) \in Nat \ {0} /\ op' \in Seq(Steps)
           /\ Len(op') = Len(op) - 1
           /\ \A j \in 1 .. Len(op) - 1 : op'[j] = op[j + 1]
           /\ \A j \in 1 .. Len(op) : op[j] \in Steps
           /\ flash' = Spi!Applied(flash, op[1])
           /\ spi_pc' = spi_pc /\ range' = range /\ addr' = addr
           /\ len_remaining' = len_remaining
           /\ need_erase_addr' = need_erase_addr /\ pages_in_op' = pages_in_op
<1>1. op \in Seq(Steps) /\ op # <<>>
  BY DEF LoopInv, SpiTypes, Spi!RotStep
<1>2. op' = Tail(op)
  BY DEF Spi!RotStep
<1>3. Len(op) \in Nat \ {0} /\ op[1] \in Steps /\ Head(op) = op[1]
      /\ \A j \in 1 .. Len(op) : op[j] \in Steps
  BY <1>1
<1>4. op' \in Seq(Steps) /\ Len(op') = Len(op) - 1
      /\ \A j \in 1 .. Len(op) - 1 : op'[j] = op[j + 1]
  BY <1>1, <1>2
<1>5. QED
  BY <1>3, <1>4 DEF Spi!RotStep

\* A byte that the first step writes is erased before, and then holds the
\* file's byte.
LEMMA FirstStep ==
    ASSUME LoopInv, Spi!Reachable, FlashInv,
           Spi!RotStep, NEW a \in 0 .. FlashSpace - 1
    PROVE  /\ ~Covers(op[1], a) => flash'[a] = flash[a]
           /\ Covers(op[1], a) /\ op[1].kind = "erase" =>
                 flash'[a] = Spi!ErasedByte
           /\ Covers(op[1], a) /\ op[1].kind = "write" =>
                 Holds(a)' /\ a \in range.start .. addr - 1
<1>1. /\ spi_pc = "execute" /\ op[1] \in Steps /\ 1 \in 1 .. Len(op)
      /\ flash' = Spi!Applied(flash, op[1]) /\ range' = range
  BY StepTaken
<1>2. Pending /\ ErasedFirst
  BY <1>1 DEF LoopInv, FlashInv, Programming
<1>3. op[1].at + op[1].len <= FlashSpace
  BY <1>1, <1>2 DEF Pending
<1>4. flash'[a] = IF ~Covers(op[1], a) THEN flash[a]
                  ELSE IF op[1].kind = "erase" THEN Spi!ErasedByte
                  ELSE IF flash[a] # Spi!ErasedByte THEN Spi!MixedByte
                  ELSE IF a \in WornBytes THEN Spi!Worn
                  ELSE op[1].from + (a - op[1].at)
  BY <1>1, <1>3, AppliedIs
<1>5. ASSUME Covers(op[1], a), op[1].kind = "write"
      PROVE  Holds(a)' /\ a \in range.start .. addr - 1
  <2>1. Clear(a, 1 - 1)
    <3>1. a \in Nat
      OBVIOUS
    <3>2. QED
      BY <1>1, <1>2, <1>5, <3>1 DEF ErasedFirst
  <2>2. flash[a] = Spi!ErasedByte
    BY <2>1 DEF Clear
  <2>3. /\ range.start <= op[1].at /\ op[1].at + op[1].len <= addr
        /\ op[1].from = op[1].at - range.start
    BY <1>1, <1>2, <1>5 DEF Pending
  <2>4. range.start \in Nat /\ op[1].at \in Nat /\ op[1].len \in Nat /\ addr \in Int
    BY <1>1 DEF LoopInv, FlashInv, SpiTypes, Position, Steps, FileEnd
  <2>5. a \in range.start .. addr - 1
    BY <1>5, <2>3, <2>4 DEF Covers
  <2>6. (flash'[a] = Spi!Worn /\ a \in WornBytes) \/ flash'[a] = a - range.start
    <3>1. op[1].from + (a - op[1].at) = a - range.start
      BY <2>3, <2>4
    <3>2. QED
      BY <1>4, <1>5, <2>2, <3>1
  <2>7. QED
    BY <1>1, <2>5, <2>6 DEF Holds, Spi!Worn
<1>6. QED
  BY <1>4, <1>5

\* What will be erased in time, if the first step does not write it.
LEMMA ClearTaken ==
    ASSUME LoopInv, Spi!Reachable, FlashInv,
           Spi!RotStep, NEW a \in 0 .. FlashSpace - 1,
           NEW n \in 0 .. Len(op) - 1, Clear(a, n + 1),
           ~(op[1].kind = "write" /\ Covers(op[1], a))
    PROVE  Clear(a, n)'
<1>1. /\ Len(op) \in Nat \ {0} /\ op[1] \in Steps
      /\ \A j \in 1 .. Len(op) - 1 : op'[j] = op[j + 1]
  BY StepTaken
<1>2. op[1].kind \in {"erase", "write"}
  BY <1>1 DEF Steps
<1>3. CASE Covers(op[1], a)
  <2>1. flash'[a] = Spi!ErasedByte
    BY <1>2, <1>3, FirstStep
  <2>2. QED
    BY <2>1 DEF Clear, Spi!ErasedByte
<1>4. CASE ~Covers(op[1], a)
  <2>1. CASE flash[a] = Spi!ErasedByte
    <3>1. flash'[a] = Spi!ErasedByte
      BY <1>4, <2>1, FirstStep
    <3>2. QED
      BY <3>1 DEF Clear, Spi!ErasedByte
  <2>2. CASE \E k \in 1 .. n + 1 : op[k].kind = "erase" /\ Covers(op[k], a)
    <3>1. PICK k \in 1 .. n + 1 : op[k].kind = "erase" /\ Covers(op[k], a)
      BY <2>2
    <3>2. k # 1
      BY <1>4, <3>1
    <3>3. k - 1 \in 1 .. n /\ k - 1 \in 1 .. Len(op) - 1 /\ (k - 1) + 1 = k
      BY <1>1, <3>2
    <3>4. op'[k - 1] = op[k]
      BY <1>1, <3>3
    <3>5. \E m \in 1 .. n : op'[m].kind = "erase" /\ Covers(op'[m], a)
      BY <3>1, <3>3, <3>4
    <3>6. QED
      BY <3>5 DEF Clear, Covers
  <2>3. QED
    BY <2>1, <2>2 DEF Clear
<1>5. QED
  BY <1>3, <1>4

\* What a step behind the first one will write.
LEMMA WillWriteTaken ==
    ASSUME LoopInv, Spi!RotStep, NEW a, NEW n \in Nat, WillWrite(a, n + 1)
    PROVE  WillWrite(a, n)'
<1>1. /\ Len(op) \in Nat \ {0} /\ Len(op') = Len(op) - 1
      /\ \A j \in 1 .. Len(op) - 1 : op'[j] = op[j + 1]
  BY StepTaken
<1>2. PICK k \in (n + 1) + 1 .. Len(op) :
         op[k].kind = "write" /\ Covers(op[k], a)
  BY DEF WillWrite
<1>3. /\ k - 1 \in n + 1 .. Len(op') /\ k - 1 \in 1 .. Len(op) - 1
      /\ (k - 1) + 1 = k
  BY <1>1
<1>4. op'[k - 1] = op[k]
  BY <1>1, <1>3
<1>5. \E m \in n + 1 .. Len(op') : op'[m].kind = "write" /\ Covers(op'[m], a)
  BY <1>2, <1>3, <1>4
<1>6. QED
  BY <1>5 DEF WillWrite, Covers

\* The steps left are as they were, one place earlier.
LEMMA TakenPending ==
    ASSUME LoopInv, Spi!Reachable, FlashInv, Spi!RotStep
    PROVE  Pending'
<1>1. /\ spi_pc = "execute" /\ Len(op) \in Nat \ {0} /\ Len(op') = Len(op) - 1
      /\ \A j \in 1 .. Len(op) - 1 : op'[j] = op[j + 1]
      /\ range' = range /\ addr' = addr
  BY StepTaken
<1>2. Pending
  BY <1>1 DEF LoopInv, FlashInv, Programming
<1>3. \A a : Touched(a)' = Touched(a)
  BY <1>1 DEF Touched, FileEnd
<1>4. \A j \in 1 .. Len(op') : j + 1 \in 1 .. Len(op) /\ op'[j] = op[j + 1]
  BY <1>1
<1>5. ASSUME NEW j \in 1 .. Len(op')
      PROVE  /\ op'[j].at + op'[j].len <= FlashSpace
             /\ \A a \in Nat : Covers(op'[j], a) => Touched(a)'
             /\ op'[j].kind = "write" =>
                   /\ range'.start <= op'[j].at /\ op'[j].at + op'[j].len <= addr'
                   /\ op'[j].from = op'[j].at - range'.start
  BY <1>1, <1>2, <1>3, <1>4 DEF Pending
<1>6. ASSUME NEW h \in 1 .. Len(op'), NEW j \in 1 .. Len(op'),
             h < j, op'[h].kind = "write", op'[j].kind = "write"
      PROVE  op'[h].at + op'[h].len <= op'[j].at
  <2>1. h + 1 < j + 1
    BY <1>1, <1>6
  <2>2. QED
    BY <1>2, <1>4, <1>6, <2>1 DEF Pending
<1>7. QED
  BY <1>5, <1>6 DEF Pending

\* No step writes what a later one writes too.
LEMMA TakenErasedFirst ==
    ASSUME LoopInv, Spi!Reachable, FlashInv, Spi!RotStep
    PROVE  ErasedFirst'
<1>1. /\ spi_pc = "execute" /\ Len(op) \in Nat \ {0} /\ Len(op') = Len(op) - 1
      /\ \A j \in 1 .. Len(op) : op[j] \in Steps
      /\ range' = range /\ addr' = addr /\ len_remaining' = len_remaining
      /\ need_erase_addr' = need_erase_addr
  BY StepTaken
<1>2. Pending /\ ErasedFirst
  BY <1>1 DEF LoopInv, FlashInv, Programming
<1>3. \A j \in 1 .. Len(op') : j + 1 \in 1 .. Len(op) /\ op'[j] = op[j + 1]
  BY StepTaken
<1>4. ASSUME NEW j \in 1 .. Len(op'), op'[j].kind = "write",
             NEW a \in Nat, Covers(op'[j], a)
      PROVE  Clear(a, j - 1)'
  <2>1. /\ j + 1 \in 1 .. Len(op) /\ op[j + 1].kind = "write"
        /\ Covers(op[j + 1], a) /\ op[j + 1] \in Steps /\ 1 \in 1 .. Len(op)
        /\ op[1] \in Steps /\ 1 < j + 1
    BY <1>1, <1>3, <1>4
  <2>2. Clear(a, (j + 1) - 1)
    BY <1>2, <2>1 DEF ErasedFirst
  <2>3. a \in 0 .. FlashSpace - 1
    <3>1. op[j + 1].at + op[j + 1].len <= FlashSpace
      BY <1>2, <2>1 DEF Pending
    <3>2. op[j + 1].at \in Nat /\ op[j + 1].len \in Nat
      BY <2>1 DEF Steps
    <3>3. FlashSpace \in Nat
      BY FlashSizes
    <3>4. QED
      BY <2>1, <3>1, <3>2, <3>3 DEF Covers
  <2>4. ~(op[1].kind = "write" /\ Covers(op[1], a))
    <3>1. op[1].kind = "write" => op[1].at + op[1].len <= op[j + 1].at
      BY <1>2, <2>1 DEF Pending
    <3>2. QED
      BY <2>1, <3>1 DEF Covers, Steps
  <2>5. j - 1 \in 0 .. Len(op) - 1 /\ (j - 1) + 1 = (j + 1) - 1
    BY <1>1
  <2>6. Clear(a, (j - 1) + 1)
    BY <2>2, <2>5
  <2>7. QED
    BY <2>3, <2>4, <2>5, <2>6, ClearTaken
<1>5. ASSUME len_remaining \in 1 .. range.len - 1,
             NEW a \in addr .. need_erase_addr - 1,
             NEW m \in Nat, Len(op') = m
      PROVE  Clear(a, m)'
  <2>1. /\ addr \in Nat /\ need_erase_addr \in 0 .. FlashSpace
        /\ FlashSpace \in Nat
    <3>1. addr \in Nat /\ need_erase_addr \in 0 .. FlashSpace
      BY <1>1 DEF LoopInv, FlashInv, SpiTypes, Position, FileEnd
    <3>2. QED
      BY <3>1, FlashSizes
  <2>2. a \in 0 .. FlashSpace - 1
    BY <2>1
  <2>3. m \in 0 .. Len(op) - 1 /\ Len(op) = m + 1
    BY <1>1, <1>5
  <2>4. Clear(a, m + 1)
    BY <1>2, <1>5, <2>3 DEF ErasedFirst
  <2>5. ~(op[1].kind = "write" /\ Covers(op[1], a))
    <3>1. op[1].kind = "write" => op[1].at + op[1].len <= addr
      BY <1>1, <1>2 DEF Pending
    <3>2. op[1].at \in Nat /\ op[1].len \in Nat
      BY <1>1 DEF Steps
    <3>3. QED
      BY <2>1, <2>2, <3>1, <3>2 DEF Covers
  <2>6. QED
    BY <2>2, <2>3, <2>4, <2>5, ClearTaken
<1>6. (\A j \in 1 .. Len(op) :
          op[j].kind = "write" =>
             \A a \in Nat : Covers(op[j], a) => Clear(a, j - 1))'
  BY <1>4 DEF Covers
<1>7. (len_remaining \in 1 .. range.len - 1 =>
          \A a \in addr .. need_erase_addr - 1 : Clear(a, Len(op)))'
  <2>1. PICK m \in Nat : m = Len(op')
    BY <1>1
  <2>2. len_remaining \in 1 .. range.len - 1 =>
           \A a \in addr .. need_erase_addr - 1 : Clear(a, m)'
    BY <1>5, <2>1
  <2>3. QED
    BY <1>1, <2>1, <2>2 DEF Clear
<1>8. QED
  BY <1>6, <1>7 DEF ErasedFirst

\* What an erase takes away will be written after it; what a write gives holds
\* the file.
LEMMA TakenWrittenLast ==
    ASSUME LoopInv, Spi!Reachable, FlashInv, Spi!RotStep
    PROVE  WrittenLast'
<1>1. /\ spi_pc = "execute" /\ Len(op) \in Nat \ {0} /\ Len(op') = Len(op) - 1
      /\ op[1] \in Steps /\ range' = range /\ addr' = addr
  BY StepTaken
<1>2. WrittenLast
  BY <1>1 DEF LoopInv, FlashInv, Programming
<1>3. \A j \in 1 .. Len(op') : j + 1 \in 1 .. Len(op) /\ op'[j] = op[j + 1]
  BY StepTaken
<1>4. ASSUME NEW a \in range.start .. addr - 1
      PROVE  /\ Holds(a)' \/ WillWrite(a, 0)'
             /\ \A j \in 1 .. Len(op') :
                   op'[j].kind = "erase" /\ Covers(op'[j], a) => WillWrite(a, j)'
  <2>1. /\ Holds(a) \/ WillWrite(a, 0)
        /\ \A j \in 1 .. Len(op) :
              op[j].kind = "erase" /\ Covers(op[j], a) => WillWrite(a, j)
    BY <1>2 DEF WrittenLast
  <2>2. a \in 0 .. FlashSpace - 1
    <3>1. /\ range.start \in Nat /\ addr \in Int /\ addr <= FileEnd
          /\ FileEnd \in Nat /\ FileEnd <= Limit
      BY <1>1 DEF LoopInv, FlashInv, SpiTypes, Position, FileEnd
    <3>2. QED
      BY <3>1, FlashSizes
  <2>3. Holds(a)' \/ WillWrite(a, 0)'
    <3>1. CASE Covers(op[1], a) /\ op[1].kind = "write"
      BY <2>2, <3>1, FirstStep
    <3>2. CASE Covers(op[1], a) /\ op[1].kind = "erase"
      <4>1. WillWrite(a, 0 + 1)
        BY <1>1, <2>1, <3>2
      <4>2. QED
        BY <4>1, WillWriteTaken
    <3>3. CASE ~Covers(op[1], a)
      <4>1. CASE Holds(a)
        BY <1>1, <2>2, <3>3, <4>1, FirstStep DEF Holds, Spi!Worn
      <4>2. CASE WillWrite(a, 0)
        <5>1. PICK k \in 0 + 1 .. Len(op) :
                 op[k].kind = "write" /\ Covers(op[k], a)
          BY <4>2 DEF WillWrite
        <5>2. k \in (0 + 1) + 1 .. Len(op)
          BY <1>1, <3>3, <5>1
        <5>3. WillWrite(a, 0 + 1)
          BY <5>1, <5>2 DEF WillWrite
        <5>4. QED
          BY <5>3, WillWriteTaken
      <4>3. QED
        BY <2>1, <4>1, <4>2
    <3>4. QED
      BY <1>1, <3>1, <3>2, <3>3 DEF Steps
  <2>4. ASSUME NEW j \in 1 .. Len(op'), op'[j].kind = "erase", Covers(op'[j], a)
        PROVE  WillWrite(a, j)'
    <3>1. WillWrite(a, j + 1)
      BY <1>3, <2>1, <2>4
    <3>2. j \in Nat
      BY <1>1
    <3>3. QED
      BY <3>1, <3>2, WillWriteTaken
  <2>5. QED
    BY <2>3, <2>4
<1>5. QED
  BY <1>1, <1>4 DEF WrittenLast, Covers

\* A step that the RoT carries out keeps the invariant, whatever it reaches.
LEMMA RotLoop == ASSUME LoopInv, Spi!RotStep PROVE LoopInv'
<1>1. /\ spi_pc = "execute" /\ op[1] \in Steps /\ op' \in Seq(Steps)
      /\ 1 \in 1 .. Len(op)
      /\ flash' = Spi!Applied(flash, op[1])
      /\ spi_pc' = spi_pc /\ range' = range /\ addr' = addr
      /\ len_remaining' = len_remaining
      /\ need_erase_addr' = need_erase_addr /\ pages_in_op' = pages_in_op
  BY StepTaken
<1>2. flash' \in [0 .. FlashSpace - 1 -> Int]
  <2> DEFINE s == op[1]
  <2>1. FlashSpace \in Nat \ {0} /\ s.at \in Nat /\ s.from \in Nat
    BY <1>1, FlashSizes DEF Steps
  <2>2. \A a \in 0 .. FlashSpace - 1 : s.from + ((a - s.at) % FlashSpace) \in Int
    BY <2>1
  <2>3. \A a \in 0 .. FlashSpace - 1 : flash[a] \in Int
    BY DEF LoopInv, SpiTypes
  <2> HIDE DEF s
  <2>4. Spi!Applied(flash, s) \in [0 .. FlashSpace - 1 -> Int]
    BY <2>2, <2>3
       DEF Spi!Applied, Spi!ErasedByte, Spi!MixedByte, Spi!Worn
  <2>5. QED
    BY <1>1, <2>4 DEF s
<1>3. SpiTypes'
  BY <1>1, <1>2 DEF LoopInv, SpiTypes, FileEnd
<1>4. Position'
  <2>1. len_remaining # range.len
    BY <1>1 DEF LoopInv, Position
  <2>2. QED
    BY <1>1, <2>1 DEF LoopInv, Position, Aligned, FileEnd
<1>5. Room'
  BY <1>1 DEF LoopInv, Room
<1>6. QED
  BY <1>3, <1>4, <1>5 DEF LoopInv

LEMMA RotFlash ==
    ASSUME LoopInv, Spi!Reachable, FlashInv, Spi!RotStep
    PROVE  FlashInv'
<1>1. /\ spi_pc = "execute" /\ op[1] \in Steps /\ 1 \in 1 .. Len(op)
      /\ spi_pc' = spi_pc /\ range' = range
  BY StepTaken
<1>2. ASSUME NEW a \in 0 .. FlashSpace - 1
      PROVE  /\ flash'[a] # Spi!MixedByte
             /\ flash'[a] # Spi!Old => Touched(a)
  <2>1. flash[a] # Spi!MixedByte /\ (flash[a] # Spi!Old => Touched(a))
    BY DEF FlashInv, FlashKept
  <2>2. CASE ~Covers(op[1], a)
    BY <2>1, <2>2, FirstStep
  <2>3. CASE Covers(op[1], a)
    <3>1. Touched(a)
      <4>1. a \in Nat /\ Pending
        BY <1>1 DEF FlashInv, Programming
      <4>2. QED
        BY <1>1, <2>3, <4>1 DEF Pending
    <3>2. CASE op[1].kind = "erase"
      BY <2>3, <3>1, <3>2, FirstStep DEF Spi!ErasedByte, Spi!MixedByte
    <3>3. CASE op[1].kind = "write"
      <4>1. Holds(a)' /\ a \in range.start .. addr - 1
        BY <2>3, <3>3, FirstStep
      <4>2. range.start \in Nat /\ addr \in Int
        BY <1>1 DEF LoopInv, SpiTypes, Position, FileEnd
      <4>3. QED
        BY <1>1, <3>1, <4>1, <4>2 DEF Holds, Spi!Worn, Spi!MixedByte
    <3>4. QED
      BY <1>1, <3>2, <3>3 DEF Steps
  <2>4. QED
    BY <2>2, <2>3
<1>3. FlashKept'
  <2>1. \A a : Touched(a)' = Touched(a)
    BY <1>1 DEF Touched, FileEnd
  <2>2. QED
    BY <1>2, <2>1 DEF FlashKept, Spi!MixedByte, Spi!Old
<1>4. Verifying' /\ Ended'
  BY <1>1 DEF Verifying, Ended
<1>5. Programming'
  BY TakenPending, TakenErasedFirst, TakenWrittenLast DEF Programming
<1>6. QED
  BY <1>3, <1>4, <1>5 DEF FlashInv

-----------------------------------------------------------------------------
(* The rest of command_spi_update()                                        *)

\* An empty operation has room for a first page.
LEMMA RoomAtStart ==
    0 \in 0 .. PagesPerOp - 1 /\ 0 <= 0 * Spi!PageCost
<1>1. HeaderBytes \in Nat /\ CommandBytes \in Nat
  BY UpdatesAssumption DEF Spi!SpiAssumption
<1>2. Page \in Nat /\ PagesPerOp \in Nat /\ PagesPerOp > 0
  BY FlashSizes
<1>3. Spi!PageCost \in Nat
  BY <1>1, <1>2 DEF Spi!PageCost
<1>4. QED
  BY <1>2, <1>3

\* Nothing waits when an update begins, whatever the flash holds.
LEMMA BeginLoop ==
    ASSUME LoopInv, NEW a \in Nat, NEW n \in Nat \ {0}, NEW v \in BOOLEAN,
           NEW four \in BOOLEAN, Spi!Begin(a, n, v, four)
    PROVE  LoopInv'
<1>1. /\ a + n <= Limit
      /\ range' = [start |-> a, len |-> n, verify |-> v, is_4_byte |-> four]
      /\ spi_pc' = "update" /\ addr' = a /\ len_remaining' = n
      /\ need_erase_addr' = a /\ op' = <<>> /\ op_bytes' = 0
      /\ pages_in_op' = 0 /\ flash' = flash
  BY DEF Spi!Begin
<1>2. FileEnd' = a + n /\ a \in 0 .. FlashSpace
  BY <1>1, FlashSizes DEF FileEnd
<1>3. SpiTypes'
  BY <1>1, <1>2 DEF LoopInv, SpiTypes
<1>4. Position'
  BY <1>1, <1>2 DEF Position
<1>5. Room'
  <2>2. 0 \in 0 .. PagesPerOp - 1 /\ 0 <= 0 * Spi!PageCost
    BY RoomAtStart
  <2>3. Len(op') = 0
    BY <1>1
  <2>4. QED
    BY <1>1, <2>2, <2>3 DEF Room, Spi!PageCost
<1>6. QED
  BY <1>3, <1>4, <1>5 DEF LoopInv

LEMMA BeginFlash ==
    ASSUME LoopInv, NEW a \in Nat, NEW n \in Nat \ {0}, NEW v \in BOOLEAN,
           NEW four \in BOOLEAN, Spi!Begin(a, n, v, four),
           \/ \A b \in 0 .. FlashSpace - 1 : flash[b] = Spi!Old
           \/ range' = range /\ FlashKept
    PROVE  FlashInv'
<1>1. /\ range'.start = a /\ spi_pc' = "update" /\ addr' = a
      /\ len_remaining' = n /\ range'.len = n
      /\ op' = <<>> /\ flash' = flash
  BY DEF Spi!Begin
<1>2. Programming'
  <2>1. Len(op') = 0
    BY <1>1
  <2>2. Pending' /\ ErasedFirst' /\ WrittenLast'
    BY <1>1, <2>1 DEF Pending, ErasedFirst, WrittenLast
  <2>3. QED
    BY <2>2 DEF Programming
<1>3. Verifying' /\ Ended'
  BY <1>1 DEF Verifying, Ended
<1>4. FlashKept'
  <2>1. CASE \A b \in 0 .. FlashSpace - 1 : flash[b] = Spi!Old
    BY <1>1, <2>1 DEF FlashKept, Spi!Old, Spi!MixedByte
  <2>2. CASE range' = range /\ FlashKept
    <3>1. \A b : Touched(b)' = Touched(b)
      BY <2>2 DEF Touched, FileEnd
    <3>2. QED
      BY <1>1, <2>2, <3>1 DEF FlashKept, Spi!Old, Spi!MixedByte
  <2>3. QED
    BY <2>1, <2>2
<1>5. QED
  BY <1>2, <1>3, <1>4 DEF FlashInv

\* An operation that was carried out is followed by the next one, by the
\* verification or by success.
LEMMA ExecutedEffect ==
    ASSUME LoopInv, Spi!Executed
    PROVE  /\ spi_pc = "execute" /\ op = <<>> /\ op' = op /\ op_bytes' = 0
           /\ range' = range /\ need_erase_addr' = need_erase_addr
           /\ pages_in_op' = pages_in_op /\ flash' = flash
           /\ \/ /\ len_remaining > 0 /\ spi_pc' = "update"
                 /\ addr' = addr /\ len_remaining' = len_remaining
              \/ /\ ~(len_remaining > 0) /\ range.verify /\ spi_pc' = "verify"
                 /\ addr' = range.start /\ len_remaining' = range.len
              \/ ~(len_remaining > 0) /\ ~range.verify /\ spi_pc' = "ok"
           /\ range.start \in Nat /\ range.len \in Nat /\ range.len > 0
           /\ range.verify \in BOOLEAN
           /\ len_remaining \in 0 .. range.len /\ addr = FileEnd - len_remaining
           /\ len_remaining # range.len /\ pages_in_op = 0
           /\ FileEnd' = FileEnd /\ FileEnd = range.start + range.len
<1>1. /\ spi_pc = "execute" /\ op = <<>> /\ op' = op /\ op_bytes' = 0
      /\ range' = range /\ need_erase_addr' = need_erase_addr
      /\ pages_in_op' = pages_in_op /\ flash' = flash
      /\ \/ /\ len_remaining > 0 /\ spi_pc' = "update"
            /\ addr' = addr /\ len_remaining' = len_remaining
         \/ /\ ~(len_remaining > 0) /\ range.verify /\ spi_pc' = "verify"
            /\ addr' = range.start /\ len_remaining' = range.len
         \/ ~(len_remaining > 0) /\ ~range.verify /\ spi_pc' = "ok"
  BY DEF Spi!Executed
<1>2. /\ range.start \in Nat /\ range.len \in Nat /\ range.len > 0
      /\ range.verify \in BOOLEAN
      /\ len_remaining \in 0 .. range.len /\ addr = FileEnd - len_remaining
      /\ len_remaining # range.len /\ pages_in_op = 0
  BY <1>1 DEF LoopInv, SpiTypes, Position, Room
<1>3. FileEnd' = FileEnd /\ FileEnd = range.start + range.len
  BY <1>1 DEF FileEnd
<1>4. QED
  BY <1>1, <1>2, <1>3

LEMMA ExecutedLoop == ASSUME LoopInv, Spi!Executed PROVE LoopInv'
<1>1. SpiTypes'
  BY ExecutedEffect DEF LoopInv, SpiTypes
<1>2. CASE len_remaining > 0 /\ spi_pc' = "update" /\ addr' = addr
           /\ len_remaining' = len_remaining
  <2>1. Position'
    BY <1>2, ExecutedEffect DEF LoopInv, Position, Aligned
  <2>2. Room'
    <3>1. 0 \in 0 .. PagesPerOp - 1 /\ 0 <= 0 * Spi!PageCost
      BY RoomAtStart
    <3>2. Len(op') = 0
      BY ExecutedEffect
    <3>3. QED
      BY <1>2, <3>1, <3>2, ExecutedEffect DEF Room, Spi!PageCost
  <2>3. QED
    BY <1>1, <2>1, <2>2 DEF LoopInv
<1>3. CASE spi_pc' \in {"verify", "ok"}
  BY <1>1, <1>3 DEF LoopInv, Position, Room
<1>4. QED
  BY <1>2, <1>3, ExecutedEffect

LEMMA ExecutedFlash ==
    ASSUME LoopInv, Spi!Reachable, FlashInv, Spi!Executed
    PROVE  FlashInv'
<1>1. /\ spi_pc = "execute" /\ op = <<>> /\ op' = op /\ range' = range
      /\ need_erase_addr' = need_erase_addr /\ flash' = flash
      /\ FileEnd' = FileEnd /\ FileEnd = range.start + range.len
      /\ range.start \in Nat /\ range.len \in Nat /\ range.len > 0
  BY ExecutedEffect
<1>2. /\ \A b : Touched(b)' = Touched(b)
      /\ \A b : Holds(b)' = Holds(b)
  BY <1>1 DEF Touched, FileEnd, Holds, Spi!Worn
<1>3. FlashKept'
  BY <1>1, <1>2 DEF FlashInv, FlashKept, Spi!MixedByte, Spi!Old
<1>4. CASE spi_pc' = "update" /\ addr' = addr /\ len_remaining' = len_remaining
  <2>1. Programming'
    BY <1>1, <1>4 DEF FlashInv, Programming, Pending, ErasedFirst, WrittenLast,
                      Clear, WillWrite, Holds, Touched, FileEnd, Covers,
                      Spi!ErasedByte, Spi!Worn, Spi!Truncate
  <2>2. Verifying' /\ Ended'
    BY <1>4 DEF Verifying, Ended
  <2>3. QED
    BY <1>3, <2>1, <2>2 DEF FlashInv
<1>5. CASE range.verify /\ spi_pc' = "verify" /\ addr' = range.start
           /\ len_remaining' = range.len
  <2>1. Verifying'
    BY <1>1, <1>5 DEF Verifying
  <2>2. QED
    BY <1>3, <1>5, <2>1 DEF FlashInv, Programming, Ended
<1>6. CASE ~(len_remaining > 0) /\ ~range.verify /\ spi_pc' = "ok"
  <2>1. addr = FileEnd /\ WrittenLast /\ Len(op) = 0
    BY <1>1, <1>6, ExecutedEffect DEF FlashInv, Programming
  <2>2. \A a \in range.start .. FileEnd - 1 : Holds(a)
    BY <2>1 DEF WrittenLast, WillWrite
  <2>3. Ended'
    BY <1>1, <1>2, <1>6, <2>2 DEF Ended
  <2>4. QED
    BY <1>3, <1>6, <2>3 DEF FlashInv, Programming, Verifying
<1>7. QED
  BY <1>4, <1>5, <1>6, ExecutedEffect

\* The verification compares what it has read and goes on.
LEMMA VerifyFlash ==
    ASSUME LoopInv, Spi!Reachable, FlashInv, Spi!VerifyChunk
    PROVE  FlashInv'
<1> DEFINE c == Spi!ChunkLen
<1>1. /\ spi_pc = "verify" /\ Spi!ChunkMatches
      /\ len_remaining' = len_remaining - c
      /\ addr' = (addr + c) % FlashSpace
      /\ spi_pc' = IF len_remaining' = 0 THEN "ok" ELSE "verify"
      /\ range' = range /\ op' = op /\ flash' = flash
  BY DEF Spi!VerifyChunk
<1>2. /\ range.start \in Nat /\ range.len \in Nat
      /\ FileEnd \in Nat /\ FileEnd <= Limit /\ range.verify
      /\ len_remaining \in 1 .. range.len /\ addr = FileEnd - len_remaining
      /\ \A a \in range.start .. addr - 1 : flash[a] = a - range.start
  BY <1>1 DEF LoopInv, FlashInv, SpiTypes, Verifying, FileEnd
<1>3. /\ Limit \in Nat /\ Block \in Nat \ {0} /\ Limit + Block <= FlashSpace
      /\ FlashSpace \in Nat /\ ReadChunk \in Nat \ {0}
  BY FlashSizes
<1>4. c \in 1 .. len_remaining
  BY <1>2, <1>3 DEF Spi!ChunkLen, Spi!MinOf
<1>5. FileEnd = range.start + range.len /\ FileEnd' = FileEnd
  BY <1>1 DEF FileEnd
<1>6. addr' = addr + c /\ addr' = FileEnd - len_remaining'
      /\ len_remaining' \in 0 .. range.len /\ addr \in Nat
  <2>1. addr + c \in 0 .. FlashSpace - 1
    BY <1>2, <1>3, <1>4, <1>5
  <2>2. (addr + c) % FlashSpace = addr + c
    BY <2>1, NoWrap
  <2> HIDE DEF c
  <2>3. QED
    BY <1>1, <1>2, <1>4, <1>5, <2>2
<1> HIDE DEF c
<1>7. Spi!OnWire(addr) = addr
  <2>1. addr < FileEnd
    BY <1>2
  <2>2. QED
    BY <1>6, <2>1, OnWireExact
<1>8. \A a \in range.start .. addr' - 1 : flash[a] = a - range.start
  <2> SUFFICES ASSUME NEW a \in range.start .. addr' - 1
               PROVE  flash[a] = a - range.start
    OBVIOUS
  <2>1. CASE a < addr
    BY <1>2, <1>6, <2>1
  <2>2. CASE ~(a < addr)
    <3>1. a - addr \in 0 .. c - 1 /\ addr + (a - addr) = a
      BY <1>2, <1>4, <1>6, <2>2
    <3>2. flash[(addr + (a - addr)) % FlashSpace]
             = range.len - len_remaining + (a - addr)
      BY <1>1, <1>7, <3>1 DEF Spi!ChunkMatches, c
    <3>3. a \in 0 .. FlashSpace - 1
      BY <1>2, <1>3, <1>4, <1>5, <1>6
    <3>4. a % FlashSpace = a
      BY <3>3, NoWrap
    <3>5. range.len - len_remaining + (a - addr) = a - range.start
      BY <1>2, <1>5, <3>1, <3>3
    <3>6. QED
      BY <3>1, <3>2, <3>4, <3>5
  <2>3. QED
    BY <2>1, <2>2
<1>9. FlashKept'
  BY <1>1, <1>5 DEF FlashInv, FlashKept, Touched, FileEnd,
                    Spi!MixedByte, Spi!Old, Spi!Truncate
<1>10. CASE len_remaining' = 0
  <2>1. addr' = FileEnd
    BY <1>2, <1>6, <1>10
  <2>2. Ended'
    BY <1>1, <1>2, <1>5, <1>8, <1>10, <2>1 DEF Ended
  <2>3. QED
    BY <1>1, <1>9, <1>10, <2>2 DEF FlashInv, Programming, Verifying
<1>11. CASE len_remaining' # 0
  <2>1. len_remaining' \in 1 .. range.len
    BY <1>2, <1>6, <1>11
  <2>2. Verifying'
    BY <1>1, <1>2, <1>5, <1>6, <1>8, <2>1 DEF Verifying
  <2>3. QED
    BY <1>1, <1>9, <1>11, <2>2 DEF FlashInv, Programming, Ended
<1>12. QED
  BY <1>10, <1>11

\* Every step of an SPI update keeps the invariant.
LEMMA SpiStep == SpiInv /\ [Spi!Next]_spiVars => SpiInv'
<1> SUFFICES ASSUME SpiInv, [Spi!Next]_spiVars PROVE SpiInv'
  OBVIOUS
<1>0. LoopInv /\ (Spi!Reachable => FlashInv)
  BY DEF SpiInv
<1>1. ASSUME NEW a \in Starts, NEW n \in Lengths, NEW v \in BOOLEAN,
             NEW four \in BOOLEAN, Spi!Start(a, n, v, four)
      PROVE  SpiInv'
  <2>1. a \in Nat /\ n \in Nat \ {0} /\ Spi!Begin(a, n, v, four)
    BY <1>1, UpdatesAssumption DEF Spi!SpiAssumption, Spi!Start
  <2>2. \A b \in 0 .. FlashSpace - 1 : flash[b] = Spi!Old
    BY <1>0, <1>1 DEF Spi!Start, LoopInv, SpiTypes
  <2>3. LoopInv' /\ FlashInv'
    BY <1>0, <2>1, <2>2, BeginLoop, BeginFlash
  <2>4. QED
    BY <2>3 DEF SpiInv
<1>2. CASE Spi!Retry
  <2>1. /\ range \in [start : Nat, len : Nat, verify : BOOLEAN,
                      is_4_byte : BOOLEAN]
        /\ range.len > 0
        /\ Spi!Begin(range.start, range.len, range.verify, range.is_4_byte)
    BY <1>0, <1>2 DEF Spi!Retry, LoopInv, SpiTypes
  <2>2. range' = range
    BY <2>1 DEF Spi!Begin
  <2>3. range.start \in Nat /\ range.len \in Nat \ {0}
        /\ range.verify \in BOOLEAN /\ range.is_4_byte \in BOOLEAN
    BY <2>1
  <2>4. LoopInv'
    BY <1>0, <2>1, <2>3, BeginLoop
  <2>5. FlashInv => FlashInv'
    BY <1>0, <2>1, <2>2, <2>3, BeginFlash DEF FlashInv
  <2>6. Spi!Reachable' <=> Spi!Reachable
    BY <2>2 DEF Spi!Reachable
  <2>7. QED
    BY <1>0, <2>4, <2>5, <2>6 DEF SpiInv
<1>3. CASE Spi!NextUpdate
  <2>1. /\ spi_pc' = "idle" /\ op' = <<>> /\ range' = Spi!NoRange
        /\ flash' = [a \in 0 .. FlashSpace - 1 |-> Spi!Old]
    BY <1>3 DEF Spi!NextUpdate
  <2>2. SpiTypes'
    BY <2>1, FlashSizes DEF SpiTypes, FileEnd, Spi!Old, Spi!NoRange
  <2>3. FlashKept'
    BY <2>1 DEF FlashKept, Spi!Old, Spi!MixedByte
  <2>4. QED
    BY <2>1, <2>2, <2>3 DEF SpiInv, LoopInv, FlashInv, Position, Room,
                            Programming, Verifying, Ended
<1>4. CASE Spi!HostCommandFails \/ Spi!VerifyMismatch
  <2>1. spi_pc' = "failed" /\ range' = range /\ flash' = flash /\ op' = op
        /\ spi_pc # "idle"
    BY <1>4 DEF Spi!HostCommandFails, Spi!VerifyMismatch
  <2>2. LoopInv'
    BY <1>0, <2>1 DEF LoopInv, SpiTypes, FileEnd, Position, Room
  <2>3. FlashInv => FlashInv'
    BY <2>1 DEF FlashInv, FlashKept, Touched, FileEnd, Spi!MixedByte,
                Spi!Old, Spi!Truncate, Programming, Verifying, Ended
  <2>4. Spi!Reachable' <=> Spi!Reachable
    BY <2>1 DEF Spi!Reachable
  <2>5. QED
    BY <1>0, <2>2, <2>3, <2>4 DEF SpiInv
<1>5. CASE UNCHANGED spiVars
  BY <1>5 DEF spiVars, SpiInv, LoopInv, FlashInv, Spi!Reachable, SpiTypes,
              Position, Room, Programming, Verifying,
              Ended, FlashKept, Pending, ErasedFirst, WrittenLast, Clear,
              WillWrite, Holds, Touched, FileEnd, Covers, Aligned
<1>6. CASE Spi!AddPage
  <2>1. Spi!Reachable' <=> Spi!Reachable
    BY <1>6 DEF Spi!AddPage, Spi!Reachable
  <2>2. QED
    BY <1>0, <1>6, <2>1, TurnLoop, TurnFlash DEF SpiInv
<1>7. CASE Spi!RotStep
  <2>1. Spi!Reachable' <=> Spi!Reachable
    BY <1>7 DEF Spi!RotStep, Spi!Reachable
  <2>2. QED
    BY <1>0, <1>7, <2>1, RotLoop, RotFlash DEF SpiInv
<1>8. CASE Spi!Executed
  <2>1. Spi!Reachable' <=> Spi!Reachable
    BY <1>8 DEF Spi!Executed, Spi!Reachable
  <2>2. QED
    BY <1>0, <1>8, <2>1, ExecutedLoop, ExecutedFlash DEF SpiInv
<1>9. CASE Spi!VerifyChunk
  <2>1. /\ spi_pc = "verify" /\ spi_pc' \in {"verify", "ok"}
        /\ range' = range /\ op' = op /\ flash' = flash
    BY <1>9 DEF Spi!VerifyChunk
  <2>2. Spi!Reachable' <=> Spi!Reachable
    BY <2>1 DEF Spi!Reachable
  <2>3. LoopInv'
    BY <1>0, <2>1 DEF LoopInv, SpiTypes, FileEnd, Position, Room
  <2>4. QED
    BY <1>0, <1>9, <2>2, <2>3, VerifyFlash DEF SpiInv
<1>10. QED
  BY <1>1, <1>2, <1>3, <1>4, <1>5, <1>6, <1>7, <1>8, <1>9 DEF Spi!Next

\* The flash before the first update.
LEMMA SpiInit == Spi!Init => SpiInv
<1> SUFFICES ASSUME Spi!Init PROVE SpiInv
  OBVIOUS
<1>1. /\ spi_pc = "idle" /\ op = <<>> /\ range = Spi!NoRange
      /\ flash = [a \in 0 .. FlashSpace - 1 |-> Spi!Old]
  BY DEF Spi!Init
<1>2. SpiTypes
  BY <1>1, FlashSizes DEF SpiTypes, FileEnd, Spi!Old, Spi!NoRange
<1>3. FlashKept
  BY <1>1 DEF FlashKept, Spi!Old, Spi!MixedByte
<1>4. QED
  BY <1>1, <1>2, <1>3 DEF SpiInv, LoopInv, FlashInv, Position, Room,
                          Programming, Verifying, Ended

\* The invariant of libhoth_spi_proxy_update() and _verify() holds always.
THEOREM SpiInvariant == MCSpec => []SpiInv
<1>1. MCInit => SpiInv
  BY SpiInit DEF MCInit
<1>2. SpiInv /\ [MCNext]_<<part, vars, chunkVars, dfuVars, spiVars, logVars>>
         => SpiInv'
  <2>1. [MCNext]_<<part, vars, chunkVars, dfuVars, spiVars, logVars>>
           => [Spi!Next]_spiVars
    BY DEF MCNext
  <2>2. QED
    BY <2>1, SpiStep
<1>3. QED
  BY <1>1, <1>2, PTL DEF MCSpec

\* libhoth_spi_proxy_update() programs no byte that it has not erased in the
\* same update, leaves the file in its range when it reports success (on a
\* faulty chip with --verify), whatever failed runs left behind, and changes no
\* sector outside the range: with four address bytes for every range, with three
\* (--address_mode 3B) for every range below 2^24.
THEOREM FlashStaysRight == MCSpec => []FlashIsRight
<1>1. SpiInv => FlashIsRight
  <2> SUFFICES ASSUME LoopInv, FlashInv
               PROVE  Spi!NothingIsMixed /\ Spi!FlashHoldsFile /\ Spi!NeighboursKept
    BY DEF SpiInv, FlashIsRight, Spi!FlashIsRight
  <2>1. /\ range.start \in Nat /\ range.len \in Nat /\ range.verify \in BOOLEAN
        /\ FileEnd = range.start + range.len /\ FileEnd <= Limit
    BY DEF LoopInv, FlashInv, SpiTypes, FileEnd
  <2>2. \A n \in 0 .. range.len - 1 :
           /\ range.start + n \in range.start .. FileEnd - 1
           /\ (range.start + n) % FlashSpace = range.start + n
    <3> SUFFICES ASSUME NEW n \in 0 .. range.len - 1
                 PROVE  /\ range.start + n \in range.start .. FileEnd - 1
                        /\ (range.start + n) % FlashSpace = range.start + n
      OBVIOUS
    <3>1. range.start + n \in 0 .. FlashSpace - 1
      BY <2>1, FlashSizes
    <3>2. QED
      BY <2>1, <3>1, NoWrap
  <2>3. \A b \in range.start .. FileEnd - 1 : b \in Spi!InRange
    <3> SUFFICES ASSUME NEW b \in range.start .. FileEnd - 1
                 PROVE  b \in Spi!InRange
      OBVIOUS
    <3>1. b - range.start \in 0 .. range.len - 1 /\ range.start + (b - range.start) = b
      BY <2>1
    <3>2. b = (range.start + (b - range.start)) % FlashSpace
      BY <2>2, <3>1
    <3>3. QED
      BY <3>1, <3>2 DEF Spi!InRange
  <2>4. Spi!NothingIsMixed
    BY DEF LoopInv, FlashInv, FlashKept, Spi!NothingIsMixed
  <2>5. Spi!NeighboursKept
    BY <2>3 DEF LoopInv, FlashInv, FlashKept, Touched, Spi!NeighboursKept
  <2>6. Spi!FlashHoldsFile
    <3> SUFFICES ASSUME spi_pc = "ok",
                        range.verify \/ Spi!InRange \intersect WornBytes = {},
                        NEW n \in 0 .. range.len - 1
                 PROVE  flash[(range.start + n) % FlashSpace] = n
      BY DEF Spi!FlashHoldsFile
    <3>1. flash[range.start + n] = (range.start + n) - range.start
      <4>1. CASE range.verify
        BY <2>2, <4>1 DEF LoopInv, FlashInv, Ended
      <4>2. CASE ~range.verify
        <5>1. Holds(range.start + n)
          BY <2>2, <4>2 DEF LoopInv, FlashInv, Ended
        <5>2. range.start + n \notin WornBytes
          BY <2>2, <2>3, <4>2
        <5>3. QED
          BY <5>1, <5>2 DEF Holds
      <4>3. QED
        BY <4>1, <4>2
    <3>2. QED
      BY <2>1, <2>2, <3>1
  <2>7. QED
    BY <2>4, <2>5, <2>6
<1>2. QED
  BY <1>1, SpiInvariant, PTL

\* The assertions of spi_operation_begin_transaction() and
\* spi_operation_write_mosi() never fail.
THEOREM AssertionsHold == MCSpec => []NeverAborts
<1>1. SpiInv => NeverAborts
  BY DEF SpiInv, LoopInv, SpiTypes, NeverAborts, Spi!NeverAborts
<1>2. QED
  BY <1>1, SpiInvariant, PTL

-----------------------------------------------------------------------------
(* Installing firmware                                                     *)

DfuImages == [rom_ext : RomExts, app : Apps, sec : SecVers]
PartOf(V) == [slots : [{0, 1} -> V], booted : {0, 1}]

\* A part with its staging slot written, and one that boots its other slot.
WithStaged(p, v) == [p EXCEPT !.slots[Dfu!Other(p.booted)] = v]
Swapped(p) == [p EXCEPT !.booted = Dfu!Other(@)]

DfuTypes ==
    /\ rom_ext \in PartOf(RomExts \cup {Dfu!TornRomExt})
    /\ app \in PartOf(Apps \cup {Torn})
    /\ dfu_pc \in {"idle", "version", "write", "complete", "reconnect", "check",
               "returned"}
    /\ dfu_pc # "idle" => dfu_image \in DfuImages
    /\ dfu_args \in [restart : BOOLEAN, force : BOOLEAN]
    /\ sent \in Nat
    /\ dfu_faulty \in BOOLEAN
    /\ dfu_result # "none" => dfu_pc = "returned"

\* What runs is never torn, and when DFU_COMPLETE is sent to an open session
\* the staging slots hold the image.
BootSafe ==
    /\ Dfu!Booted(app) \in Apps
    /\ Dfu!Booted(rom_ext) \in RomExts
    /\ dfu_pc = "complete" /\ session # -1 =>
          Dfu!Staged(app) = dfu_image.app /\ Dfu!Staged(rom_ext) = dfu_image.rom_ext

\* How far an undisturbed install, not a forced one, has come: before its last
\* update the image is what runs, and after it both slots hold it.
OnTrack ==
    ~dfu_faulty /\ dfu_args.restart /\ ~dfu_args.force =>
        /\ dfu_pc = "version" => update_cnt = 0 /\ i = 0
        /\ dfu_pc \in {"write", "complete", "reconnect", "check"} =>
              update_cnt \in {1, 2} /\ i \in 0 .. update_cnt - 1
        /\ dfu_pc \in {"write", "complete"} /\ i = update_cnt - 1 =>
              Dfu!CheckUpdateSuccessful(Dfu!Version)
        /\ dfu_pc \in {"reconnect", "check"} =>
              /\ Dfu!CheckUpdateSuccessful(Dfu!Version)
              /\ i = update_cnt - 1 => Dfu!UpdateComplete(Dfu!Version)

\* A forced update is past the version check.
Forced ==
    dfu_args.force => dfu_pc \notin {"version", "check"}

\* A successful install: what libhoth_update_complete() looked at still holds.
Installed == dfu_result = "ok" /\ ~dfu_args.force => Dfu!UpdateComplete(Dfu!Version)

\* The inductive invariant.
DfuInv ==
    /\ DfuTypes /\ BootSafe /\ OnTrack /\ Forced /\ Installed
    /\ Dfu!CountedUpdatesSuffice
-----------------------------------------------------------------------------
(* What writing the staging slot and booting the other one do to a part.   *)

\* Writing the staging slot leaves what runs alone.
LEMMA WithStagedFacts ==
    ASSUME NEW V, NEW p \in PartOf(V), NEW v \in V
    PROVE  /\ WithStaged(p, v) \in PartOf(V)
           /\ Dfu!Booted(WithStaged(p, v)) = Dfu!Booted(p)
           /\ Dfu!Staged(WithStaged(p, v)) = v
  BY DEF PartOf, WithStaged, Dfu!Booted, Dfu!Staged, Dfu!Other

\* Booting the other slot exchanges what runs and what is staged.
LEMMA SwappedFacts ==
    ASSUME NEW V, NEW p \in PartOf(V)
    PROVE  /\ Swapped(p) \in PartOf(V)
           /\ Dfu!Booted(Swapped(p)) = Dfu!Staged(p)
           /\ Dfu!Staged(Swapped(p)) = Dfu!Booted(p)
  BY DEF PartOf, Swapped, Dfu!Booted, Dfu!Staged, Dfu!Other

\* Both slots of a part hold values of its set.
LEMMA SlotTypes ==
    ASSUME NEW V, NEW p \in PartOf(V)
    PROVE  Dfu!Booted(p) \in V /\ Dfu!Staged(p) \in V
  BY DEF PartOf, Dfu!Booted, Dfu!Staged, Dfu!Other

\* Two versions that can be read back, or torn ones, compare as numbers.
LEMMA VersionsAreNumbers ==
    ASSUME Dfu!DfuAssumption
    PROVE  /\ \A v \in RomExts : v \in Nat
           /\ \A v \in RomExts \cup {Dfu!TornRomExt} : v \in Int
           /\ Dfu!TornRomExt = -1 /\ Dfu!TornRomExt \notin RomExts
           /\ Torn \notin Apps
<1>1. \A v \in RomExts : v \in Nat
  BY Zenon DEF Dfu!DfuAssumption
<1>2. Torn \notin Apps
  BY Zenon DEF Dfu!DfuAssumption
<1>3. QED
  BY <1>1, <1>2 DEF Dfu!TornRomExt

\* DFU_WRITE writes the staging slots and nothing else of the two parts.
LEMMA WriteFacts ==
    ASSUME Dfu!DfuAssumption, DfuTypes, dfu_pc # "idle", Dfu!WriteCarriedOut
    PROVE  /\ rom_ext' \in PartOf(RomExts \cup {Dfu!TornRomExt})
           /\ app' \in PartOf(Apps \cup {Torn})
           /\ Dfu!Booted(rom_ext') = Dfu!Booted(rom_ext) /\ Dfu!Booted(app') = Dfu!Booted(app)
           /\ session' = sent + 1
           /\ sent + 1 = Chunks =>
                 Dfu!Staged(rom_ext') = dfu_image.rom_ext /\ Dfu!Staged(app') = dfu_image.app
<1> DEFINE r == IF sent + 1 = Chunks THEN dfu_image.rom_ext ELSE Dfu!TornRomExt
           a == IF sent + 1 = Chunks THEN dfu_image.app ELSE Torn
<1>1. r \in RomExts \cup {Dfu!TornRomExt} /\ a \in Apps \cup {Torn}
  BY DEF DfuTypes, DfuImages
<1>2. rom_ext' = WithStaged(rom_ext, r) /\ app' = WithStaged(app, a)
  BY DEF Dfu!WriteCarriedOut, WithStaged
<1>3. /\ rom_ext \in PartOf(RomExts \cup {Dfu!TornRomExt})
      /\ app \in PartOf(Apps \cup {Torn})
  BY DEF DfuTypes
<1>4. /\ rom_ext' \in PartOf(RomExts \cup {Dfu!TornRomExt})
      /\ Dfu!Booted(rom_ext') = Dfu!Booted(rom_ext) /\ Dfu!Staged(rom_ext') = r
  <2> HIDE DEF r
  <2> QED
    BY <1>1, <1>2, <1>3, WithStagedFacts
<1>5. /\ app' \in PartOf(Apps \cup {Torn})
      /\ Dfu!Booted(app') = Dfu!Booted(app) /\ Dfu!Staged(app') = a
  <2> HIDE DEF a
  <2> QED
    BY <1>1, <1>2, <1>3, WithStagedFacts
<1>6. QED
  BY <1>4, <1>5 DEF Dfu!WriteCarriedOut

\* A restart of the RoT boots the newer ROM_EXT of the two slots, and never a
\* torn one.
LEMMA RebootFacts ==
    ASSUME Dfu!DfuAssumption, DfuTypes, BootSafe, Dfu!Rebooted
    PROVE  /\ rom_ext' \in PartOf(RomExts \cup {Dfu!TornRomExt})
           /\ Dfu!Booted(rom_ext') \in RomExts
           /\ \/ /\ Dfu!Staged(rom_ext) >= Dfu!Booted(rom_ext)
                 /\ Dfu!Booted(rom_ext') = Dfu!Staged(rom_ext)
                 /\ Dfu!Staged(rom_ext') = Dfu!Booted(rom_ext)
              \/ /\ Dfu!Staged(rom_ext) < Dfu!Booted(rom_ext)
                 /\ rom_ext' = rom_ext
           /\ session' = -1
<1>1. /\ rom_ext \in PartOf(RomExts \cup {Dfu!TornRomExt})
      /\ Dfu!Booted(rom_ext) \in RomExts
      /\ Dfu!Staged(rom_ext) \in RomExts \cup {Dfu!TornRomExt}
  BY SlotTypes DEF DfuTypes, BootSafe
<1>2. Dfu!Booted(rom_ext) \in Nat /\ Dfu!Staged(rom_ext) \in Int
  BY <1>1, VersionsAreNumbers
<1>3. CASE Dfu!Staged(rom_ext) >= Dfu!Booted(rom_ext)
  <2>1. rom_ext' = Swapped(rom_ext)
    BY <1>3 DEF Dfu!Rebooted, Swapped
  <2>2. Dfu!Staged(rom_ext) \in RomExts
    BY <1>1, <1>2, <1>3, VersionsAreNumbers
  <2>3. QED
    BY <1>1, <1>3, <2>1, <2>2, SwappedFacts DEF Dfu!Rebooted
<1>4. CASE ~(Dfu!Staged(rom_ext) >= Dfu!Booted(rom_ext))
  <2>1. rom_ext' = rom_ext
    BY <1>1, <1>4 DEF Dfu!Rebooted, PartOf
  <2>2. QED
    BY <1>1, <1>2, <1>4, <2>1 DEF Dfu!Rebooted
<1>5. QED
  BY <1>3, <1>4
-----------------------------------------------------------------------------
(* The invariant holds initially and is kept by every step.                *)

\* The RoT starts with whole images in all slots.
LEMMA DfuInit == ASSUME Dfu!DfuAssumption PROVE Dfu!Init => DfuInv
<1> SUFFICES ASSUME Dfu!Init PROVE DfuInv
  OBVIOUS
<1>1. DfuTypes
  BY DEF Dfu!Init, DfuTypes, PartOf, Dfu!NoArgs
<1>2. Dfu!Booted(app) \in Apps /\ Dfu!Booted(rom_ext) \in RomExts
  <2>1. app \in PartOf(Apps) /\ rom_ext \in PartOf(RomExts)
    BY DEF Dfu!Init, PartOf
  <2>2. QED
    BY <2>1, SlotTypes
<1>3. QED
  BY <1>1, <1>2 DEF Dfu!Init, DfuInv, BootSafe, OnTrack, Forced, Installed,
                    Dfu!CountedUpdatesSuffice, Dfu!NoArgs

\* Steps that leave the RoT's slots alone.
LEMMA InstallStep ==
    ASSUME Dfu!DfuAssumption, DfuInv,
           \/ \E img \in DfuImages, a \in [restart : BOOLEAN, force : BOOLEAN] :
                 Dfu!Start(img, a)
           \/ Dfu!GetVersion \/ Dfu!GetVersionFails
           \/ Dfu!Reconnect \/ Dfu!ReconnectFails
           \/ Dfu!CheckAfterUpdate \/ Dfu!Exit
    PROVE  DfuInv'
<1>0. UNCHANGED <<rom_ext, app, session, Dfu!Booted(app), Dfu!Booted(rom_ext)>>
  BY DEF Dfu!rotVars, Dfu!Start, Dfu!GetVersion, Dfu!GetVersionFails,
         Dfu!Reconnect, Dfu!ReconnectFails, Dfu!CheckAfterUpdate, Dfu!Exit
<1>1. DfuTypes'
  <2> USE DEF DfuInv, DfuTypes
  <2>1. CASE \E img \in DfuImages, a \in [restart : BOOLEAN, force : BOOLEAN] :
                Dfu!Start(img, a)
    <3>1. PICK img \in DfuImages, a \in [restart : BOOLEAN, force : BOOLEAN] :
               Dfu!Start(img, a)
      BY <2>1
    <3>2. /\ dfu_pc' \in {"write", "version"} /\ sent' = 0 /\ dfu_faulty' = FALSE
          /\ dfu_image' = img /\ dfu_args' = a /\ dfu_result' = dfu_result /\ dfu_pc = "idle"
      BY <3>1 DEF Dfu!Start
    <3>3. QED
      BY <1>0, <3>2
  <2>2. CASE Dfu!GetVersion \/ Dfu!CheckAfterUpdate
    BY <1>0, <2>2 DEF Dfu!GetVersion, Dfu!CheckAfterUpdate, Dfu!AfterLoop,
                      Dfu!Return
  <2>3. CASE Dfu!GetVersionFails \/ Dfu!ReconnectFails
    BY <1>0, <2>3 DEF Dfu!GetVersionFails, Dfu!ReconnectFails, Dfu!Return,
                      Dfu!callVars
  <2>4. CASE Dfu!Reconnect
    BY <1>0, <2>4 DEF Dfu!Reconnect, Dfu!Return
  <2>5. CASE Dfu!Exit
    BY <1>0, <2>5 DEF Dfu!Exit, Dfu!NoArgs
  <2>6. QED
    BY <2>1, <2>2, <2>3, <2>4, <2>5
<1>2. BootSafe'
  BY <1>0 DEF DfuInv, BootSafe, Dfu!rotVars, Dfu!callVars, Dfu!Start,
              Dfu!GetVersion, Dfu!AfterLoop, Dfu!GetVersionFails,
              Dfu!Reconnect, Dfu!ReconnectFails, Dfu!CheckAfterUpdate,
              Dfu!Exit, Dfu!Return
<1>3. Forced'
  BY DEF DfuInv, Forced, Dfu!callVars, Dfu!Start, Dfu!GetVersion,
         Dfu!AfterLoop, Dfu!GetVersionFails, Dfu!Reconnect, Dfu!ReconnectFails,
         Dfu!CheckAfterUpdate, Dfu!Exit, Dfu!Return, Dfu!NoArgs
<1>n. dfu_pc # "idle" => Dfu!Booted(rom_ext) \in Nat /\ dfu_image.rom_ext \in Nat
  BY VersionsAreNumbers DEF DfuInv, DfuTypes, BootSafe, DfuImages
<1>4. OnTrack' /\ Installed' /\ Dfu!CountedUpdatesSuffice'
  <2>1. CASE \E img \in DfuImages, a \in [restart : BOOLEAN, force : BOOLEAN] :
                Dfu!Start(img, a)
    BY <2>1 DEF DfuInv, DfuTypes, Dfu!Start, OnTrack, Installed,
                Dfu!CountedUpdatesSuffice
  <2>2. CASE Dfu!GetVersion
    <3>1. /\ UNCHANGED <<dfu_image, dfu_args, i, dfu_faulty, Dfu!Version>>
          /\ dfu_pc = "version"
      BY <1>0, <2>2 DEF Dfu!GetVersion, Dfu!Version
    <3>2. CASE dfu_image.sec < min_sec_ver
      BY <2>2, <3>1, <3>2 DEF Dfu!GetVersion, Dfu!Return, DfuInv, OnTrack,
                              Installed, Dfu!CountedUpdatesSuffice, Forced
    <3>3. CASE ~(dfu_image.sec < min_sec_ver) /\ Dfu!DfuUpdateCount(Dfu!Version) = 0
      <4>1. dfu_pc' = "returned" /\ update_cnt' = 0
        BY <2>2, <3>3 DEF Dfu!GetVersion, Dfu!AfterLoop, Dfu!Return
      <4>2. dfu_result' = "ok" => Dfu!UpdateComplete(Dfu!Version)
        BY <2>2, <3>3 DEF Dfu!GetVersion, Dfu!AfterLoop, Dfu!Return
      <4>3. QED
        BY <3>1, <4>1, <4>2 DEF OnTrack, Installed, Dfu!CountedUpdatesSuffice,
                                Dfu!UpdateComplete
    <3>4. CASE ~(dfu_image.sec < min_sec_ver) /\ Dfu!DfuUpdateCount(Dfu!Version) # 0
      <4>1. Dfu!DfuUpdateCount(Dfu!Version) \in {1, 2}
        BY <3>4 DEF Dfu!DfuUpdateCount
      <4>2. dfu_pc' = "write" /\ dfu_result' = dfu_result
            /\ update_cnt' = Dfu!DfuUpdateCount(Dfu!Version)
        BY <2>2, <3>4, <4>1 DEF Dfu!GetVersion, Dfu!AfterLoop
      <4>3. Dfu!DfuUpdateCount(Dfu!Version) = 1 => Dfu!CheckUpdateSuccessful(Dfu!Version)
        BY <1>n, <3>1 DEF Dfu!DfuUpdateCount, Dfu!CheckUpdateSuccessful,
                          Dfu!Version
      <4>4. dfu_result # "ok"
        BY <3>1 DEF DfuInv, DfuTypes
      <4>5. QED
        BY <3>1, <4>1, <4>2, <4>3, <4>4
           DEF DfuInv, OnTrack, Installed, Dfu!CountedUpdatesSuffice,
               Dfu!CheckUpdateSuccessful
    <3>5. QED
      BY <3>2, <3>3, <3>4
  <2>3. CASE Dfu!GetVersionFails \/ Dfu!ReconnectFails
    BY <2>3 DEF DfuInv, DfuTypes, Dfu!GetVersionFails, Dfu!ReconnectFails,
                Dfu!Return, Dfu!callVars, OnTrack, Installed,
                Dfu!CountedUpdatesSuffice
  <2>4. CASE Dfu!Reconnect
    <3>1. /\ UNCHANGED <<dfu_image, dfu_args, update_cnt, dfu_faulty, Dfu!Version>>
          /\ dfu_pc = "reconnect" /\ dfu_result # "ok"
      BY <1>0, <2>4 DEF Dfu!Reconnect, Dfu!Version, DfuInv, DfuTypes
    <3>2. CASE dfu_args.force
      BY <2>4, <3>1, <3>2 DEF Dfu!Reconnect, Dfu!Return, OnTrack, Installed,
                              Dfu!CountedUpdatesSuffice
    <3>3. CASE ~dfu_args.force
      <4>1. dfu_pc' = "check" /\ i' = i /\ dfu_result' = dfu_result
        BY <2>4, <3>3 DEF Dfu!Reconnect
      <4>2. QED
        BY <3>1, <4>1 DEF DfuInv, OnTrack, Installed,
                          Dfu!CountedUpdatesSuffice, Dfu!CheckUpdateSuccessful,
                          Dfu!UpdateComplete
    <3>4. QED
      BY <3>2, <3>3
  <2>5. CASE Dfu!CheckAfterUpdate
    <3>1. /\ UNCHANGED <<dfu_image, dfu_args, update_cnt, dfu_faulty, Dfu!Version>>
          /\ dfu_pc = "check" /\ dfu_result # "ok" /\ ~dfu_args.force /\ i' = i + 1
      BY <1>0, <2>5 DEF Dfu!CheckAfterUpdate, Dfu!Version, DfuInv, DfuTypes,
                        Forced
    <3>2. CASE Dfu!CheckUpdateSuccessful(Dfu!Version) /\ i' < update_cnt
      <4>1. dfu_pc' = "write" /\ dfu_result' = dfu_result
        BY <2>5, <3>2 DEF Dfu!CheckAfterUpdate, Dfu!AfterLoop
      <4>2. QED
        BY <3>1, <3>2, <4>1 DEF DfuInv, OnTrack, Installed,
                                Dfu!CountedUpdatesSuffice,
                                Dfu!CheckUpdateSuccessful
    <3>3. CASE Dfu!CheckUpdateSuccessful(Dfu!Version) /\ ~(i' < update_cnt)
      <4>1. /\ dfu_pc' = "returned"
            /\ dfu_result' = IF Dfu!UpdateComplete(Dfu!Version) THEN "ok" ELSE "mismatch"
        BY <2>5, <3>3 DEF Dfu!CheckAfterUpdate, Dfu!AfterLoop, Dfu!Return
      <4>2. ~dfu_faulty /\ dfu_args.restart => i = update_cnt - 1
        BY <3>1, <3>3 DEF DfuInv, OnTrack
      <4>3. ~dfu_faulty /\ dfu_args.restart => Dfu!UpdateComplete(Dfu!Version)
        BY <3>1, <4>2 DEF DfuInv, OnTrack
      <4>4. QED
        BY <3>1, <4>1, <4>3 DEF OnTrack, Installed, Dfu!CountedUpdatesSuffice,
                                Dfu!UpdateComplete
    <3>4. CASE ~Dfu!CheckUpdateSuccessful(Dfu!Version)
      <4>1. dfu_pc' = "returned" /\ dfu_result' = "wrong_slot"
        BY <2>5, <3>4 DEF Dfu!CheckAfterUpdate, Dfu!Return
      <4>2. dfu_faulty \/ ~dfu_args.restart
        BY <3>1, <3>4 DEF DfuInv, OnTrack, DfuTypes
      <4>3. QED
        BY <3>1, <4>1, <4>2 DEF OnTrack, Installed, Dfu!CountedUpdatesSuffice
    <3>5. QED
      BY <3>2, <3>3, <3>4
  <2>6. CASE Dfu!Exit
    BY <2>6 DEF Dfu!Exit, Dfu!NoArgs, OnTrack, Installed,
                Dfu!CountedUpdatesSuffice
  <2>7. QED
    BY <2>1, <2>2, <2>3, <2>4, <2>5, <2>6
<1>5. QED
  BY <1>1, <1>2, <1>3, <1>4 DEF DfuInv
\* A chunk that is written, reported or not, does not touch what runs.
LEMMA DfuWriteStep ==
    ASSUME Dfu!DfuAssumption, DfuInv, Dfu!DfuWrite \/ Dfu!DfuWriteFails
    PROVE  DfuInv'
<1>1. /\ dfu_pc = "write" /\ dfu_result # "ok"
      /\ UNCHANGED <<dfu_image, dfu_args, update_cnt, i>>
      /\ Dfu!WriteCarriedOut \/ UNCHANGED <<rom_ext, app, session>>
  BY DEF DfuInv, DfuTypes, Dfu!DfuWrite, Dfu!DfuWriteFails, Dfu!callVars,
         Dfu!rotVars
<1>2. /\ rom_ext' \in PartOf(RomExts \cup {Dfu!TornRomExt})
      /\ app' \in PartOf(Apps \cup {Torn})
      /\ Dfu!Booted(rom_ext') = Dfu!Booted(rom_ext) /\ Dfu!Booted(app') = Dfu!Booted(app)
  BY <1>1, WriteFacts DEF DfuInv, DfuTypes
<1>3. DfuTypes'
  <2>1. CASE Dfu!DfuWrite
    BY <1>1, <1>2, <2>1 DEF DfuInv, DfuTypes, Dfu!DfuWrite
  <2>2. CASE Dfu!DfuWriteFails
    BY <1>1, <1>2, <2>2 DEF DfuInv, DfuTypes, Dfu!DfuWriteFails, Dfu!Return,
                            Dfu!callVars
  <2>3. QED
    BY <2>1, <2>2
<1>4. BootSafe'
  <2>1. dfu_pc' = "complete" => Dfu!WriteCarriedOut /\ sent + 1 = Chunks
    BY DEF Dfu!DfuWrite, Dfu!DfuWriteFails, Dfu!Return
  <2>2. QED
    BY <1>1, <1>2, <2>1, WriteFacts DEF DfuInv, BootSafe
<1>5. Dfu!CheckUpdateSuccessful(Dfu!Version)' <=> Dfu!CheckUpdateSuccessful(Dfu!Version)
  BY <1>1, <1>2 DEF Dfu!CheckUpdateSuccessful, Dfu!Version
<1>6. /\ dfu_pc' = "returned" => dfu_faulty' /\ dfu_result' = "error"
      /\ dfu_pc' # "returned" => /\ dfu_pc' \in {"write", "complete"}
                             /\ UNCHANGED <<dfu_faulty, dfu_result>>
  BY DEF Dfu!DfuWrite, Dfu!DfuWriteFails, Dfu!Return
<1>7. OnTrack' /\ Installed' /\ Dfu!CountedUpdatesSuffice' /\ Forced'
  BY <1>1, <1>5, <1>6 DEF DfuInv, OnTrack, Installed,
                          Dfu!CountedUpdatesSuffice, Forced
<1>8. QED
  BY <1>3, <1>4, <1>7 DEF DfuInv

\* DFU_COMPLETE boots what the whole session has written, or does nothing.
LEMMA CompleteStep ==
    ASSUME Dfu!DfuAssumption, DfuInv, NEW ok \in BOOLEAN, Dfu!DfuComplete(ok)
    PROVE  DfuInv'
<1>1. /\ dfu_pc = "complete" /\ dfu_pc' = "reconnect" /\ dfu_result # "ok"
      /\ UNCHANGED <<dfu_image, dfu_args, update_cnt, i, sent, dfu_result>>
      /\ dfu_faulty' \in BOOLEAN
      /\ ~dfu_faulty' => ~dfu_faulty /\ ok /\ session # -1
      /\ dfu_image \in DfuImages /\ DfuTypes /\ BootSafe
  BY DEF DfuInv, DfuTypes, Dfu!DfuComplete, Dfu!callVars
<1>2. CASE UNCHANGED <<rom_ext, app>> /\ ~(~dfu_faulty' /\ dfu_args.restart)
  <2>1. DfuTypes' /\ BootSafe'
    BY <1>1, <1>2 DEF DfuTypes, BootSafe
  <2>2. QED
    BY <1>1, <1>2, <2>1 DEF DfuInv, OnTrack, Installed,
                            Dfu!CountedUpdatesSuffice, Forced
<1>3. CASE session # -1 /\ Dfu!Rebooted /\ app' = [app EXCEPT !.booted = Dfu!Other(@)]
  <2>1. /\ app' \in PartOf(Apps \cup {Torn})
        /\ Dfu!Booted(app') = dfu_image.app /\ Dfu!Staged(app') = Dfu!Booted(app)
    BY <1>1, <1>3, SwappedFacts DEF BootSafe, DfuTypes, Swapped
  <2>2. /\ rom_ext' \in PartOf(RomExts \cup {Dfu!TornRomExt})
        /\ Dfu!Booted(rom_ext') \in RomExts
        /\ \/ /\ dfu_image.rom_ext >= Dfu!Booted(rom_ext)
              /\ Dfu!Booted(rom_ext') = dfu_image.rom_ext
              /\ Dfu!Staged(rom_ext') = Dfu!Booted(rom_ext)
           \/ /\ dfu_image.rom_ext < Dfu!Booted(rom_ext)
              /\ rom_ext' = rom_ext /\ Dfu!Staged(rom_ext) = dfu_image.rom_ext
    BY <1>1, <1>3, RebootFacts DEF BootSafe
  <2>3. Dfu!Booted(rom_ext) \in Nat /\ dfu_image.rom_ext \in Nat
    BY <1>1, VersionsAreNumbers DEF BootSafe, DfuImages
  <2>4. DfuTypes' /\ BootSafe'
    BY <1>1, <2>1, <2>2 DEF DfuTypes, BootSafe, DfuImages
  <2>5. Dfu!CheckUpdateSuccessful(Dfu!Version)'
    BY <1>1, <2>1, <2>2, <2>3 DEF Dfu!CheckUpdateSuccessful, Dfu!Version
  <2>6. Dfu!CheckUpdateSuccessful(Dfu!Version) => Dfu!UpdateComplete(Dfu!Version)'
    BY <1>1, <2>1, <2>2, <2>3 DEF Dfu!CheckUpdateSuccessful,
                                  Dfu!UpdateComplete, Dfu!Version
  <2>7. OnTrack'
    BY <1>1, <2>5, <2>6 DEF DfuInv, OnTrack
  <2>8. QED
    BY <1>1, <2>4, <2>7 DEF DfuInv, Installed, Dfu!CountedUpdatesSuffice,
                            Forced
<1>4. QED
  <2>1. session = -1 \/ ~ok => UNCHANGED <<rom_ext, app>>
    BY DEF Dfu!DfuComplete, Dfu!rotVars
  <2>2. ~dfu_args.restart => UNCHANGED <<rom_ext, app>>
    BY DEF Dfu!DfuComplete, Dfu!rotVars, Dfu!CompleteCarriedOut
  <2>3. session # -1 /\ ok /\ dfu_args.restart =>
           Dfu!Rebooted /\ app' = [app EXCEPT !.booted = Dfu!Other(@)]
    BY DEF Dfu!DfuComplete, Dfu!CompleteCarriedOut
  <2>4. dfu_faulty' = (dfu_faulty \/ ~ok \/ session = -1)
    BY DEF Dfu!DfuComplete
  <2>5. QED
    BY <1>2, <1>3, <2>1, <2>2, <2>3, <2>4

\* A reset of the chip may boot the other ROM_EXT, which is then as new, and
\* loses the open session.
LEMMA ResetStep ==
    ASSUME Dfu!DfuAssumption, DfuInv, Dfu!RotResets
    PROVE  DfuInv'
<1>1. /\ dfu_pc # "idle" /\ dfu_faulty' = TRUE /\ Dfu!Rebooted
      /\ UNCHANGED <<app, dfu_pc, dfu_image, dfu_args, update_cnt, i, sent, dfu_result>>
      /\ dfu_image \in DfuImages /\ DfuTypes /\ BootSafe
  BY DEF DfuInv, DfuTypes, Dfu!RotResets, Dfu!callVars
<1>2. /\ rom_ext' \in PartOf(RomExts \cup {Dfu!TornRomExt})
      /\ Dfu!Booted(rom_ext') \in RomExts /\ session' = -1
      /\ \/ /\ Dfu!Staged(rom_ext) >= Dfu!Booted(rom_ext)
            /\ Dfu!Booted(rom_ext') = Dfu!Staged(rom_ext)
            /\ Dfu!Staged(rom_ext') = Dfu!Booted(rom_ext)
         \/ /\ Dfu!Staged(rom_ext) < Dfu!Booted(rom_ext)
            /\ rom_ext' = rom_ext
  BY <1>1, RebootFacts
<1>3. DfuTypes' /\ BootSafe'
  BY <1>1, <1>2 DEF DfuTypes, BootSafe
<1>4. Installed'
  <2>1. SUFFICES ASSUME dfu_result = "ok", ~dfu_args.force
                 PROVE  Dfu!UpdateComplete(Dfu!Version)'
    BY <1>1 DEF Installed
  <2>2. Dfu!UpdateComplete(Dfu!Version)
    BY <2>1 DEF DfuInv, Installed
  <2>3. Dfu!Booted(rom_ext) \in Nat /\ dfu_image.rom_ext \in Nat
    BY <1>1, VersionsAreNumbers DEF BootSafe, DfuImages
  <2>4. QED
    BY <1>1, <1>2, <2>2, <2>3 DEF Dfu!UpdateComplete, Dfu!Version
<1>5. QED
  BY <1>1, <1>3, <1>4 DEF DfuInv, OnTrack, Dfu!CountedUpdatesSuffice, Forced

\* Every step of the install, of the RoT and of the tool keeps the invariant.
LEMMA DfuStep == ASSUME Dfu!DfuAssumption PROVE DfuInv /\ [Dfu!Next]_dfuVars => DfuInv'
<1> SUFFICES ASSUME DfuInv, [Dfu!Next]_dfuVars PROVE DfuInv'
  OBVIOUS
<1>1. CASE Dfu!Next
  BY <1>1, InstallStep, DfuWriteStep, CompleteStep, ResetStep
     DEF Dfu!Next, DfuImages
<1>2. CASE UNCHANGED dfuVars
  BY <1>2 DEF dfuVars, DfuInv, DfuTypes, BootSafe, OnTrack,
              Forced, Installed, Dfu!CountedUpdatesSuffice, Dfu!Version,
              Dfu!CheckUpdateSuccessful, Dfu!UpdateComplete
<1>3. QED
  BY <1>1, <1>2

\* The invariant of libhoth_dfu_install_firmware() and the RoT holds always.
THEOREM DfuInvariant == MCSpec => []DfuInv
<1>0. Dfu!DfuAssumption
  BY UpdatesAssumption
<1>1. MCInit => DfuInv
  BY <1>0, DfuInit DEF MCInit
<1>2. DfuInv /\ [MCNext]_<<part, vars, chunkVars, dfuVars, spiVars, logVars>>
         => DfuInv'
  <2>1. [MCNext]_<<part, vars, chunkVars, dfuVars, spiVars, logVars>>
           => [Dfu!Next]_dfuVars
    BY DEF MCNext
  <2>2. QED
    BY <1>0, <2>1, DfuStep
<1>3. QED
  BY <1>1, <1>2, PTL DEF MCSpec

\* However an update fails, is interrupted or loses its session, the RoT does
\* not boot a slot that holds part of an image (libhoth_dfu_update()).
THEOREM TornNeverBoots == MCSpec => []BootedNeverTorn
<1>1. DfuInv => BootedNeverTorn
  BY UpdatesAssumption, VersionsAreNumbers
     DEF DfuInv, BootSafe, BootedNeverTorn, Dfu!BootedNeverTorn
<1>2. QED
  BY <1>1, DfuInvariant, PTL

\* libhoth_dfu_install_firmware() returns 0 only with the image in both slots,
\* and that stays so when the chip resets afterwards.
THEOREM OkIsInstalled == MCSpec => []InstallOkMeansInstalled
<1>1. DfuInv => InstallOkMeansInstalled
  <2> SUFFICES ASSUME DfuInv, dfu_result = "ok", ~dfu_args.force
               PROVE  /\ Dfu!UpdateComplete(Dfu!Version)
                      /\ Dfu!DfuUpdateCount(Dfu!Version) = 0
    BY DEF InstallOkMeansInstalled, Dfu!InstallOkMeansInstalled
  <2>1. Dfu!UpdateComplete(Dfu!Version)
    BY DEF DfuInv, Installed
  <2>2. Dfu!Booted(rom_ext) \in Nat /\ dfu_image.rom_ext \in Nat
    BY UpdatesAssumption, VersionsAreNumbers
       DEF DfuInv, DfuTypes, BootSafe, DfuImages
  <2>3. QED
    BY <2>1, <2>2 DEF Dfu!UpdateComplete, Dfu!DfuUpdateCount, Dfu!Version
<1>2. QED
  BY <1>1, DfuInvariant, PTL

\* What dfu_update_count() counts is enough when nothing fails: an install
\* that makes updates and restarts the chip ends in success.
THEOREM CountsSuffice == MCSpec => []CountedUpdatesSuffice
<1>1. DfuInv => CountedUpdatesSuffice
  BY DEF DfuInv, CountedUpdatesSuffice
<1>2. QED
  BY <1>1, DfuInvariant, PTL

-----------------------------------------------------------------------------
(* Provisioning in the composition                                         *)

\* Provisioning with its theorems, of the same state.
Logs == INSTANCE ProvisioningProofs WITH
    Blank <- Unwritten, WriteMax <- LogWriteMax, ReadMax <- LogReadMax,
    staging <- log_staging, pc <- log_pc, result <- log_result,
    faulty <- log_faulty

\* What the composition assumes is what the proofs assume.
LEMMA LogsAssumed == Logs!ProvisioningAssumption
  BY Zenon, UpdatesAssumption DEF
      Prov!ProvisioningAssumption, Logs!ProvisioningAssumption

\* The first states are those of the proofs.
LEMMA LogsBegins == Prov!Init => Logs!Init
  BY Zenon DEF
      Prov!Init, Logs!Init, Prov!Files, Logs!Files, Prov!Untouched,
      Logs!Untouched

\* The steps are those of the proofs: every definition under them is the same.
LEMMA LogsMoves == Prov!Next => Logs!Next
  BY Zenon DEF
      Prov!Next, Logs!Next, Prov!GetLog, Logs!GetLog, Prov!Files,
      Logs!Files, Prov!WriteLog, Logs!WriteLog, Prov!LoadKey, Logs!LoadKey,
      Prov!Sign, Logs!Sign, Prov!ReadHeader, Logs!ReadHeader,
      Prov!ReadLogChunk, Logs!ReadLogChunk, Prov!WriteChunk,
      Logs!WriteChunk, Prov!Commit, Logs!Commit, Prov!ValidateAndSign,
      Logs!ValidateAndSign, Prov!LoadKeyChunk, Logs!LoadKeyChunk,
      Prov!CommandFails, Logs!CommandFails, Prov!OtherClient,
      Logs!OtherClient, Prov!Exit, Logs!Exit, Prov!Start, Logs!Start,
      Prov!Return, Logs!Return, Prov!rotVars, Logs!rotVars, Prov!ReadSize,
      Logs!ReadSize, Prov!Overlaid, Logs!Overlaid, Prov!WriteSize,
      Logs!WriteSize, Prov!callVars, Logs!callVars, Prov!CommitAccepts,
      Logs!CommitAccepts, Prov!SignAccepts, Logs!SignAccepts,
      Prov!KeyChunkSize, Logs!KeyChunkSize, Prov!MinOf, Logs!MinOf

\* A behaviour of the composition, whichever command it is about, is one of
\* the provisioning commands.
THEOREM LogsComposed == MCSpec => Logs!Spec
<1>1. MCInit => Logs!Init
  BY LogsBegins DEF MCInit
<1>2. [MCNext]_<<part, vars, chunkVars, dfuVars, spiVars, logVars>>
         => [Logs!Next]_(Logs!vars)
  BY LogsMoves DEF MCNext, logVars, Logs!vars, Logs!rotVars, Logs!callVars
<1>3. QED
  BY <1>1, <1>2, PTL DEF MCSpec, Logs!Spec

\* A provisioning command that reports success has done its work, though other
\* clients stage and commit meanwhile and earlier commands broke off.
THEOREM SuccessesAreTrue == MCSpec => []SuccessIsTrue
<1>1. MCSpec => []Logs!SuccessIsTrue
  BY LogsComposed, LogsAssumed, Logs!SuccessStaysTrue, PTL
<1>2. Logs!SuccessIsTrue => SuccessIsTrue
  BY Zenon DEF SuccessIsTrue,
      Prov!SuccessIsTrue, Logs!SuccessIsTrue, Prov!SuccessMeansStored,
      Logs!SuccessMeansStored, Prov!ReadIsWholeLog, Logs!ReadIsWholeLog
<1>3. QED
  BY <1>1, <1>2, PTL

\* A provisioning command that nobody disturbs ends as its file and the RoT's
\* log require, whatever earlier commands left behind.
THEOREM UndisturbedCommandsSucceed == MCSpec => []UndisturbedSucceeds
<1>1. MCSpec => []Logs!UndisturbedSucceeds
  BY LogsComposed, LogsAssumed, Logs!UndisturbedAlwaysSucceeds, PTL
<1>2. Logs!UndisturbedSucceeds => UndisturbedSucceeds
  BY Zenon DEF UndisturbedSucceeds,
      Prov!UndisturbedSucceeds, Logs!UndisturbedSucceeds, Prov!MinOf,
      Logs!MinOf
<1>3. QED
  BY <1>1, <1>2, PTL
=============================================================================
