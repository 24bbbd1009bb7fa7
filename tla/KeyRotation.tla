---------------------------- MODULE KeyRotation ----------------------------
(***************************************************************************)
(* Rotating the RoT's key record: libhoth_key_rotation_update() and _read()*)
(* of protocol/key_rotation.c.  An update erases the staging half          *)
(* (INITIATE), writes the record to it in packets (WRITE) and commits it   *)
(* to the active half (COMMIT).  Host commands fail with or without having *)
(* been carried out, and the tool may die between two of them; the next    *)
(* update, of the same or another record, starts on what was left behind.  *)
(***************************************************************************)
EXTENDS Integers, Sequences

CONSTANTS
    Records,        \* the records an update may be given
    Sizes,          \* their possible sizes
    SignatureSize,  \* KEY_ROTATION_RECORD_SIGNATURE_SIZE
    AreaSize,       \* KEY_ROTATION_FLASH_AREA_SIZE
    WriteMax,       \* KEY_ROTATION_RECORD_WRITE_MAX_SIZE
    ReadMax,        \* KEY_ROTATION_RECORD_READ_MAX_SIZE
    Space,          \* 2^16: packet offsets are taken modulo this
    Erased, Mixed   \* contents of a flash byte that are no record's

ASSUME KeyRotationAssumption ==
    /\ Sizes \subseteq Nat
    /\ \A n \in {AreaSize, WriteMax, ReadMax, Space} : n \in Nat \ {0}
    /\ SignatureSize \in Nat
    /\ AreaSize < Space

VARIABLES
    active, staging,    \* the two halves: what each byte holds
    pc,
    image,              \* [record, size]
    offset,             \* bytes written or read
    read,               \* [half, from, size] of a read
    data,               \* what the read has returned
    result

vars == <<active, staging, pc, image, offset, read, data, result>>

Area == 0 .. AreaSize - 1
NoImage == [record |-> Erased, size |-> 0]
NoRead == [half |-> "active", from |-> 0, size |-> 0]
Blank == [a \in Area |-> Erased]

\* Byte number a of a record of the given size.
ByteOf(img, a) == [record |-> img.record, size |-> img.size, at |-> a]

Whole(img) == [a \in Area |-> IF a < img.size THEN ByteOf(img, a) ELSE Erased]

Init ==
    /\ active = Blank /\ staging = Blank
    /\ pc = "idle"
    /\ image = NoImage /\ offset = 0
    /\ read = NoRead /\ data = <<>>
    /\ result = "none"

-----------------------------------------------------------------------------
(* The RoT                                                                 *)

Written(half, at, n, img) ==
    [a \in Area |->
        IF a \notin at .. at + n - 1 THEN half[a]
        ELSE IF half[a] = Erased THEN ByteOf(img, a)
        ELSE Mixed]

-----------------------------------------------------------------------------
(* libhoth_key_rotation_update()                                           *)

Return(r) ==
    /\ pc' = "returned"
    /\ result' = r

SizeInvalid(size) == size <= SignatureSize \/ size > AreaSize

\* Mutant: the staging half is not erased first.
UpdateNoInitiate(img) ==
    /\ pc = "idle"
    /\ image' = img
    /\ offset' = 0
    /\ IF SizeInvalid(img.size) THEN Return("invalid")
                                ELSE pc' = "write" /\ UNCHANGED result
    /\ UNCHANGED <<active, staging, read, data>>

Update(img) ==
    /\ pc = "idle"
    /\ image' = img
    /\ offset' = 0
    /\ IF SizeInvalid(img.size) THEN Return("invalid")
                                ELSE pc' = "initiate" /\ UNCHANGED result
    /\ UNCHANGED <<active, staging, read, data>>

Initiate ==
    /\ pc = "initiate"
    /\ staging' = Blank
    /\ pc' = "write"
    /\ UNCHANGED <<active, image, offset, read, data, result>>

PacketSize ==
    IF image.size - offset < WriteMax THEN image.size - offset ELSE WriteMax

WritePacket ==
    /\ pc = "write"
    /\ staging' = Written(staging, offset, PacketSize, image)
    /\ offset' = offset + PacketSize
    /\ pc' = IF offset' = image.size THEN "commit" ELSE "write"
    /\ UNCHANGED <<active, image, read, data, result>>

Commit ==
    /\ pc = "commit"
    /\ active' = staging
    /\ Return("ok")
    /\ UNCHANGED <<staging, image, offset, read, data>>

\* A host command fails: what it asked for was carried out, or not.
InitiateFails ==
    /\ pc = "initiate"
    /\ staging' \in {staging, Blank}
    /\ Return("error")
    /\ UNCHANGED <<active, image, offset, read, data>>

WritePacketFails ==
    /\ pc = "write"
    /\ staging' \in {staging, Written(staging, offset, PacketSize, image)}
    /\ Return("error")
    /\ UNCHANGED <<active, image, offset, read, data>>

CommitFails ==
    /\ pc = "commit"
    /\ active' \in {active, staging}
    /\ Return("error")
    /\ UNCHANGED <<staging, image, offset, read, data>>

-----------------------------------------------------------------------------
(* libhoth_key_rotation_read()                                              *)

\* The offset is only checked by the RoT.
Read(half, from, size) ==
    /\ pc = "idle"
    /\ read' = [half |-> half, from |-> from, size |-> size]
    /\ offset' = 0
    /\ IF size = 0 \/ size > AreaSize THEN Return("invalid")
                                      ELSE pc' = "read" /\ UNCHANGED result
    /\ UNCHANGED <<active, staging, image, data>>

Half == IF read.half = "active" THEN active ELSE staging

\* The sum of two 16-bit numbers is passed on as a 16-bit number.
PacketOffset == (read.from + offset) % Space

\* The RoT refuses a packet that leaves the area: see ReadPacketFails.
ReadPacket ==
    /\ pc = "read"
    /\ LET left == read.size - offset
           n == IF left > ReadMax THEN ReadMax ELSE left
       IN  /\ PacketOffset + n <= AreaSize
           /\ data' = data \o [k \in 1 .. n |-> Half[PacketOffset + k - 1]]
           /\ offset' = offset + n
           /\ IF n = left THEN Return("ok") ELSE UNCHANGED <<pc, result>>
    /\ UNCHANGED <<active, staging, image, read>>

\* Mutant: a failed packet ends the read without an error.
ReadPacketFailsIgnored ==
    /\ pc = "read"
    /\ Return("ok")
    /\ UNCHANGED <<active, staging, image, offset, read, data>>

ReadPacketFails ==
    /\ pc = "read"
    /\ Return("error")
    /\ UNCHANGED <<active, staging, image, offset, read, data>>

\* The tool exits, or dies in the middle.
Exit ==
    /\ pc # "idle"
    /\ pc' = "idle"
    /\ image' = NoImage /\ offset' = 0
    /\ read' = NoRead /\ data' = <<>>
    /\ result' = "none"
    /\ UNCHANGED <<active, staging>>

Next ==
    \/ \E img \in [record : Records, size : Sizes] : Update(img)
    \/ Initiate \/ InitiateFails
    \/ WritePacket \/ WritePacketFails
    \/ Commit \/ CommitFails
    \/ \E half \in {"active", "staging"}, from \in 0 .. Space - 1,
          size \in 0 .. AreaSize + 1 : Read(half, from, size)
    \/ ReadPacket \/ ReadPacketFails
    \/ Exit

Spec == Init /\ [][Next]_vars

-----------------------------------------------------------------------------
(* Properties                                                              *)

\* The active half is blank or holds exactly one record that an update was
\* given, from its first to its last byte, whatever updates failed or were
\* interrupted: nothing of an earlier record is ever committed with it.
ActiveIsWhole ==
    \/ active = Blank
    \/ \E img \in [record : Records, size : Sizes] :
          ~SizeInvalid(img.size) /\ active = Whole(img)

\* An update that reports success has made its record the active one.
SuccessActivates ==
    result = "ok" /\ image # NoImage => active = Whole(image)

\* A read that reports success has stayed inside the area, whatever offset it
\* was given, and returned exactly the bytes asked for.
ReadIsExact ==
    result = "ok" /\ read # NoRead =>
        /\ read.from + read.size <= AreaSize
        /\ data = [k \in 1 .. read.size |-> Half[read.from + k - 1]]

\* The active half is always a whole record, and after a successful update the
\* one that was given.
RecordIsWhole == ActiveIsWhole /\ SuccessActivates
=============================================================================
