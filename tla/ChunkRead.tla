----------------------------- MODULE ChunkRead -----------------------------
(***************************************************************************)
(* libhoth_key_rotation_read_chunk_type() of protocol/key_rotation.c: a    *)
(* chunk of the key record is read in packets.  Each response carries the  *)
(* packet's bytes followed by the chunk's length; it is received into the  *)
(* caller's buffer behind the packets already there, so that every packet  *)
(* overwrites the length that followed the one before.  A read size of     *)
(* zero asks for everything from the offset on.  A packet that brings      *)
(* fewer or more bytes than asked for is only warned about.                *)
(***************************************************************************)
EXTENDS Integers

CONSTANTS
    Bytes,          \* byte values: numbers
    Lengths,        \* lengths of the chunk
    PacketMax,      \* KEY_ROTATION_RECORD_READ_CHUNK_TYPE_MAX_SIZE
    StructSize,     \* STRUCT_CHUNK_SIZE: the shortest chunk
    MaxRecord,      \* KEY_ROTATION_MAX_RECORD_SIZE
    AreaSize,       \* KEY_ROTATION_FLASH_AREA_SIZE
    Width           \* 2^16: sizes and offsets are uint16_t

\* A chunk lies in the flash area, and a packet is no longer than the area.
ChunkAssumption ==
    /\ AreaSize \in Nat /\ MaxRecord \in Nat /\ Width \in Nat
    /\ PacketMax \in 1 .. AreaSize
    /\ Lengths \subseteq 0 .. AreaSize
    /\ Width > AreaSize + MaxRecord

VARIABLES
    chunk,          \* the bytes of the chunk that the call names
    pc,
    args,           \* [offset, size]
    read_offset, read_size,
    response,       \* the caller's buffer; the length takes one cell
    missing,        \* history: cells asked for that no packet brought
    result

vars == <<chunk, pc, args, read_offset, read_size, response, missing, result>>

LengthOf(c) == CHOOSE n \in Lengths : DOMAIN c = 0 .. n - 1
Cells == 0 .. AreaSize + PacketMax
ChunkValues == UNION {[0 .. n - 1 -> Bytes] : n \in Lengths}
MinOf(a, b) == IF a <= b THEN a ELSE b

Init ==
    /\ chunk = <<>>
    /\ pc = "idle"
    /\ args = [offset |-> 0, size |-> 0]
    /\ read_offset = 0 /\ read_size = 0
    /\ response = [c \in Cells |-> 0]
    /\ missing = {}
    /\ result = "none"

Return(r) ==
    /\ pc' = "returned"
    /\ result' = r

\* chunk_typecode and chunk_index select chunk c.
Call(c, offset, size) ==
    /\ pc = "idle"
    /\ chunk' = c
    /\ args' = [offset |-> offset, size |-> size]
    /\ read_offset' = 0
    /\ read_size' = size
    /\ IF offset > MaxRecord \/ size > MaxRecord
       THEN Return("invalid")
       ELSE pc' = "read" /\ UNCHANGED result
    /\ UNCHANGED <<response, missing>>

-----------------------------------------------------------------------------
(* The RoT: READ_CHUNK_TYPE at an offset, zero for as much as fits         *)

At == args.offset + read_offset

\* What the RoT sends are bytes of the chunk from there on, but it may send
\* any number of them that the receive buffer takes.
Sendable == {n \in 0 .. PacketMax : n = 0 \/ At + n <= LengthOf(chunk)}

\* A response of n bytes as it lies in the buffer: the bytes, then the length.
Received(n) ==
    [c \in Cells |->
        IF c \in read_offset .. read_offset + n - 1
        THEN chunk[At + c - read_offset]
        ELSE IF c = read_offset + n THEN LengthOf(chunk)
        ELSE response[c]]

-----------------------------------------------------------------------------
(* One turn of the loop                                                    *)

\* memcpy(&chunk_length, &response[response_length], ...): response_length
\* counts from the start of this packet, the index from the buffer's start.
ChunkLength(n) == Received(n)[n]

\* What is left to read when this response has been looked at; an offset
\* behind the chunk's end makes it wrap around.
Total(n) == IF read_size = 0 THEN (ChunkLength(n) - args.offset) % Width
                             ELSE read_size

\* packet_size: what the loop advances by, whatever has been sent.
PacketSize(n) == MinOf(Total(n), PacketMax)

\* The check at the head of the loop: finds an offset behind the chunk's end.
TooFar == read_offset + read_size > AreaSize

ReadPacket(n) ==
    /\ pc = "read"
    /\ ~TooFar
    /\ n \in Sendable
    /\ response' = Received(n)
    /\ IF ChunkLength(n) < StructSize
       THEN Return("bad_length") /\ UNCHANGED <<read_offset, read_size>>
       ELSE /\ read_offset' = read_offset + PacketSize(n)
            /\ read_size' = Total(n) - PacketSize(n)
            /\ IF read_size' = 0 THEN Return("ok") ELSE UNCHANGED <<pc, result>>
    /\ missing' = missing \union
                     (read_offset + n .. read_offset + PacketSize(n) - 1)
    /\ UNCHANGED <<chunk, args>>

\* The loop's check; else the RoT refuses, a host command fails, or the
\* response is too short to hold a length.
ReadPacketFails ==
    /\ pc = "read"
    /\ \E r \in IF TooFar THEN {"invalid"} ELSE {"error", "bad_response"} :
          Return(r)
    /\ UNCHANGED <<chunk, args, read_offset, read_size, response, missing>>

Exit ==
    /\ pc = "returned"
    /\ pc' = "idle"
    /\ args' = [offset |-> 0, size |-> 0]
    /\ read_offset' = 0 /\ read_size' = 0
    /\ response' = [c \in Cells |-> 0]
    /\ missing' = {}
    /\ result' = "none"
    /\ chunk' = <<>>

Next ==
    \/ \E c \in ChunkValues : \E offset, size \in 0 .. AreaSize :
          Call(c, offset, size)
    \/ \E n \in 0 .. PacketMax : ReadPacket(n)
    \/ ReadPacketFails
    \/ Exit

Spec == Init /\ [][Next]_vars

-----------------------------------------------------------------------------
(* Properties                                                              *)

\* A read that reports success says in *response_size how many bytes were to
\* be read, all from the offset on when the size was zero, and those that
\* packets brought lie where they belong: the lengths that came in between are
\* overwritten.  What a short packet left out is counted all the same
\* (key_rotation.c:412-418) and holds what the buffer held before; none is
\* left out when every packet has the length asked for.
ReadIsExact ==
    result = "ok" =>
        /\ read_offset = IF args.size = 0 THEN LengthOf(chunk) - args.offset
                                          ELSE args.size
        /\ \A k \in (0 .. read_offset - 1) \ missing :
               response[k] = chunk[args.offset + k]

\* "The last 4 bytes of the response is the chunk size": a chunk the RoT hands
\* out in packets of the length asked for is never rejected for its length.
LengthIsTheChunks == missing = {} => result # "bad_length"
=============================================================================
