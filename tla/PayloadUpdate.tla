--------------------------- MODULE PayloadUpdate ---------------------------
(***************************************************************************)
(* Writing a payload to the staging side of the flash the RoT guards:      *)
(* libhoth_payload_update(), _erase() and _read_chunk() of                 *)
(* protocol/payload_update.c, as the htool commands payload update, erase  *)
(* and read call them, one after the other and in any order.  Erasing and  *)
(* programming go by host commands, each of which may fail before or after *)
(* the RoT carried it out; a failed command leaves the flash half done and *)
(* the user runs the same or another command next.  0xFF bytes of the      *)
(* image are not sent: the erase has to have made them.                    *)
(***************************************************************************)
EXTENDS Integers, Sequences, FiniteSets

CONSTANTS
    Space,          \* 2^32
    FlashSize,      \* bytes of the staging side
    Sector,         \* kSectorErase
    Block,          \* kBlockErase
    MaxChunk,       \* max_chunk_size of libhoth_payload_update()
    MaxReadChunk,   \* max_chunk_size of libhoth_payload_update_read_chunk()
    ImageSizes,     \* sizes of the images tried
    Offsets, Lengths  \* arguments of the erase and read commands tried

ASSUME PayloadAssumption ==
    /\ \A n \in {Space, FlashSize, Sector, Block, MaxChunk, MaxReadChunk} :
          n \in Nat \ {0}
    /\ Block % Sector = 0 /\ FlashSize % Sector = 0 /\ Space % Block = 0
    /\ ImageSizes \subseteq 0 .. FlashSize
    /\ Offsets \subseteq 0 .. Space - 1
    /\ Lengths \subseteq 0 .. Space - 1

VARIABLES
    pc,         \* idle, erase, program, finalize, read or returned
    job,        \* the arguments of the command
    done,       \* erased, offset or the bytes read: the loop's position
    flash,      \* the staging side
    staged,     \* the side was finalized and has not changed since
    file,       \* what payload read has written
    result      \* what the command returned

vars == <<pc, job, done, flash, staged, file, result>>

\* Bytes: 0xFF, a byte of an image, what the flash held at first, and what
\* comes of programming a byte over another one.
FF == 255
Data == 1
Old == 2
Mixed == 3

\* A NOR flash clears bits: 0xFF leaves a byte as it is.
Programmed(byte, v) ==
    IF v = FF \/ byte = v THEN byte ELSE IF byte = FF THEN v ELSE Mixed

Cells == 0 .. FlashSize - 1

\* An image is a function on 0 .. size-1.
Images == UNION {[0 .. n - 1 -> {FF, Data}] : n \in ImageSizes}
SizeOf(img) == Cardinality(DOMAIN img)

\* What the image asks of the flash.
Holds(img) == \A n \in DOMAIN img : flash[n] = img[n]

\* Programming the image into the flash as it is gives the image.
Compatible(img) == \A n \in DOMAIN img : flash[n] \in {FF, img[n]}

UpdateJob(img, skip, binary) ==
    [kind |-> "update", image |-> img, skip_erase |-> skip,
     binary_file |-> binary, offset |-> 0, len |-> SizeOf(img),
     compatible |-> Compatible(img)]

RangeJob(kind, offset, len) ==
    [kind |-> kind, image |-> <<>>, skip_erase |-> FALSE,
     binary_file |-> FALSE, offset |-> offset, len |-> len,
     compatible |-> FALSE]

Init ==
    /\ pc = "idle"
    /\ job = RangeJob("none", 0, 0)
    /\ done = 0
    /\ flash = [a \in Cells |-> Old]
    /\ staged = FALSE
    /\ file = <<>>
    /\ result = "none"

-----------------------------------------------------------------------------
Goto(place) ==
    /\ pc' = place
    /\ done' = 0
    /\ result' = "none"

Return(r) ==
    /\ pc' = "returned"
    /\ done' = 0
    /\ result' = r

\* htool exits; the next command is another process.
Exit ==
    /\ pc = "returned"
    /\ Goto("idle")
    /\ job' = RangeJob("none", 0, 0)
    /\ file' = <<>>
    /\ UNCHANGED <<flash, staged>>

\* The checks libhoth_payload_update_erase() makes before it sends anything.
EraseError(offset, len) ==
    CASE len = 0 \/ len % Sector # 0 -> "not_aligned"
      [] offset % Sector # 0 -> "not_aligned"
      [] Space - 1 - offset < len -> "invalid"
      [] OTHER -> "none"

\* A binary file is erased up to the end of its last sector.
EraseSize(size, binary) ==
    IF binary /\ size % Sector # 0 THEN size + Sector - (size % Sector)
                                   ELSE size

EnterErase(offset, len) ==
    IF EraseError(offset, len) = "none" THEN Goto("erase")
                                        ELSE Return(EraseError(offset, len))

\* libhoth_payload_update() up to its first host command.  has_descriptor is
\* what libhoth_find_image_descriptor() finds.
Update(img, skip, binary, has_descriptor) ==
    /\ pc = "idle"
    /\ LET size == EraseSize(SizeOf(img), binary)
       IN  /\ job' = [UpdateJob(img, skip, binary) EXCEPT !.len = size]
           /\ IF ~binary /\ ~has_descriptor THEN Return("bad_image")
              ELSE IF skip THEN Goto("program")
              ELSE EnterErase(0, size)
    /\ UNCHANGED <<flash, staged, file>>

\* htool payload erase
EraseCommand(offset, len) ==
    /\ pc = "idle"
    /\ offset + len <= FlashSize \/ offset + len >= Space
    /\ job' = RangeJob("erase", offset, len)
    /\ EnterErase(offset, len)
    /\ UNCHANGED <<flash, staged, file>>

\* htool payload read: "Must set --length (-n) to something non-zero".
ReadCommand(offset, len) ==
    /\ pc = "idle"
    /\ len # 0
    /\ offset + len <= FlashSize
    /\ job' = RangeJob("read", offset, len)
    /\ Goto("read")
    /\ UNCHANGED <<flash, staged, file>>

-----------------------------------------------------------------------------
(* The loop of libhoth_payload_update_erase()                              *)

\* Mutant: a block without a look at what remains.
EraseChunkSizeAligned ==
    IF (job.offset + done) % Block = 0 THEN Block ELSE Sector

EraseChunkSize ==
    IF (job.offset + done) % Block = 0 /\ job.len - done >= Block
    THEN Block ELSE Sector

ErasedFlash ==
    LET first == job.offset + done
        chunk == first .. first + EraseChunkSize - 1
    IN  [a \in Cells |-> IF a \in chunk THEN FF ELSE flash[a]]

EraseChunk ==
    /\ pc = "erase"
    /\ done < job.len
    /\ flash' = ErasedFlash
    /\ staged' = FALSE
    /\ done' = done + EraseChunkSize
    /\ UNCHANGED <<pc, job, file, result>>

EraseDone ==
    /\ pc = "erase"
    /\ done >= job.len
    /\ IF job.kind = "update" THEN Goto("program") ELSE Return("ok")
    /\ UNCHANGED <<job, flash, staged, file>>

\* The host command fails; the RoT may have carried it out all the same.
EraseFails ==
    /\ pc = "erase"
    /\ done < job.len
    /\ \/ UNCHANGED <<flash, staged>>
       \/ flash' = ErasedFlash /\ staged' = FALSE
    /\ Return("error")
    /\ UNCHANGED <<job, file>>

-----------------------------------------------------------------------------
(* The programming loop: 0xFF bytes are skipped, a chunk ends in a byte    *)
(* that is not 0xFF, and the loop goes on after the chunk.                 *)

ToSend == {n \in DOMAIN job.image : n >= done /\ job.image[n] # FF}

ChunkStart == CHOOSE n \in ToSend : \A m \in ToSend : n <= m

ChunkSize ==
    LET in_reach == {c \in 1 .. MaxChunk : ChunkStart + c - 1 \in ToSend}
    IN  CHOOSE c \in in_reach : \A d \in in_reach : d <= c

ProgrammedFlash ==
    LET chunk == ChunkStart .. ChunkStart + ChunkSize - 1
    IN  [a \in Cells |->
            IF a \in chunk THEN Programmed(flash[a], job.image[a])
                           ELSE flash[a]]

\* Mutants: offset += chunk_size, and the loop's ++offset missing.
ProgramChunkSkips ==
    /\ pc = "program"
    /\ ToSend # {}
    /\ flash' = ProgrammedFlash
    /\ staged' = FALSE
    /\ done' = ChunkStart + ChunkSize + 1
    /\ UNCHANGED <<pc, job, file, result>>
ProgramChunkStays ==
    /\ pc = "program"
    /\ ToSend # {}
    /\ flash' = ProgrammedFlash
    /\ staged' = FALSE
    /\ done' = ChunkStart + ChunkSize - 1
    /\ UNCHANGED <<pc, job, file, result>>

\* offset += chunk_size - 1, then the loop's ++offset
ProgramChunk ==
    /\ pc = "program"
    /\ ToSend # {}
    /\ flash' = ProgrammedFlash
    /\ staged' = FALSE
    /\ done' = ChunkStart + ChunkSize
    /\ UNCHANGED <<pc, job, file, result>>

ProgramFails ==
    /\ pc = "program"
    /\ ToSend # {}
    /\ \/ UNCHANGED <<flash, staged>>
       \/ flash' = ProgrammedFlash /\ staged' = FALSE
    /\ Return("error")
    /\ UNCHANGED <<job, file>>

\* Mutant: a binary file is finalized too.
ProgramDoneFinalizes ==
    /\ pc = "program"
    /\ ToSend = {}
    /\ Goto("finalize")
    /\ UNCHANGED <<job, flash, staged, file>>

\* A binary file is not finalized.
ProgramDone ==
    /\ pc = "program"
    /\ ToSend = {}
    /\ IF job.binary_file THEN Return("ok") ELSE Goto("finalize")
    /\ UNCHANGED <<job, flash, staged, file>>

\* libhoth_payload_update_finalize(): asks for the command's version, then
\* sends FINALIZE in that version.
Finalize ==
    /\ pc = "finalize"
    /\ staged' = TRUE
    /\ Return("ok")
    /\ UNCHANGED <<job, flash, file>>

FinalizeFails ==
    /\ pc = "finalize"
    /\ staged' \in {staged, TRUE}
    /\ Return("error")
    /\ UNCHANGED <<job, flash, file>>

-----------------------------------------------------------------------------
(* The loop of libhoth_payload_update_read_chunk()                         *)

ReadSize ==
    IF job.len - done < MaxReadChunk THEN job.len - done ELSE MaxReadChunk

ReadChunk ==
    /\ pc = "read"
    /\ file' = file \o [n \in 1 .. ReadSize |-> flash[job.offset + done + n - 1]]
    /\ IF done + ReadSize = job.len THEN Return("ok")
       ELSE done' = done + ReadSize /\ UNCHANGED <<pc, result>>
    /\ UNCHANGED <<job, flash, staged>>

\* The host command fails, or libhoth_force_write() does after writing a part
\* of the chunk.
ReadFails ==
    /\ pc = "read"
    /\ \E k \in 0 .. ReadSize :
          file' = file \o [n \in 1 .. k |-> flash[job.offset + done + n - 1]]
    /\ Return("error")
    /\ UNCHANGED <<job, flash, staged>>

-----------------------------------------------------------------------------
Step ==
    \/ EraseChunk \/ EraseDone
    \/ ProgramChunk \/ ProgramDone
    \/ Finalize
    \/ ReadChunk
    \/ Exit

Failure == EraseFails \/ ProgramFails \/ FinalizeFails \/ ReadFails

Next ==
    \/ \E img \in Images, skip, binary, has \in BOOLEAN :
          Update(img, skip, binary, has)
    \/ \E offset \in Offsets, len \in Lengths : EraseCommand(offset, len)
    \/ \E offset \in Offsets, len \in Lengths : ReadCommand(offset, len)
    \/ Step
    \/ Failure

Spec == Init /\ [][Next]_vars

\* A command that was started goes on; every host command returns.
FairSpec == Spec /\ WF_vars(Step)

-----------------------------------------------------------------------------
(* Properties                                                              *)

\* An update that reports success has put the image on the staging side, its
\* 0xFF bytes included, whatever failed commands left there before.  With
\* --skip_erase that takes a side on which every byte is erased or already
\* the image's: after payload erase, or to resume a failed update.
UpdateHoldsImage ==
    result = "ok" /\ job.kind = "update" /\ (~job.skip_erase \/ job.compatible)
        => Holds(job.image)

\* Only a whole image is finalized, and only one with a descriptor: FINALIZE
\* is the last host command, even when its response is lost.
OnlyWholeImagesFinalized ==
    [][staged' /\ ~staged =>
          /\ ~job.binary_file
          /\ ~job.skip_erase \/ job.compatible => Holds(job.image)]_vars

\* No command changes flash outside of the sectors it was asked to erase or
\* the bytes it was asked to program, even if it fails.
OnlyRangeTouched ==
    [][\A a \in Cells :
          flash'[a] # flash[a] =>
              a \in IF pc = "erase" THEN job.offset .. job.offset + job.len - 1
                                    ELSE DOMAIN job.image]_vars

\* payload read hands out exactly the bytes asked for, in order.
ReadIsExact ==
    result = "ok" /\ job.kind = "read" =>
        file = [n \in 1 .. job.len |-> flash[job.offset + n - 1]]

\* Every command returns: neither loop steps over its end or stands still.
CommandReturns == pc # "idle" ~> pc = "returned"

\* payload update and payload read carry the bytes over exactly, in either
\* direction, in spite of what failed before.
TransfersAreExact == UpdateHoldsImage /\ ReadIsExact
=============================================================================
