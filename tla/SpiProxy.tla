------------------------------ MODULE SpiProxy ------------------------------
(***************************************************************************)
(* Writing a file to the SPI flash behind the RoT: htool's                 *)
(* command_spi_update() and libhoth_spi_proxy_update()/_verify() of        *)
(* protocol/spi_proxy.c.  Pages are programmed and sectors erased by SPI   *)
(* transactions that are collected in an operation and sent as one host    *)
(* command; a host command may fail after any part of it was carried out,  *)
(* and the user may then run the update again.  Addresses are 32-bit       *)
(* numbers: they wrap around at Space.  With --address_mode 3B only their  *)
(* low three bytes are sent, and nothing looks whether the range is within *)
(* what three bytes reach.                                                 *)
(***************************************************************************)
EXTENDS Integers, Sequences

CONSTANTS
    Space,              \* 2^32
    ShortSpace,         \* 2^24: what three address bytes reach
    Page,               \* SPI_PAGE_SIZE, 256
    Sector,             \* 4096
    Block,              \* 65536
    PagesPerOp,         \* MAX_PAGES_PER_OP, 3
    MaxTransactions,    \* MAX_TRANSACTIONS, 12
    MaxOpBytes,         \* MAX_SPI_OP_PAYLOAD_BYTES, 1016
    HeaderBytes,        \* sizeof(struct hoth_spi_operation_request)
    CommandBytes,       \* OPCODE_AND_ADDRESS_MAX_SIZE: four address bytes
    ReadChunk,          \* READ_CHUNK_SIZE
    Starts, Lengths,    \* the updates tried: start addresses, file sizes,
    Limit,              \* and where they end at most
    WornBytes           \* addresses at which the flash chip is faulty

\* The most that one turn of the loop takes of the operation's buffer: a sector
\* or block erase, a whole page, and the write-enables of both.
PageCost == 2 * (2 * HeaderBytes + 1 + CommandBytes) + Page

\* Updates end below the last block of the address space, where the 32-bit sums
\* of the loop wrap around; the operation has room for PagesPerOp pages.
SpiAssumption ==
    /\ \A n \in {Space, ShortSpace, Page, Sector, Block, PagesPerOp, ReadChunk,
                CommandBytes} : n \in Nat \ {0}
    /\ Sector % Page = 0 /\ Block % Sector = 0 /\ Space % Block = 0
    /\ Starts \subseteq 0 .. Space - 1
    /\ Lengths \subseteq Nat \ {0}
    /\ Limit \in 0 .. Space - Block
    /\ WornBytes \subseteq 0 .. Space - 1
    /\ HeaderBytes \in Nat
    /\ MaxTransactions \in Nat /\ MaxOpBytes \in Nat
    /\ 4 * PagesPerOp <= MaxTransactions
    /\ PagesPerOp * PageCost < MaxOpBytes

VARIABLES
    pc,             \* idle, update, execute, verify, ok, failed, aborted
    range,          \* [start, len, verify, is_4_byte]: the command's arguments
    addr, len_remaining, need_erase_addr,
    op,             \* the operation being collected: a sequence of steps
    op_bytes,       \* op->pos
    pages_in_op,
    flash           \* what each byte of the flash holds

vars == <<pc, range, addr, len_remaining, need_erase_addr, op, op_bytes,
          pages_in_op, flash>>

\* A byte holds what it held before, nothing, the image's byte number k (>= 0),
\* or a mixture because it was programmed without having been erased.  A worn
\* byte does not take what is programmed.
Old == -1
ErasedByte == -2
MixedByte == -3
Worn == -4

NoRange == [start |-> 0, len |-> 0, verify |-> FALSE, is_4_byte |-> TRUE]

MinOf(a, b) == IF a <= b THEN a ELSE b

Init ==
    /\ pc = "idle"
    /\ range = NoRange
    /\ addr = 0 /\ len_remaining = 0 /\ need_erase_addr = 0
    /\ op = <<>> /\ op_bytes = 0 /\ pages_in_op = 0
    /\ flash = [a \in 0 .. Space - 1 |-> Old]

-----------------------------------------------------------------------------
(* What the flash chip does with a transaction.  It is in the addressing   *)
(* mode that --address_mode names.                                         *)

\* spi_operation_write_mosi_address(): four bytes of the address, or three.
OnWire(a) == IF range.is_4_byte THEN a ELSE a % ShortSpace

EraseStep(a, size) ==
    [kind |-> "erase", at |-> OnWire(a), len |-> size, from |-> 0]

WriteStep(a, n, k) ==
    [kind |-> "write", at |-> OnWire(a), len |-> n, from |-> k]

\* The addresses a step reaches.
Reach(s) == {(s.at + n) % Space : n \in 0 .. s.len - 1}

Applied(f, s) ==
    [a \in 0 .. Space - 1 |->
        IF a \notin Reach(s) THEN f[a]
        ELSE IF s.kind = "erase" THEN ErasedByte
        ELSE IF f[a] # ErasedByte THEN MixedByte
        ELSE IF a \in WornBytes THEN Worn
        ELSE s.from + ((a - s.at) % Space)]

-----------------------------------------------------------------------------
(* command_spi_update(): libhoth_spi_proxy_init(), _update(), _verify()     *)

Begin(a, n, v, four) ==
    /\ a + n <= Limit
    /\ range' = [start |-> a, len |-> n, verify |-> v, is_4_byte |-> four]
    /\ pc' = "update"
    /\ addr' = a
    /\ len_remaining' = n
    /\ need_erase_addr' = a
    /\ op' = <<>>
    /\ op_bytes' = 0
    /\ pages_in_op' = 0
    /\ UNCHANGED flash

\* A first run, of any range; after a failure the user repeats the same
\* command.  The target is in reset, so nobody else writes the flash.
Start(a, n, v, four) == pc = "idle" /\ Begin(a, n, v, four)
Retry ==
    /\ pc = "failed"
    /\ Begin(range.start, range.len, range.verify, range.is_4_byte)

\* After a success: what the flash holds is old to the next update.
NextUpdate ==
    /\ pc = "ok"
    /\ pc' = "idle"
    /\ range' = NoRange
    /\ addr' = 0 /\ len_remaining' = 0 /\ need_erase_addr' = 0
    /\ op' = <<>> /\ op_bytes' = 0 /\ pages_in_op' = 0
    /\ flash' = [a \in 0 .. Space - 1 |-> Old]

-----------------------------------------------------------------------------
(* libhoth_spi_proxy_update(): one turn of its loop                        *)

Truncate(n, unit) == (n \div unit) * unit

\* Computed in 32 bits: zero for the last page of the address space.
PageEnd == Truncate((addr + Page) % Space, Page)

\* The erase the turn needs: a whole block when the update covers its rest,
\* else a sector; and the address up to which it reaches.
Erase ==
    LET start64 == Truncate(addr, Block)
        start4 == Truncate(addr, Sector)
        end64 == (start64 + Block) % Space
        end4 == (start4 + Sector) % Space
        whole == /\ start64 >= addr \/ start64 = start4
                 /\ end64 <= addr + len_remaining \/ end64 = end4
    IN  IF whole THEN [step |-> EraseStep(start64, Block), end |-> end64]
                 ELSE [step |-> EraseStep(start4, Sector), end |-> end4]

\* Mutant: the start of the page for its end.
NeedsEraseLate == addr > need_erase_addr

NeedsErase == PageEnd > need_erase_addr

\* MIN(page_end - addr, len_remaining) in 64 bits: a page_end that wrapped
\* around does not limit the write.
WriteLen ==
    IF PageEnd > addr THEN MinOf(PageEnd - addr, len_remaining)
                      ELSE len_remaining

\* The steps the turn adds to the operation.
TurnSteps ==
    (IF NeedsErase THEN <<Erase.step>> ELSE <<>>)
        \o <<WriteStep(addr, WriteLen, range.len - len_remaining)>>

\* An opcode and an address.
AddressedBytes == IF range.is_4_byte THEN CommandBytes ELSE CommandBytes - 1

\* A write-enable transaction and the transaction proper.
StepBytes(s) == 2 * HeaderBytes + 1 + AddressedBytes
                    + IF s.kind = "write" THEN s.len ELSE 0

TurnBytes == StepBytes(TurnSteps[1])
                 + IF NeedsErase THEN StepBytes(TurnSteps[2]) ELSE 0

\* The assertions of spi_operation_begin_transaction() and _write_mosi().
TurnFits ==
    /\ 2 * (Len(op) + Len(TurnSteps)) <= MaxTransactions
    /\ op_bytes + TurnBytes < MaxOpBytes

\* One turn; a failed assertion ends the process.
AddPage ==
    /\ pc = "update"
    /\ op' = op \o TurnSteps
    /\ op_bytes' = op_bytes + TurnBytes
    /\ need_erase_addr' = IF NeedsErase THEN Erase.end ELSE need_erase_addr
    /\ len_remaining' = len_remaining - WriteLen
    /\ addr' = (addr + WriteLen) % Space
    /\ LET full == pages_in_op + 1 >= PagesPerOp \/ len_remaining' = 0
       IN  /\ pages_in_op' = IF full THEN 0 ELSE pages_in_op + 1
           /\ pc' = IF ~TurnFits THEN "aborted"
                    ELSE IF full THEN "execute" ELSE "update"
    /\ UNCHANGED <<range, flash>>

-----------------------------------------------------------------------------
(* spi_operation_execute(): the RoT carries the transactions out in order  *)

RotStep ==
    /\ pc = "execute"
    /\ op # <<>>
    /\ flash' = Applied(flash, Head(op))
    /\ op' = Tail(op)
    /\ UNCHANGED <<pc, range, addr, len_remaining, need_erase_addr, op_bytes,
                   pages_in_op>>

\* Mutant: the operation is not initialised again.
ExecutedNoReset ==
    /\ pc = "execute"
    /\ op = <<>>
    /\ IF len_remaining > 0
       THEN pc' = "update" /\ UNCHANGED <<addr, len_remaining>>
       ELSE IF range.verify
       THEN pc' = "verify" /\ addr' = range.start /\ len_remaining' = range.len
       ELSE pc' = "ok" /\ UNCHANGED <<addr, len_remaining>>
    /\ UNCHANGED <<range, need_erase_addr, op, op_bytes, pages_in_op, flash>>

\* The operation is initialised again; after the last one comes the
\* verification, from the start of the range.
Executed ==
    /\ pc = "execute"
    /\ op = <<>>
    /\ op_bytes' = 0
    /\ IF len_remaining > 0
       THEN pc' = "update" /\ UNCHANGED <<addr, len_remaining>>
       ELSE IF range.verify
       THEN pc' = "verify" /\ addr' = range.start /\ len_remaining' = range.len
       ELSE pc' = "ok" /\ UNCHANGED <<addr, len_remaining>>
    /\ UNCHANGED <<range, need_erase_addr, op, pages_in_op, flash>>

\* Any host command may fail: initialising, executing or reading.
HostCommandFails ==
    /\ pc \in {"execute", "verify"} \/ (pc = "update" /\ op = <<>>
                                         /\ addr = range.start)
    /\ pc' = "failed"
    /\ UNCHANGED <<range, addr, len_remaining, need_erase_addr, op, op_bytes,
                   pages_in_op, flash>>

-----------------------------------------------------------------------------
(* libhoth_spi_proxy_verify(): one spi_read_chunk() and its comparison     *)

ChunkLen == MinOf(len_remaining, ReadChunk)

ChunkMatches ==
    \A n \in 0 .. ChunkLen - 1 :
        flash[(OnWire(addr) + n) % Space] = range.len - len_remaining + n

VerifyChunk ==
    /\ pc = "verify"
    /\ ChunkMatches
    /\ len_remaining' = len_remaining - ChunkLen
    /\ addr' = (addr + ChunkLen) % Space
    /\ pc' = IF len_remaining' = 0 THEN "ok" ELSE "verify"
    /\ UNCHANGED <<range, need_erase_addr, op, op_bytes, pages_in_op, flash>>

VerifyMismatch ==
    /\ pc = "verify"
    /\ ~ChunkMatches
    /\ pc' = "failed"
    /\ UNCHANGED <<range, addr, len_remaining, need_erase_addr, op, op_bytes,
                   pages_in_op, flash>>

-----------------------------------------------------------------------------
Next ==
    \/ \E a \in Starts, n \in Lengths, v, four \in BOOLEAN :
          Start(a, n, v, four)
    \/ Retry
    \/ NextUpdate
    \/ AddPage
    \/ RotStep
    \/ Executed
    \/ HostCommandFails
    \/ VerifyChunk
    \/ VerifyMismatch

Spec == Init /\ [][Next]_vars

-----------------------------------------------------------------------------
(* Properties                                                              *)

InRange == {(range.start + n) % Space : n \in 0 .. range.len - 1}

\* The addresses of the range are sent as they are.  With --address_mode 3B
\* that takes a range below 2^24: from there on the file goes to the address
\* without its top byte, and the command reports success all the same.
Reachable == range.is_4_byte \/ range.start + range.len <= ShortSpace

\* A byte of the range is erased in this update before it is programmed: no
\* page is written over old data, and none is erased again once written.
NothingIsMixed == \A a \in 0 .. Space - 1 : flash[a] # MixedByte

\* When the update reports success the flash holds the file, whatever an
\* earlier, failed run left behind; on a faulty chip that takes --verify.
\* README.md: "spi update - Write a file to SPI flash (erase + program)."
FlashHoldsFile ==
    pc = "ok" /\ (range.verify \/ InRange \intersect WornBytes = {}) =>
                 \A n \in 0 .. range.len - 1 :
                    flash[(range.start + n) % Space] = n

\* Flash in sectors that the range does not touch keeps its contents, even
\* when the update fails half-way: a block is erased only when the update
\* rewrites all of it but the start of its first sector.
NeighboursKept ==
    \A a \in 0 .. Space - 1 :
        flash[a] # Old =>
            \E b \in InRange : Truncate(a, Sector) = Truncate(b, Sector)

\* "There is only enough space in the buffer for 3 page writes (and associated
\* erases and write-enable transactions)": the assertions on the operation's
\* buffer and transaction table never fail.
NeverAborts == pc # "aborted"

\* The flash is right at all times: no byte mixed from two writes, the file in
\* its range after a success, and the sectors around the range as they were.
\* The exception is a range that three address bytes do not reach, with
\* --address_mode 3B: spi_proxy.c:119-129 drops the top byte.
FlashIsRight == Reachable => NothingIsMixed /\ FlashHoldsFile /\ NeighboursKept
=============================================================================
