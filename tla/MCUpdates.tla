----------------------------- MODULE MCUpdates -----------------------------
(***************************************************************************)
(* Bounded instance of KeyRotation, ChunkRead, DfuInstall, SpiProxy and    *)
(* Provisioning for TLC: long commands made of many host commands.  Each   *)
(* works on a part of the RoT of its own, and a client makes one call at a *)
(* time: a behaviour is about one part.                                    *)
(***************************************************************************)
EXTENDS KeyRotation

CONSTANTS
    Bytes, ChunkLengths, ChunkPacketMax, StructSize, ChunkWidth,
    RomExts, Apps, SecVers, Chunks, Torn,
    FlashSpace, ShortSpace, Page, Sector, Block, PagesPerOp, MaxTransactions,
    MaxOpBytes, HeaderBytes, CommandBytes, ReadChunk, Starts, Lengths, Limit,
    WornBytes, Unwritten, LogMax, RotMax, LogWriteMax, LogReadMax, KeySize, KeyChunk

VARIABLES
    part,
    chunk, chunk_pc, args, read_offset, read_size, response, missing,
    chunk_result,
    rom_ext, app, session, min_sec_ver, dfu_pc, dfu_image, dfu_args, resp,
    update_cnt, i, sent, dfu_faulty, dfu_result,
    spi_pc, range, addr, len_remaining, need_erase_addr, op, op_bytes,
    pages_in_op, flash,
    log, log_staging, key, key_buf, log_pc, kind, file, done, size, buf,
    log_result, log_faulty

chunkVars == <<chunk, chunk_pc, args, read_offset, read_size, response,
               missing, chunk_result>>
dfuVars == <<rom_ext, app, session, min_sec_ver, dfu_pc, dfu_image, dfu_args,
             resp, update_cnt, i, sent, dfu_faulty, dfu_result>>
spiVars == <<spi_pc, range, addr, len_remaining, need_erase_addr, op, op_bytes,
             pages_in_op, flash>>
logVars == <<log, log_staging, key, key_buf, log_pc, kind, file, done, size,
             buf, log_result, log_faulty>>

Chunk == INSTANCE ChunkRead WITH
    Lengths <- ChunkLengths, PacketMax <- ChunkPacketMax,
    MaxRecord <- AreaSize - 1, Width <- ChunkWidth,
    pc <- chunk_pc, result <- chunk_result

Dfu == INSTANCE DfuInstall WITH
    pc <- dfu_pc, image <- dfu_image, args <- dfu_args, faulty <- dfu_faulty,
    result <- dfu_result

Spi == INSTANCE SpiProxy WITH Space <- FlashSpace, pc <- spi_pc

Prov == INSTANCE Provisioning WITH
    Blank <- Unwritten, WriteMax <- LogWriteMax, ReadMax <- LogReadMax,
    staging <- log_staging, pc <- log_pc, result <- log_result,
    faulty <- log_faulty

ASSUME UpdatesAssumption ==
    /\ Chunk!ChunkAssumption /\ Dfu!DfuAssumption
    /\ Spi!SpiAssumption /\ Prov!ProvisioningAssumption

Parts == {"key record", "chunk", "firmware", "flash", "log", "ML-DSA key"}

SameInBothSlots(v) == [slots |-> [s \in {0, 1} |-> v], booted |-> 0]

\* The parts a behaviour is not about are in one of their first states.
MCInit ==
    /\ part \in Parts
    /\ Init /\ Chunk!Init /\ Spi!Init
    /\ Prov!Init
    /\ part # "log" => log = <<>>
    /\ Dfu!Init
    /\ part # "firmware" =>
          /\ rom_ext = SameInBothSlots(CHOOSE v \in RomExts : TRUE)
          /\ app = SameInBothSlots(CHOOSE v \in Apps : TRUE)
          /\ min_sec_ver = CHOOSE v \in SecVers : TRUE

MCNext ==
    /\ \/ /\ part = "key record" /\ Next
          /\ UNCHANGED <<chunkVars, dfuVars, spiVars, logVars>>
       \/ /\ part = "chunk" /\ Chunk!Next
          /\ UNCHANGED <<vars, dfuVars, spiVars, logVars>>
       \/ /\ part = "firmware" /\ Dfu!Next
          /\ UNCHANGED <<vars, chunkVars, spiVars, logVars>>
       \/ /\ part = "flash" /\ Spi!Next
          /\ UNCHANGED <<vars, chunkVars, dfuVars, logVars>>
       \/ /\ part \in {"log", "ML-DSA key"} /\ Prov!Next
          /\ kind' # "none" => (kind' = "key") = (part = "ML-DSA key")
          /\ part = "log" => <<key, key_buf>>' = <<key, key_buf>>
          /\ part # "log" => <<log, log_staging>>' = <<log, log_staging>>
          /\ UNCHANGED <<vars, chunkVars, dfuVars, spiVars>>
    /\ UNCHANGED part

MCSpec ==
    MCInit /\ [][MCNext]_<<part, vars, chunkVars, dfuVars, spiVars, logVars>>

-----------------------------------------------------------------------------

\* A read of the key record that reports success leaves exactly the bytes asked
\* for in the caller's buffer; one of a chunk, those that the RoT has sent.
ReadsAreExact == ReadIsExact /\ Chunk!ReadIsExact

\* The RoT never boots a slot that an update left half written.
BootedNeverTorn == Dfu!BootedNeverTorn

\* libhoth_dfu_install_firmware() succeeds only with both slots as they should.
InstallOkMeansInstalled == Dfu!InstallOkMeansInstalled

\* The updates that dfu_update_count() counts are enough when nothing fails.
CountedUpdatesSuffice == Dfu!CountedUpdatesSuffice

\* An spi update leaves the file in its range, nothing mixed, and its
\* neighbours; with addresses of three bytes, when they reach the range.
FlashIsRight == Spi!FlashIsRight

\* The assertions on the operation's buffer never fail.
NeverAborts == Spi!NeverAborts

\* A provisioning command that reports success has done its work.
SuccessIsTrue == Prov!SuccessIsTrue

\* Provisioning commands that nothing disturbs succeed after failed ones.
UndisturbedSucceeds == Prov!UndisturbedSucceeds
=============================================================================
