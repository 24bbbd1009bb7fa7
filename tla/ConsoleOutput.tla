--------------------------- MODULE ConsoleOutput ---------------------------
(***************************************************************************)
(* Reading an RoT's console channel.  The RoT keeps the last bytes of an   *)
(* endless stream in a ring buffer and numbers them by 32-bit offsets that *)
(* wrap around.  libhoth_read_console() (protocol/console.c) reads a piece *)
(* at an offset; the interactive htool_console_run() reads for ever, with  *)
(* reconnects after failures, while htool_console_snapshot() and           *)
(* libhoth_print_erot_console() read up to where the stream was when they  *)
(* started.  Meanwhile the RoT writes on and overwrites what is old.       *)
(***************************************************************************)
EXTENDS Integers, FiniteSetsExt

CONSTANTS
    Space,          \* 2^32: offsets are taken modulo this
    Half,           \* 0x80000000
    BufferSize,     \* bytes the RoT keeps; the code takes it to be below Half
    MaxRead,        \* bytes of one response
    Starts,         \* bytes written before the client starts
    MaxMore         \* bound: bytes written after that

ASSUME ConsoleAssumption ==
    /\ \A n \in {Space, Half, BufferSize, MaxRead} : n \in Nat \ {0}
    /\ Space = 2 * Half
    /\ MaxMore \in Nat
    /\ BufferSize + MaxMore < Half
    /\ Starts \subseteq Nat

VARIABLES
    written,    \* bytes written to the stream so far; byte n is the n-th
    initial,    \* its value at the start, for the bound
    pc,         \* start, loop, reconnect, end
    mode,       \* "run", "run_history" or "snapshot"
    begin,      \* bytes written when the channel's status was asked for
    current_offset,
    offset,
    printed,    \* the bytes written to stdout
    stdout_ok   \* stdout took everything so far

vars == <<written, initial, pc, mode, begin, current_offset, offset, printed,
          stdout_ok>>

Modes == {"run", "run_history", "snapshot"}

Init ==
    /\ written \in Starts
    /\ initial = written
    /\ pc = "start"
    /\ mode \in Modes
    /\ begin = 0 /\ current_offset = 0 /\ offset = 0
    /\ printed = {}
    /\ stdout_ok = TRUE

-----------------------------------------------------------------------------
(* The RoT's channel                                                       *)

\* The first byte still in the buffer.
Earliest == IF written > BufferSize THEN written - BufferSize ELSE 0

RotWrites ==
    /\ written < initial + MaxMore
    /\ written' = written + 1
    /\ UNCHANGED <<initial, pc, mode, begin, current_offset, offset, printed,
                   stdout_ok>>

\* Where HOTH_PRV_CMD_HOTH_CHANNEL_READ finds data for an offset: there, or at
\* "the first available data".
FoundAt ==
    LET here == {n \in Earliest .. written : n % Space = offset}
    IN  IF here # {} THEN Max(here) ELSE Earliest

ReadLen == Min({MaxRead, written - FoundAt})

-----------------------------------------------------------------------------
(* The client                                                              *)

\* libhoth_get_channel_status(); history starts half the offset space back,
\* outside of the buffer.
GetChannelStatus ==
    /\ pc = "start"
    /\ begin' = written
    /\ current_offset' = written % Space
    /\ offset' = IF mode = "run" THEN written % Space
                                 ELSE (written - Half) % Space
    /\ pc' = "loop"
    /\ UNCHANGED <<written, initial, mode, printed, stdout_ok>>

GetChannelStatusFails ==
    /\ pc = "start"
    /\ pc' = "end"
    /\ UNCHANGED <<written, initial, mode, begin, current_offset, offset,
                   printed, stdout_ok>>

\* Mutant: until exactly the offset.
ReadsOnUnequal(o) == o # current_offset

\* The snapshot's condition to read on.
ReadsOn(o) ==
    \/ o < current_offset
    \/ (o - current_offset) % Space > Half

\* Mutant: the offset advances by the size asked for.
ReadConsoleAsked ==
    /\ pc = "loop"
    /\ printed' = printed \union FoundAt .. FoundAt + ReadLen - 1
    /\ offset' = (FoundAt + MaxRead) % Space
    /\ pc' = IF mode = "snapshot" /\ ~ReadsOn(offset') THEN "end" ELSE "loop"
    /\ UNCHANGED <<written, initial, mode, begin, current_offset, stdout_ok>>
ReadConsole ==
    /\ pc = "loop"
    /\ printed' = printed \union FoundAt .. FoundAt + ReadLen - 1
    /\ offset' = (FoundAt + ReadLen) % Space
    /\ pc' = IF mode = "snapshot" /\ ~ReadsOn(offset') THEN "end" ELSE "loop"
    /\ UNCHANGED <<written, initial, mode, begin, current_offset, stdout_ok>>

\* A failed host command, or claim, leaves the offset: a snapshot ends, the
\* interactive console reconnects.
Failed == pc' = IF mode = "snapshot" THEN "end" ELSE "reconnect"

ReadConsoleFails ==
    /\ pc = "loop"
    /\ Failed
    /\ UNCHANGED <<written, initial, mode, begin, current_offset, offset,
                   printed, stdout_ok>>

\* libhoth_force_write() fails after a part of the piece.
WriteStdoutFails ==
    /\ pc = "loop"
    /\ ReadLen > 0
    /\ \E k \in 0 .. ReadLen - 1 :
          printed' = printed \union FoundAt .. FoundAt + k - 1
    /\ stdout_ok' = FALSE
    /\ Failed
    /\ UNCHANGED <<written, initial, mode, begin, current_offset, offset>>

Reconnect ==
    /\ pc = "reconnect"
    /\ pc' = "loop"
    /\ UNCHANGED <<written, initial, mode, begin, current_offset, offset,
                   printed, stdout_ok>>

Quit ==
    /\ pc = "loop"
    /\ mode # "snapshot"
    /\ pc' = "end"
    /\ UNCHANGED <<written, initial, mode, begin, current_offset, offset,
                   printed, stdout_ok>>

-----------------------------------------------------------------------------
Client ==
    \/ GetChannelStatus
    \/ GetChannelStatusFails
    \/ ReadConsole
    \/ ReadConsoleFails
    \/ WriteStdoutFails
    \/ Reconnect
    \/ Quit

Next == Client \/ RotWrites

Spec == Init /\ [][Next]_vars

\* The client goes on reading; the RoT's writer owes nothing.
FairSpec == Spec /\ WF_vars(ReadConsole)

-----------------------------------------------------------------------------
(* Properties                                                              *)

\* What the caller asked for: the history, or what comes after the start.
From == IF mode = "run" THEN begin ELSE 0

\* Bytes appear on stdout in the stream's order and none twice, through any
\* number of failed reads and reconnects, as long as stdout takes them.
PrintedInOrder ==
    [][ReadConsole /\ stdout_ok =>
          \A n \in FoundAt .. FoundAt + ReadLen - 1, m \in printed : n > m]_vars

\* The reader never jumps over bytes that the RoT still has: what it did not
\* print had been overwritten ("Console jumped forward"), also while the
\* history it reads straddles the wrap-around of the offsets.
NoAvailableByteSkipped ==
    \A n \in Earliest .. written - 1 :
        n >= From /\ (\E m \in printed : n < m) => n \in printed

\* A snapshot that ended normally has printed everything up to where the
\* stream was when it started.
SnapshotReachesBegin ==
    [][mode = "snapshot" /\ ReadConsole /\ pc' = "end" =>
          \A n \in Earliest .. begin - 1 : n \in printed']_vars

\* "Repeat read until reaching current offset": a snapshot ends although the
\* RoT writes on, if the offsets do not wrap around before it has caught up.
\* Past the wrap-around offset < current_offset holds again and the snapshot
\* follows the console for ever, whatever the comment on that test says.
SnapshotEnds ==
    (mode = "snapshot" /\ pc = "loop" /\ current_offset + MaxMore < Space)
        ~> pc = "end"

\* The console shows the stream in its order, without a gap that the RoT's
\* buffer could still have filled, and a snapshot shows all there was.
StreamIsPrinted ==
    []NoAvailableByteSkipped /\ PrintedInOrder /\ SnapshotReachesBegin
=============================================================================
