----------------------------- MODULE MCConsole -----------------------------
(***************************************************************************)
(* Bounded instance of ConsoleOutput and ConsoleInput for TLC.  The        *)
(* console's loop alternates the two, and they share no state (the offset  *)
(* belongs to one, the static escape flag and stdin to the other): instead *)
(* of their product a behaviour takes the steps of one of them only.       *)
(***************************************************************************)
EXTENDS ConsoleOutput

CONSTANTS Esc, QuitKey, BreakKey, PlainKeys, InputSize, MaxKeys

VARIABLES typed, stdin, escaped, connected, quit, sent, breaks, lost

inputVars == <<typed, stdin, escaped, connected, quit, sent, breaks, lost>>

Input == INSTANCE ConsoleInput WITH BufferSize <- InputSize

ASSUME InputAssumption == Input!InputAssumption

MCInit == Init /\ Input!Init

Steps ==
    \/ /\ typed = <<>> /\ connected
       /\ Next
       /\ UNCHANGED inputVars
    \/ /\ pc = "start" /\ written = 0
       /\ Input!Next
       /\ UNCHANGED vars

MCSpec == MCInit /\ [][Steps]_<<vars, inputVars>>

\* The output's reader goes on reading, as in ConsoleOutput!FairSpec.
MCFairSpec ==
    MCSpec /\ WF_<<vars, inputVars>>(ReadConsole /\ UNCHANGED inputVars)

\* libhoth_write_console() sends what was typed, in the order typed and none of it
\* twice, however it is cut into reads (ConsoleInput).
InputIsFaithful == Input!InputIsFaithful
=============================================================================
