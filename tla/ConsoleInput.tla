---------------------------- MODULE ConsoleInput ----------------------------
(***************************************************************************)
(* What the user types in the interactive console.  libhoth_write_console()*)
(* (protocol/console.c) takes whatever has been typed since its last call, *)
(* at most a buffer full, has unescape() look for Ctrl-T sequences, and    *)
(* sends the rest to the RoT's channel.  A sequence may be cut by the end  *)
(* of a read: unescape() remembers the Ctrl-T in a static variable.  While *)
(* the console reconnects, keys pile up.                                   *)
(***************************************************************************)
EXTENDS Integers, Sequences

CONSTANTS
    Esc,            \* ESCAPE_CHAR, Ctrl-T
    QuitKey,        \* 'Q', 'q'
    BreakKey,       \* 'B', 'b'
    PlainKeys,      \* every other key
    BufferSize,     \* sizeof(req.buffer), 64
    MaxKeys         \* bound: keys typed

Keys == {Esc, QuitKey, BreakKey} \union PlainKeys

InputAssumption ==
    /\ Esc # QuitKey /\ Esc # BreakKey /\ QuitKey # BreakKey
    /\ {Esc, QuitKey, BreakKey} \intersect PlainKeys = {}
    /\ BufferSize \in Nat \ {0}

VARIABLES
    typed,          \* everything typed so far
    stdin,          \* what has not been read
    escaped,        \* unescape()'s static variable
    connected,      \* the last host command succeeded
    quit,
    sent,           \* the keys the channel received
    breaks,         \* breaks it received
    lost            \* keys of reads whose host command failed or ended early

vars == <<typed, stdin, escaped, connected, quit, sent, breaks, lost>>

Init ==
    /\ typed = <<>> /\ stdin = <<>>
    /\ escaped = FALSE /\ connected = TRUE /\ quit = FALSE
    /\ sent = <<>> /\ breaks = 0 /\ lost = FALSE

-----------------------------------------------------------------------------
(* unescape()                                                              *)

\* The static variable, the keys kept in buf, and whether the loop returned.
State(is_escaped, out, stop) ==
    [escaped |-> is_escaped, out |-> out, stop |-> stop]

\* One key, as the body of its loop treats it.
UnescapeKey(st, key) ==
    IF st.stop # "no" THEN st
    ELSE IF ~st.escaped
    THEN IF key = Esc THEN State(TRUE, st.out, "no")
                      ELSE State(FALSE, Append(st.out, key), "no")
    ELSE CASE key = Esc -> State(FALSE, Append(st.out, key), "no")
           [] key = QuitKey -> State(FALSE, <<>>, "quit")
           [] key = BreakKey -> State(FALSE, <<>>, "break")
           [] OTHER -> State(FALSE, st.out, "no")

\* The loop: its state after each of the keys.
UnescapeLoop(start, buf) ==
    LET st[n \in 0 .. Len(buf)] ==
          IF n = 0 THEN start ELSE UnescapeKey(st[n - 1], buf[n])
    IN  st

Start(was_escaped) == State(was_escaped, <<>>, "no")

\* Mutant: escaped is not static.
UnescapeFresh(was_escaped, buf) == UnescapeLoop(Start(FALSE), buf)[Len(buf)]

\* A quit or a break ends the loop with nothing to write.
Unescape(was_escaped, buf) == UnescapeLoop(Start(was_escaped), buf)[Len(buf)]

-----------------------------------------------------------------------------
Type(key) ==
    /\ Len(typed) < MaxKeys
    /\ ~quit
    /\ typed' = Append(typed, key)
    /\ stdin' = Append(stdin, key)
    /\ UNCHANGED <<escaped, connected, quit, sent, breaks, lost>>

\* read() takes what is there, at most a buffer full.
ReadBuf == SubSeq(stdin, 1, IF Len(stdin) < BufferSize THEN Len(stdin)
                                                       ELSE BufferSize)

\* libhoth_write_console(): CHANNEL_WRITE succeeds or fails, and a failing one
\* may have been carried out.
WriteConsole(ok, arrives) ==
    /\ connected /\ ~quit
    /\ stdin # <<>>
    /\ ok => arrives
    /\ LET st == Unescape(escaped, ReadBuf)
           sends == st.stop = "break" \/ (st.stop = "no" /\ st.out # <<>>)
       IN  /\ escaped' = st.escaped
           /\ quit' = (st.stop = "quit")
           /\ connected' = (ok \/ ~sends)
           /\ sent' = IF arrives /\ sends THEN sent \o st.out ELSE sent
           /\ breaks' = IF arrives /\ st.stop = "break" THEN breaks + 1
                                                        ELSE breaks
           /\ lost' = (lost \/ (sends /\ ~ok) \/ st.stop = "break")
    /\ stdin' = SubSeq(stdin, Len(ReadBuf) + 1, Len(stdin))
    /\ UNCHANGED typed

\* A read, or the claim before it, fails; the loop then reconnects.
ConnectionFails ==
    /\ connected /\ ~quit
    /\ connected' = FALSE
    /\ UNCHANGED <<typed, stdin, escaped, quit, sent, breaks, lost>>

Reconnect ==
    /\ ~connected
    /\ connected' = TRUE
    /\ UNCHANGED <<typed, stdin, escaped, quit, sent, breaks, lost>>

Next ==
    \/ \E key \in Keys : Type(key)
    \/ \E ok, arrives \in BOOLEAN : WriteConsole(ok, arrives)
    \/ ConnectionFails
    \/ Reconnect

Spec == Init /\ [][Next]_vars

-----------------------------------------------------------------------------
(* Properties                                                              *)

\* What unescape() would make of the keys if they came in a single read.
Reference(keys) == Unescape(FALSE, keys)

Read == SubSeq(typed, 1, Len(typed) - Len(stdin))

\* How the keys are cut into reads makes no difference: what was sent is what
\* one read of everything would have given, and so is the decision to quit,
\* provided no host command failed and no break was asked for.
CutsMakeNoDifference ==
    ~lost =>
        /\ quit <=> Reference(Read).stop = "quit"
        /\ ~quit => sent = Reference(Read).out /\ escaped = Reference(Read).escaped

\* The keys are some of the first n of a text, in its order.
Within(keys, text, n) ==
    \E place \in [DOMAIN keys -> 1 .. n] :
        /\ \A k, m \in DOMAIN keys : k < m => place[k] < place[m]
        /\ \A k \in DOMAIN keys : keys[k] = text[place[k]]

\* The channel receives keys the user typed, in the order typed and none of
\* them twice: a failing host command may lose keys and never repeats them.
SentWasTyped == Within(sent, typed, Len(typed))

\* The channel gets what the user typed: however it is cut into reads when all
\* goes well, and nothing out of order or twice when writes fail.
InputIsFaithful == CutsMakeNoDifference /\ SentWasTyped
=============================================================================
