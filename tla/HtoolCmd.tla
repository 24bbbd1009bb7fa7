------------------------------ MODULE HtoolCmd ------------------------------
(***************************************************************************)
(* One invocation of htool, from the words of its command line to its exit *)
(* status: htool_main() and the parameter functions of htool_cmd.c, and    *)
(* the handler that the command table names for the command, step by step, *)
(* with every step that may fail failing.                                  *)
(*                                                                         *)
(* A word of the command line is a record: the dashes it begins with, the  *)
(* letter after a single dash and the text that follows it, and the name   *)
(* and value of a flag ("--name=value", or "--noname" when "no" is set).   *)
(***************************************************************************)
EXTENDS HtoolTable, Integers, SequencesExt

CONSTANTS
    Lines,      \* the command lines: [globals, verbs, items]
    Statuses    \* errors of libhoth_hostcmd_exec() that handlers return as they are

\* An exit status has eight bits.  The legacy codes of host_cmd.c are -1, 537200
\* plus a small code, and the RoT's own extended codes: what is said about exit
\* status 0 below holds if none of those is a multiple of 256.
ASSUME StatusesAssumption ==
    \A s \in Statuses : s \in Int /\ s % 256 # 0

VARIABLES
    line,       \* what the user typed
    pc,         \* "globals", "verbs", "params", "run", "done"
    words,      \* the words not looked at yet
    global,     \* global_flags_inv.args
    cmd,        \* inv.cmd, the command found, NoCommand before
    args,       \* inv.args
    at,         \* the step of the handler
    files,      \* what became of the user's files
    sent,       \* the RoT carried out a command that changes something
    short,      \* an answer shorter than its structure: "no", the "last", an "earlier"
    failed,     \* the kinds of step that failed
    rv          \* the return value

vars == <<line, pc, words, global, cmd, args, at, files, sent, short, failed, rv>>

-----------------------------------------------------------------------------
(* Words                                                                   *)

Plain(text) == [dash |-> 0, ch |-> "", text |-> text, no |-> FALSE,
                name |-> text, value |-> NULL]
Long(name, value) == [dash |-> 2, ch |-> "", text |-> NULL, no |-> FALSE,
                      name |-> name, value |-> value]
No(name) == [dash |-> 2, ch |-> "", text |-> NULL, no |-> TRUE,
             name |-> name, value |-> NULL]
Short(ch, text) == [dash |-> 1, ch |-> ch, text |-> text, no |-> FALSE,
                    name |-> text, value |-> NULL]

\* What the user means: a parameter, its value, and how it is written.
Item(param, form, value) == [param |-> param, form |-> form, value |-> value]

\* A value that begins with a dash looks like a flag.
ValueWord(value) == IF value = "-1" THEN Short("1", NULL) ELSE Plain(value)

Render(item) ==
    LET p == item.param v == item.value IN
    CASE item.form = "long" -> <<Long(p.name, v)>>
      [] item.form = "long next" -> <<Long(p.name, NULL), ValueWord(v)>>
      [] item.form = "short" -> <<Short(p.ch, v)>>
      [] item.form = "short next" -> <<Short(p.ch, NULL), ValueWord(v)>>
      [] item.form = "bare" -> <<Long(p.name, NULL)>>
      [] item.form = "short bare" -> <<Short(p.ch, NULL)>>
      [] item.form = "no" -> <<No(p.name)>>
      [] item.form = "letter" -> <<Short("?", p.name)>>
      [] item.form = "plain" -> <<ValueWord(v)>>
      [] item.form = "unknown" -> <<Long("unknown", NULL)>>
      [] item.form = "dash" -> <<Short("", NULL)>>
      [] item.form = "help" -> <<Long("help", NULL)>>

\* The words of the last n items.
LastWords(items) ==
    LET last[n \in 0..Len(items)] ==
            IF n = 0 THEN <<>>
            ELSE Render(items[Len(items) - (n - 1)]) \o last[n - 1]
    IN  last

Words(items) == LastWords(items)[Len(items)]

-----------------------------------------------------------------------------
(* htool_cmd.c                                                             *)

IsFlag(param) == param.type # "positional"

\* Mutant: words that run out in the middle of the verbs match.
matches_verbsPrefix(verbs, argv) ==
    LET n == Min({Len(verbs), Len(argv)}) IN
    IF \A i \in 1..n : argv[i].dash = 0 /\ argv[i].text = verbs[i] THEN n ELSE 0

\* The number of words that a command's verbs take, 0 if they do not match.
matches_verbs(verbs, argv) ==
    IF /\ verbs # <<>> /\ Len(verbs) <= Len(argv)
       /\ \A i \in DOMAIN verbs : argv[i].dash = 0 /\ argv[i].text = verbs[i]
    THEN Len(verbs)
    ELSE 0

Matches(c, argv) == matches_verbs(c.verbs, argv) + matches_verbs(c.alias, argv)

NoCommand == Cmd(<<>>, <<>>, <<>>, <<>>)

\* The first command of the table that matches.
find_command(argv) ==
    LET cmds == CMDS
        matching == {i \in DOMAIN cmds : Matches(cmds[i], argv) > 0}
    IN  IF matching = {} THEN NoCommand ELSE cmds[Min(matching)]

find_param_by_name(params, name) ==
    {i \in DOMAIN params : params[i].name = name}

\* Mutant: the default value is forgotten.
get_paramTypedOnly(params, values, name) ==
    LET found == find_param_by_name(params, name) IN
    IF found = {} THEN NULL ELSE values[Min(found)]

get_param(params, values, name) ==
    LET found == find_param_by_name(params, name) IN
    IF found = {} THEN NULL
    ELSE LET i == Min(found)
         IN  IF values[i] # NULL THEN values[i] ELSE params[i].default

\* positional_param_index stays 0: every plain word is the first positional.
find_positional_param(params) ==
    {i \in DOMAIN params : ~IsFlag(params[i])}

\* The parameter a flag is for, 0 if there is none, and its value.  A letter that
\* no parameter has is passed over: the text after it is looked up as a name.
find_flag(params, w) ==
    LET letter == {i \in DOMAIN params :
                     /\ w.dash = 1 /\ IsFlag(params[i])
                     /\ params[i].ch = w.ch /\ w.ch # ""}
        name == {i \in DOMAIN params :
                   /\ ~(w.dash = 1 /\ w.ch = "")
                   /\ params[i].name = w.name
                   /\ IF w.no THEN params[i].type = "bool" ELSE IsFlag(params[i])}
        or_true(i, v) == IF v = NULL /\ params[i].type = "bool" THEN "true" ELSE v
    IN  CASE letter # {} -> [param |-> Min(letter),
                             value |-> or_true(Min(letter), w.text)]
          [] letter = {} /\ name # {} ->
               [param |-> Min(name),
                value |-> IF w.no THEN "false" ELSE or_true(Min(name), w.value)]
          [] OTHER -> [param |-> 0, value |-> NULL]

\* One turn of the loops of fill_global_flags() and fill_cmd_invocation() on a
\* flag: an error, or the words left and the values.
FillFlag(params, values, argv) ==
    LET found == find_flag(params, Head(argv))
        missing == /\ found.param # 0 /\ found.value = NULL
                   /\ \/ Len(argv) = 1
                      \/ argv[2].dash # 0
        next == found.value = NULL
    IN  [ok |-> found.param # 0 /\ ~missing,
         words |-> SubSeq(argv, IF next THEN 3 ELSE 2, Len(argv)),
         values |-> [i \in DOMAIN values |->
                       IF i # found.param \/ missing THEN values[i]
                       ELSE IF next THEN argv[2].text ELSE found.value]]

Numbers == {"0", "1", "47", "50", "60", "100", "127", "400", "180000000", "-1"}

TrueWords == {"true", "1", "TRUE"}

\* htool_get_param_<type>(); see HtoolNumbers for the parsers of numbers.
Parses(type, value) ==
    /\ value # NULL
    /\ \/ type = "string"
       \/ type = "bool" /\ value \in TrueWords \cup {"false", "0", "FALSE"}
       \/ type = "u32" /\ value \in Numbers
       \/ type = "u64" /\ value \in Numbers \ {"-1"}
       \/ type = "fourcc" /\ value \in Numbers \cup {"UART"}
       \/ type = "time" /\ value \in (Numbers \ {"-1"}) \cup {"10s"}

-----------------------------------------------------------------------------
(* htool_main()                                                            *)

Init ==
    /\ line \in Lines
    /\ pc = "globals"
    /\ words = Words(line.globals)
               \o [i \in DOMAIN line.verbs |-> Plain(line.verbs[i])]
               \o Words(line.items)
    /\ global = [i \in DOMAIN GLOBAL_FLAGS |-> NULL]
    /\ cmd = NoCommand /\ args = <<>> /\ at = 0 /\ files = <<>>
    /\ sent = FALSE /\ short = "no" /\ failed = {}
    /\ rv = 0

Return(value) == pc' = "done" /\ rv' = value

handler == <<at, files, sent, short, failed>>

\* fill_global_flags(): flags up to the first word that is none.
ParseGlobal ==
    /\ pc = "globals" /\ words # <<>> /\ Head(words).dash # 0
    /\ LET fill == FillFlag(GLOBAL_FLAGS, global, words) IN
       IF fill.ok
       THEN global' = fill.values /\ words' = fill.words /\ UNCHANGED <<pc, rv>>
       ELSE Return(-1) /\ UNCHANGED <<global, words>>
    /\ UNCHANGED <<line, cmd, args, handler>>

\* --version
Version ==
    /\ pc = "globals" /\ ~(words # <<>> /\ Head(words).dash # 0)
    /\ LET version == get_param(GLOBAL_FLAGS, global, "version") IN
       CASE ~Parses("bool", version) -> Return(-1)
         [] version \in TrueWords -> Return(0)
         [] OTHER -> pc' = "verbs" /\ UNCHANGED rv
    /\ UNCHANGED <<line, words, global, cmd, args, handler>>

FindCommand ==
    /\ pc = "verbs"
    /\ cmd' = find_command(words)
    /\ IF cmd' = NoCommand
       THEN Return(-1) /\ UNCHANGED <<words, args>>
       ELSE /\ pc' = "params"
            /\ words' = SubSeq(words, Matches(cmd', words) + 1, Len(words))
            /\ args' = [i \in DOMAIN cmd'.params |-> NULL]
            /\ UNCHANGED rv
    /\ UNCHANGED <<line, global, handler>>

\* fill_cmd_invocation(): one turn of its loop.
ParseParam ==
    /\ pc = "params" /\ words # <<>>
    /\ LET params == cmd.params
           w == Head(words)
           fill == FillFlag(params, args, words)
           positional == find_positional_param(params)
       IN  CASE w.dash # 0 /\ fill.ok /\ w # Long("help", NULL) ->
                  args' = fill.values /\ words' = fill.words /\ UNCHANGED <<pc, rv>>
             [] w.dash = 0 /\ positional # {} ->
                  /\ args' = [args EXCEPT ![Min(positional)] = w.text]
                  /\ words' = Tail(words)
                  /\ UNCHANGED <<pc, rv>>
             [] OTHER -> Return(-1) /\ UNCHANGED <<args, words>>
    /\ UNCHANGED <<line, global, cmd, handler>>

-----------------------------------------------------------------------------
(* The handler                                                             *)

Script == cmd.func
step == Script[at]

ValueOf(of, what) ==
    CASE of = "global" -> get_param(GLOBAL_FLAGS, global, what)
      [] of = "cmd" /\ what = "verb" -> Last(cmd.verbs)
      [] OTHER -> get_param(cmd.params, args, what)

Holds(condition) ==
    (ValueOf(condition.of, condition.what) \in condition.in) = condition.is

Taken(k) == \A c \in Script[k].if : Holds(c)

\* The first step from k on that is taken.
From(k) == Min({j \in k..Len(Script) : Taken(j)} \cup {Len(Script) + 1})

\* cmd->func(&inv)
Call ==
    /\ pc = "params" /\ words = <<>>
    /\ pc' = "run"
    /\ at' = From(1)
    /\ files' = [f \in {Script[k].what : k \in {k \in DOMAIN Script :
                           Script[k].op \in {"read", "create", "write"}}}
                   |-> "untouched"]
    /\ UNCHANGED <<line, words, global, cmd, args, sent, short, failed, rv>>

front == <<line, words, global, cmd, args>>

Running(ops) == pc = "run" /\ at <= Len(Script) /\ step.op \in ops

\* The step succeeds, or the handler takes no notice that it failed.
Goto(k) == at' = From(k) /\ UNCHANGED <<pc, rv>>
Succeed == Goto(at + 1) /\ UNCHANGED failed

\* It fails, and step.rv says what becomes of that.
FailStep ==
    /\ failed' = failed \cup {step.op}
    /\ CASE step.rv = "on" -> Goto(at + 1)
         [] step.rv = "0" -> Return(0) /\ UNCHANGED at
         [] step.rv = "1" -> Return(1) /\ UNCHANGED at
         [] step.rv = "-1" -> Return(-1) /\ UNCHANGED at
         [] step.rv = "status" -> (\E s \in Statuses : Return(s)) /\ UNCHANGED at

\* Mutant: a handler reports a parameter that does not parse, and goes on.
AskParamUnchecked ==
    /\ Running({"ask", "ask_global"})
    /\ IF Parses(step.type,
                 ValueOf(IF step.op = "ask" THEN "cmd" ELSE "global", step.what))
       THEN Succeed ELSE Goto(at + 1) /\ failed' = failed \cup {step.op}
    /\ UNCHANGED <<front, files, sent, short>>

AskParam ==
    /\ Running({"ask", "ask_global"})
    /\ IF Parses(step.type,
                 ValueOf(IF step.op = "ask" THEN "cmd" ELSE "global", step.what))
       THEN Succeed ELSE FailStep
    /\ UNCHANGED <<front, files, sent, short>>

RequireCondition ==
    /\ Running({"require"})
    /\ IF \A c \in step.test : Holds(c) THEN Succeed ELSE FailStep
    /\ UNCHANGED <<front, files, sent, short>>

\* A test of data, and the opening of a transport.
TestOrOpen ==
    /\ Running({"check", "open"})
    /\ Succeed \/ FailStep
    /\ UNCHANGED <<front, files, sent, short>>

AlwaysFail ==
    /\ Running({"fail"})
    /\ FailStep
    /\ UNCHANGED <<front, files, sent, short>>

EarlyReturn ==
    /\ Running({"stop"})
    /\ Return(0)
    /\ UNCHANGED <<front, at, files, sent, short, failed>>

Path == ValueOf("cmd", step.what)

ReadFile ==
    /\ Running({"read"})
    /\ \/ Path # "" /\ Succeed
       \/ FailStep
    /\ UNCHANGED <<front, files, sent, short>>

CreateFile ==
    /\ Running({"create"})
    /\ \/ Path # "" /\ Succeed /\ files' = [files EXCEPT ![step.what] = "empty"]
       \/ FailStep /\ UNCHANGED files
    /\ UNCHANGED <<front, sent, short>>

\* Mutant: the loop over write() stops at an error as at the end.
WriteFileUnnoticed ==
    /\ Running({"write"})
    /\ Succeed
    /\ \E file \in {"written", "damaged"} :
          files' = [files EXCEPT ![step.what] = file]
    /\ UNCHANGED <<front, sent, short>>

\* A file that a write failed on stays damaged.
WriteFile ==
    /\ Running({"write"})
    /\ LET file == files[step.what] IN
       \/ /\ Succeed
          /\ files' = [files EXCEPT ![step.what] =
                         IF file = "damaged" THEN file ELSE "written"]
       \/ FailStep /\ files' = [files EXCEPT ![step.what] = "damaged"]
    /\ UNCHANGED <<front, sent, short>>

\* The answer has its whole size, or it is short.
Answer ==
    \/ short' = IF short = "no" THEN "no" ELSE "earlier"
    \/ step.op \in {"get_short", "put_short"} /\ short' = "last"

\* libhoth_hostcmd_exec(): answered, or refused, or the exchange fails.
ExecGet ==
    /\ Running({"get", "get_short"})
    /\ \/ Succeed /\ Answer
       \/ FailStep /\ UNCHANGED short
    /\ UNCHANGED <<front, files, sent>>

\* The answer to a command that the RoT carried out may be lost.
ExecPut ==
    /\ Running({"put", "put_short"})
    /\ \/ Succeed /\ Answer /\ sent' = TRUE
       \/ FailStep /\ sent' \in {sent, TRUE} /\ UNCHANGED short
    /\ UNCHANGED <<front, files>>

\* Mutant: an answer that is too short passes for one that fits.
CheckSizeAtMost ==
    /\ Running({"sized"})
    /\ Succeed
    /\ UNCHANGED <<front, files, sent, short>>

CheckSize ==
    /\ Running({"sized"})
    /\ IF short = "last" THEN FailStep ELSE Succeed
    /\ UNCHANGED <<front, files, sent, short>>

\* raw_host_command: an answer of any kind is passed on.
ExecPass ==
    /\ Running({"pass"})
    /\ Succeed \/ FailStep
    /\ sent' \in {sent, TRUE}
    /\ UNCHANGED <<front, files, short>>

\* Carried out and answered; refused; anything else.
ExecPutOrLost ==
    /\ Running({"put_or_lost"})
    /\ \/ Goto(at + 2) /\ sent' = TRUE /\ UNCHANGED failed
       \/ FailStep /\ UNCHANGED sent
       \/ /\ Goto(at + 1) /\ sent' \in {sent, TRUE}
          /\ failed' = failed \cup {"answer"}
    /\ UNCHANGED <<front, files, short>>

\* What data decides: to pass over the next n steps, or to repeat the last n.
Choose ==
    /\ Running({"skip", "again"})
    /\ Goto(at + 1) \/ Goto(IF step.op = "skip" THEN at + 1 + step.n
                                                ELSE at - step.n)
    /\ UNCHANGED <<front, files, sent, short, failed>>

HandlerReturns ==
    /\ pc = "run" /\ at > Len(Script)
    /\ Return(0)
    /\ UNCHANGED <<front, handler>>

\* The process is gone.
Exited == pc = "done" /\ UNCHANGED vars

Next ==
    \/ ParseGlobal \/ Version \/ FindCommand \/ ParseParam \/ Call
    \/ AskParam \/ RequireCondition \/ TestOrOpen \/ AlwaysFail \/ EarlyReturn
    \/ ReadFile \/ CreateFile \/ WriteFile
    \/ ExecGet \/ ExecPut \/ CheckSize \/ ExecPass \/ ExecPutOrLost
    \/ Choose \/ HandlerReturns \/ Exited

Spec == Init /\ [][Next]_vars

-----------------------------------------------------------------------------
(* Properties                                                              *)

Params == cmd.params

\* What the user means by a line.  An item is wrong when the command has no such
\* parameter or it lacks its value; a value that begins with a dash is not seen as
\* one unless "=" or the letter precedes it.
Wrong(params, item) ==
    \/ item.form \in {"unknown", "dash", "help"}
    \/ item.form \in {"bare", "short bare", "letter"} /\ item.param.type = "value"
    \/ item.form = "no" /\ item.param.type # "bool"
    \/ item.form \in {"long next", "short next", "plain"} /\ item.value = "-1"
    \/ item.form = "plain" /\ find_positional_param(params) = {}

AnyWrong(params, items) == \E i \in DOMAIN items : Wrong(params, items[i])

Meant(params, items) ==
    [i \in DOMAIN params |->
       LET mine == {k \in DOMAIN items : items[k].param = params[i]}
           last == items[Max(mine)]
       IN  CASE mine = {} -> NULL
             [] mine # {} /\ last.form \in {"bare", "short bare", "letter"} -> "true"
             [] mine # {} /\ last.form = "no" -> "false"
             [] OTHER -> last.value]

\* The command carried out is the one whose verbs, or alias, were typed, although
\* find_command() takes the first that matches and some verbs begin others; and a
\* command that exists is found, unless a global flag stops htool first.
RunsTypedCommand ==
    /\ cmd # NoCommand => line.verbs \in {cmd.verbs, cmd.alias}
    /\ pc = "done" /\ cmd = NoCommand =>
         LET cmds == CMDS IN
         \/ \A i \in DOMAIN cmds : line.verbs \notin {cmds[i].verbs, cmds[i].alias}
         \/ line.verbs = <<>>
         \/ AnyWrong(GLOBAL_FLAGS, line.globals)
         \/ Meant(GLOBAL_FLAGS, line.globals)[Len(GLOBAL_FLAGS)] # NULL

\* However a parameter is written (name or letter, value attached or as the next
\* word, --no), the handler sees the value of its last mention, and a line is
\* refused before the handler only for an item that is wrong.
ParserRoundTrip ==
    /\ at > 0 => /\ args = Meant(Params, line.items)
                 /\ global = Meant(GLOBAL_FLAGS, line.globals)
                 /\ ~AnyWrong(Params, line.items)
    /\ pc = "done" /\ cmd # NoCommand /\ at = 0 => AnyWrong(Params, line.items)

\* A handler asks only for parameters its table entry registers ("INTERNAL ERROR:
\* asked for non-registered argument"), and when a parameter does not parse the
\* user typed it, or left out one that has no default value.
RefusedForWhatWasTyped ==
    pc = "done" /\ failed \cap {"ask", "ask_global"} # {} =>
        LET params == IF "ask" \in failed THEN Params ELSE GLOBAL_FLAGS
            values == IF "ask" \in failed THEN args ELSE global
        IN  \E i \in find_param_by_name(params, step.what) :
                values[i] # NULL \/ params[i].default = NULL

\* The exit status as the shell sees it, when the handler ran to its end.
ExitsZero == pc = "done" /\ at > 0 /\ rv % 256 = 0

\* The handlers that report success after an error: an image that cannot be
\* parsed, an error on the I2C bus, a changed JTAG bit, a lost answer to the
\* firmware update, an attestation given up half-way.
Lenient == {htool_payload_info, htool_i2c_run, htool_jtag_run,
            htool_firmware_update, htool_fetch_attestation}

\* A file's last bytes are written when fclose() flushes them, which nobody checks.
BuffersOutput ==
    \E k \in DOMAIN Script : Script[k].op = "write" /\ Script[k].rv = "on"

\* Exit status 0 means that no step of the command failed: every other handler
\* passes every error on to the shell, through eight bits of an exit status.
ExitZeroMeansDone ==
    ExitsZero /\ Script \notin Lenient =>
        failed \subseteq (IF BuffersOutput THEN {"write"} ELSE {})

\* A mistake on the command line, a file that cannot be read or created, is found
\* before the RoT is told to change anything.  Generating an attestation key is
\* the exception: its output files are opened when the key has been made.
HostSideFailureLeavesRotAlone ==
    failed \cap {"ask", "ask_global", "require", "read", "create"} # {} =>
        \/ ~sent
        \/ Script \in {htool_gen_attestation_key_v1, htool_gen_attestation_key_v2}

\* A mistake on the command line is found before an output file is truncated,
\* except a wrong --address_mode of spi read.
RejectedLineKeepsFiles ==
    failed \cap {"ask", "ask_global", "require"} # {} =>
        \/ \A f \in DOMAIN files : files[f] = "untouched"
        \/ Script = command_spi_read

\* Exit status 0 with an output file named means that the file was created and
\* written whole, or lost bytes at fclose() where that is not looked at.  The
\* exceptions: spi read of length 0, get_panic that clears the record instead,
\* and the attestation.
OutputsAreWritten ==
    ExitsZero /\ Script # htool_fetch_attestation =>
        \A f \in DOMAIN files :
            (\E k \in DOMAIN Script : Script[k].op = "create" /\ Script[k].what = f) =>
                \/ ValueOf("cmd", f) \in {"", NULL}
                \/ files[f] = "written"
                \/ files[f] = "damaged" /\ BuffersOutput
                \/ Script = command_spi_read /\ ValueOf("cmd", "length") = "0"
                \/ Script = htool_panic_get_panic /\ Holds(True("clear"))

\* No command exits 0 after an answer shorter than the structure it was copied
\* into, whose tail is then stack or zeroes, but the four that do not compare the
\* size: statistics, MAUV (whose old answer is shorter), the provisioning log's
\* header, and the read of a key record's chunk, where a short packet only warns
\* (ChunkRead follows its bytes).
OnlyWholeAnswersUsed ==
    ExitsZero => \/ short = "no"
                 \/ Script \in {htool_statistics, htool_mauv_compiled,
                                htool_get_provisioning_log,
                                htool_key_rotation_read_chunk_type}

\* "If the attestation_flag is provided return the entire attestation in a single
\* file": exit status 0 means that the file holds an attestation.
AttestationFileHoldsAttestation ==
    ExitsZero /\ Script = htool_fetch_attestation =>
        \/ ValueOf("cmd", "attestation_file") = ""
        \/ files["attestation_file"] \notin {"untouched", "empty"}

\* htool carries out the command that was typed, with the values that were typed.
RunsWhatWasTyped == RunsTypedCommand /\ ParserRoundTrip

\* Exit status 0 can be relied on: nothing failed, and output files are written.
ExitZeroIsTrue == ExitZeroMeansDone /\ OutputsAreWritten

\* A mistake of the user's is found before it does harm, to the RoT or to a file.
MistakesFoundFirst == HostSideFailureLeavesRotAlone /\ RejectedLineKeepsFiles
=============================================================================
