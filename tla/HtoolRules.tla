----------------------------- MODULE HtoolRules -----------------------------
(***************************************************************************)
(* The rules that the handlers of the command table keep, each about the   *)
(* order of a handler's steps and what becomes of their errors, with the   *)
(* handlers that break it by name, and those that its parameters and verbs *)
(* keep.  The properties of HtoolCmd rest on them.  They speak of the      *)
(* table alone, in which no constant and no variable occurs, so that TLC's *)
(* evaluation settles them.  What makes a command line clear is the one    *)
(* thing said here of what is typed.                                       *)
(***************************************************************************)
EXTENDS HtoolCmd

Commands == ToSet(CMDS)

-----------------------------------------------------------------------------
(* Kinds of step                                                           *)

\* A failure that the shell learns of: no status is a multiple of 256.
Reported == {"1", "-1", "status"}

ShortAnswers == {"get_short", "put_short"}
Changes == {"put", "put_short", "pass", "put_or_lost"}
FileSteps == {"read", "create", "write"}
Refusals == {"ask", "ask_global", "require"}
HostSide == Refusals \cup {"read", "create"}

-----------------------------------------------------------------------------
(* The rules, for a command c                                              *)

\* A failure has one of the outcomes of FailStep, and jumps stay within the handler.
WellFormed(s) ==
    \A k \in DOMAIN s :
        /\ s[k].rv \in Reported \cup {"0", "on"}
        /\ s[k].n \in Nat
        /\ s[k].op = "again" => s[k].n < k
        /\ s[k].op = "skip" => k + s[k].n <= Len(s)
        /\ s[k].op = "put_or_lost" => k + 1 <= Len(s)

\* Two steps of which no line takes both: they want different values of the same
\* parameter, or one wants a value that the other excludes.
Excludes(a, b) ==
    \E x \in a, y \in b :
        /\ x.of = y.of /\ x.what = y.what
        /\ x.is \in BOOLEAN /\ y.is \in BOOLEAN
        /\ \/ x.is /\ y.is /\ x.in \cap y.in = {}
           \/ x.is # y.is /\ x.in = y.in

\* An answer that may be short is compared with the size it should have in the
\* next step, which nothing passes over.
ShortAnswersSized(s) ==
    \A k \in DOMAIN s :
        s[k].op \in ShortAnswers =>
            /\ k < Len(s)
            /\ s[k + 1].op = "sized" /\ s[k + 1].rv \in Reported
            /\ s[k + 1].if \subseteq s[k].if

\* Every failure is reported, but that of a buffered write.
FailuresReported(s) ==
    \A k \in DOMAIN s :
        /\ s[k].op # "put_or_lost"
        /\ s[k].rv \in Reported \/ (s[k].op = "write" /\ s[k].rv = "on")

\* A parameter that always has a value, and any value will do.
AlwaysGiven(params, name) ==
    /\ find_param_by_name(params, name) # {}
    /\ params[Min(find_param_by_name(params, name))].default # NULL

MayRefuse(c, k) ==
    LET x == c.func[k] IN
    /\ x.op \in Refusals
    /\ ~(x.op = "ask" /\ x.type = "string" /\ AlwaysGiven(c.params, x.what))
    /\ ~(x.op = "ask_global" /\ x.type = "string"
           /\ AlwaysGiven(GLOBAL_FLAGS, x.what))

\* When step k was taken, step j is not taken, or it is a test that passes.
NoneAfter(s, k, j) ==
    \/ Excludes(s[k].if, s[j].if)
    \/ s[j].op = "require" /\ s[j].test \subseteq s[k].if

\* Of the steps K, none that may fail comes after a step of the kinds F, and no
\* loop leads back to one.
Behind(s, F, K) ==
    \A k \in DOMAIN s :
        s[k].op \in F =>
            /\ \A j \in K : k < j => NoneAfter(s, k, j)
            /\ \A l \in DOMAIN s, j \in K :
                   s[l].op = "again" => ~(l - s[l].n <= j /\ j <= l)

\* What may fail on the host's side has not failed when the RoT is told to change
\* something; what may refuse the line has not when a file is touched; and neither
\* is passed over in silence.
ChangesLast(c) ==
    Behind(c.func, Changes, {k \in DOMAIN c.func : c.func[k].op \in HostSide})

TouchesLast(c) ==
    Behind(c.func, {"create", "write"}, {k \in DOMAIN c.func : MayRefuse(c, k)})

HostSideReturns(s) ==
    \A k \in DOMAIN s : s[k].op \in HostSide => s[k].rv # "on"

\* A parameter that is asked for is registered, and its default value parses.
Registered(params, x) ==
    LET found == find_param_by_name(params, x.what) IN
    /\ found # {}
    /\ LET default == params[Min(found)].default
       IN  default = NULL \/ Parses(x.type, default)

\* The steps that the command's last verb leaves in.
OfVerb(c, k) ==
    \A x \in c.func[k].if :
        x.of = "cmd" /\ x.what = "verb" => (Last(c.verbs) \in x.in) = x.is

AsksRegistered(c) ==
    \A k \in DOMAIN c.func :
        LET x == c.func[k] IN
        OfVerb(c, k) =>
            /\ x.op = "ask" => x.what # "verb" /\ Registered(c.params, x)
            /\ x.op = "ask_global" => Registered(GLOBAL_FLAGS, x)

\* What excuses a handler from writing the file f.
Excuses(s, f) ==
    {Isnt(f, {""}), Isnt(f, {"", NULL})}
    \cup (IF s = command_spi_read THEN {Isnt("length", {"0"})} ELSE {})
    \cup (IF s = htool_panic_get_panic THEN {False("clear")} ELSE {})

\* The step w writes f, after f was created, and no way to exit status 0 leads past it.
Delivers(s, f, w) ==
    /\ s[w].op = "write" /\ s[w].what = f
    /\ s[w].if \subseteq Excuses(s, f)
    /\ \A k \in DOMAIN s :
         /\ s[k].op = "create" /\ s[k].what = f => k < w
         /\ s[k].op = "skip" /\ k < w => k + s[k].n < w
         /\ s[k].op = "stop" => w < k
         /\ s[k].op # "put_or_lost" /\ s[k].rv # "0"

OutputsDelivered(s) ==
    \A k \in DOMAIN s :
        s[k].op = "create" => \E w \in DOMAIN s : Delivers(s, s[k].what, w)

\* A word is meant for one parameter at most, and none has the name or the letter
\* of a slip.
ParamsDistinct(params) ==
    /\ \A i \in DOMAIN params :
         /\ params[i].type \in {"value", "bool", "positional"}
         /\ params[i].name \in STRING \ {NULL, "unknown", "help"}
         /\ params[i].ch \in STRING \ {"?", "1"}
    /\ \A i, j \in DOMAIN params : i # j =>
         /\ params[i].name # params[j].name
         /\ IsFlag(params[i]) \/ IsFlag(params[j])
         /\ params[i].ch # "" => params[i].ch # params[j].ch

VerbsOf(c) == {c.verbs, c.alias} \ {<<>>}

Begins(u, v) == Len(u) < Len(v) /\ \A i \in DOMAIN u : u[i] = v[i]

\* A command stands behind those whose verbs begin with its own.
VerbsOrdered ==
    LET cmds == CMDS IN
    /\ \A c \in Commands : /\ c.verbs # <<>> /\ c.verbs # c.alias
                           /\ {c.verbs, c.alias} \subseteq Seq(STRING)
    /\ \A i, j \in DOMAIN cmds : i <= j =>
         \A u \in VerbsOf(cmds[i]), v \in VerbsOf(cmds[j]) : ~Begins(u, v)

\* --version, the last of the global flags, is off unless it is typed.
VersionOff ==
    LET n == Len(GLOBAL_FLAGS) IN
    /\ n > 0
    /\ find_param_by_name(GLOBAL_FLAGS, "version") = {n}
    /\ GLOBAL_FLAGS[n].default = "false"

-----------------------------------------------------------------------------
(* Command lines                                                           *)

ValueForms == {"long", "long next", "short", "short next", "plain"}
BareForms == {"bare", "short bare", "letter"}
Slips == {"unknown", "dash", "help"}

\* Text that can be put into words.
Spelled(x) ==
    /\ x.form \in ValueForms \cup BareForms \cup Slips \cup {"no"}
    /\ x.param.name \in STRING /\ x.param.ch \in STRING /\ x.value \in STRING

\* A slip, a word too many, or a parameter in a form that its type has.  What
\* follows a Boolean flag is not its value, and a letter has one to be written by.
Writable(params, x) ==
    \/ x.form \in Slips
    \/ x.form = "plain" /\ find_positional_param(params) = {}
    \/ /\ x.param \in ToSet(params)
       /\ (x.form = "plain") = ~IsFlag(x.param)
       /\ x.form \in ValueForms => x.value # NULL
       /\ x.form \in {"long next", "short next"} => x.param.type = "value"
       /\ x.form \in {"short", "short next", "short bare"} => x.param.ch # ""

\* A flag without the value it needs.
Lacking(x) == x.form \in BareForms /\ x.param.type = "value"

\* Items with which a user means something.  A word that follows a flag without
\* its value would be taken for it.
Meaningful(params, items) ==
    \A k \in DOMAIN items :
        /\ Writable(params, items[k])
        /\ Lacking(items[k]) /\ k < Len(items) => items[k + 1].form # "plain"

\* The first word behind the verbs is not one that continues them to those of
\* another command, nor do they continue the verbs of a command themselves.
VerbsEnd(l) ==
    \A c \in Commands : \A v \in VerbsOf(c) :
        /\ Begins(v, l.verbs) => \E d \in Commands : l.verbs \in VerbsOf(d)
        /\ Begins(l.verbs, v) /\ l.items # <<>> =>
             ~(/\ l.items[1].form = "plain"
               /\ l.items[1].value = v[Len(l.verbs) + 1])

\* A global flag without its value takes the first verb, and what is left is no
\* command.
NothingLeft(l) ==
    l.globals # <<>> /\ Lacking(l.globals[Len(l.globals)]) =>
        /\ Len(l.verbs) = 1 => l.items = <<>>
        /\ Len(l.verbs) > 1 =>
             \A c \in Commands : \A v \in VerbsOf(c) : v[1] # l.verbs[2]

\* A line of which it is clear what the user means, right or wrong.
Clear(l) ==
    /\ l.verbs \in Seq(STRING)
    /\ l.globals \in Seq(ToSet(l.globals)) /\ l.items \in Seq(ToSet(l.items))
    /\ \A x \in ToSet(l.globals) \cup ToSet(l.items) : Spelled(x)
    /\ \A x \in ToSet(l.globals) : x.form # "plain"
    /\ Meaningful(GLOBAL_FLAGS, l.globals)
    /\ \A c \in Commands : l.verbs \in VerbsOf(c) => Meaningful(c.params, l.items)
    /\ l.verbs = <<>> => l.items = <<>>
    /\ VerbsEnd(l) /\ NothingLeft(l)

-----------------------------------------------------------------------------

\* Every command of the table keeps the rules; the exceptions are the handlers that
\* the properties of HtoolCmd name.
ASSUME TableAssumption ==
    /\ CMDS \in Seq(Commands)
    /\ GLOBAL_FLAGS \in Seq(ToSet(GLOBAL_FLAGS)) /\ ParamsDistinct(GLOBAL_FLAGS)
    /\ VerbsOrdered /\ VersionOff
    /\ \A c \in Commands :
        /\ c.func \in Seq(ToSet(c.func)) /\ c.params \in Seq(ToSet(c.params))
        /\ WellFormed(c.func)
        /\ ShortAnswersSized(c.func)
           \/ c.func \in {htool_statistics, htool_mauv_compiled,
                          htool_get_provisioning_log,
                          htool_key_rotation_read_chunk_type}
        /\ FailuresReported(c.func) \/ c.func \in Lenient
        /\ HostSideReturns(c.func)
        /\ ChangesLast(c)
           \/ c.func \in {htool_gen_attestation_key_v1,
                          htool_gen_attestation_key_v2}
        /\ TouchesLast(c) \/ c.func = command_spi_read
        /\ AsksRegistered(c)
        /\ OutputsDelivered(c.func) \/ c.func = htool_fetch_attestation
        /\ ParamsDistinct(c.params)

\* What is typed is clear.
ASSUME LinesAssumption == \A l \in Lines : Clear(l)
=============================================================================
