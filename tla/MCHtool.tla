------------------------------ MODULE MCHtool ------------------------------
(***************************************************************************)
(* The command lines on which TLC runs htool: every command of the table   *)
(* with the parameters it needs, with one of them missing, and with other  *)
(* parameters in every form of writing and with right and wrong values.    *)
(* The parsers of numbers are run on every short text, and the SECURITY_V2 *)
(* framing on short frames, once, where htool has nothing to do.           *)
(***************************************************************************)
EXTENDS HtoolRules

CONSTANTS Alphabet, MaxText, U32, U64, Second, Milli,
          ByteMax, Align, MaxParams, MaxParamSize, StorageSizes

VARIABLES text, parser, ok, value,
          phase, v2_args, request, received, fixed, serialized

Texts == UNION {[1..n -> Alphabet] : n \in 0..MaxText}

Num == INSTANCE HtoolNumbers

V2 == INSTANCE SecurityV2 WITH args <- v2_args

ASSUME WidthsAssumption == Num!WidthsAssumption /\ V2!V2Assumption

-----------------------------------------------------------------------------
(* Command lines                                                           *)

Dummy == Positional("surplus", NULL)

\* The values worth typing for a parameter: a number, a word that is none, the
\* words a handler compares it with.
Conditions(c) ==
    UNION {c.func[k].if \cup c.func[k].test : k \in DOMAIN c.func}
Literals(c, name) ==
    UNION {x.in : x \in {x \in Conditions(c) : x.of = "cmd" /\ x.what = name}}
    \ {NULL, "TRUE"}
Typed(c, p) == {"1", "bad"} \cup Literals(c, p.name)

FormsOf(p) ==
    CASE p.type = "positional" -> {"plain"}
      [] p.type = "bool" -> {"long"} \cup (IF p.ch = "" THEN {} ELSE {"short"})
      [] OTHER -> {"long", "long next"}
                  \cup (IF p.ch = "" THEN {} ELSE {"short", "short next"})

\* Items that give a value, and those that give none.
Valued(p, values) ==
    {Item(p, form, v) : form \in FormsOf(p), v \in values \ {""}}
    \cup (IF "" \in values THEN {Item(p, IF p.type = "positional" THEN "plain"
                                         ELSE "long", "")} ELSE {})
    \cup {Item(p, form, "-1") : form \in FormsOf(p) \cap {"long next", "plain"}}

Bare(p) ==
    IF p.type = "positional" THEN {}
    ELSE {Item(p, form, NULL) : form \in {"bare", "no", "letter"}
                               \cup (IF p.ch = "" THEN {} ELSE {"short bare"})}

SlipItems == {Item(Dummy, "unknown", NULL), Item(Dummy, "dash", NULL),
          Item(Dummy, "help", NULL)}

Surplus(params) == IF find_positional_param(params) = {}
                   THEN {Item(Dummy, "plain", "1")} ELSE {}

\* One value for every parameter that has no default, or an empty one.
Needed(c) == SelectSeq(c.params, LAMBDA p : p.default \in {NULL, ""})
Good(c, p) ==
    LET literals == Literals(c, p.name) \ {""}
    IN  Item(p, IF p.type = "positional" THEN "plain" ELSE "long",
             IF literals = {} THEN "1" ELSE CHOOSE w \in literals : TRUE)
Base(c) == [i \in DOMAIN Needed(c) |-> Good(c, Needed(c)[i])]

Extras(c) ==
    UNION {Valued(c.params[i], Typed(c, c.params[i]))
           \cup Bare(c.params[i]) : i \in DOMAIN c.params}
    \cup SlipItems \cup Surplus(c.params)

ItemsOf(c) ==
    LET base == Base(c)
        extras == Extras(c)
        first == {x \in extras :
                    ~(x.param.type = "value" /\ Wrong(c.params, x))}
    IN  {base} \cup {RemoveAt(base, i) : i \in DOMAIN base}
        \cup {Append(base, e) : e \in extras} \cup {<<e>> \o base : e \in first}

Line(globals, verbs, items) ==
    [globals |-> globals, verbs |-> verbs, items |-> items]

CommandLines ==
    UNION {{Line(<<>>, c.verbs, items) : items \in ItemsOf(c)}
           \cup (IF c.alias = <<>> THEN {}
                 ELSE {Line(<<>>, c.alias, <<>>)}) : c \in ToSet(CMDS)}

\* Two flags at once, of a command that has few of them.
PairLines ==
    UNION {{Line(<<>>, c.verbs, <<a, b>>) :
              a, b \in UNION {Valued(c.params[i],
                                     IF c.params[i].type = "bool" THEN {"true"}
                                     ELSE {"1"}) : i \in DOMAIN c.params}}
           : c \in {c \in ToSet(CMDS) : c.func = htool_panic_get_panic}}

\* Verbs that no command has, or not all of them.
UnknownLines ==
    {Line(<<>>, verbs, <<>>) : verbs \in {<<>>, <<"spi">>, <<"hello2">>,
                                              <<"target", "reset">>}}

\* Global flags, before the commands that open a device.
Transports == {"usb", "spidev", "mtd", "dbus", "bad"}
GlobalItems ==
    UNION {Valued(GLOBAL_FLAGS[i], {"1", "bad", ""}) \cup Bare(GLOBAL_FLAGS[i])
             : i \in DOMAIN GLOBAL_FLAGS}
    \cup {Item(Dummy, "unknown", NULL), Item(Dummy, "help", NULL)}

GlobalLines ==
    UNION {{Line(<<e>>, c.verbs, <<>>) : e \in GlobalItems}
           \cup {Line(<<Item(GLOBAL_FLAGS[1], "long", t), e>>, c.verbs, <<>>)
                   : t \in Transports,
                     e \in {g \in GlobalItems : g.form # "long next"}}
           : c \in {c \in ToSet(CMDS) :
                      c.func \in {command_hello, htool_tpm_spi_probe}}}

MCLines == CommandLines \cup PairLines \cup UnknownLines \cup GlobalLines

MCStatuses == {-1, 7, 537201}

\* The command that fetches an attestation into one file.
AttestationLines ==
    UNION {{Line(<<>>, c.verbs, <<Item(p, "long", "1")>>) :
              p \in {p \in ToSet(c.params) : p.name = "attestation_file"}}
           : c \in {c \in ToSet(CMDS) : c.func = htool_fetch_attestation}}

-----------------------------------------------------------------------------

numberVars == <<text, parser, ok, value>>
v2Vars == <<phase, v2_args, request, received, fixed, serialized>>

MCInit == Init /\ Num!Init /\ V2!Init

\* htool was started with nothing to do, and is done.
Unused == pc = "done" /\ line = Line(<<>>, <<>>, <<>>)

MCNext ==
    \/ Next /\ (parser # "none" \/ phase # "none" => pc = "done")
            /\ UNCHANGED <<numberVars, v2Vars>>
    \/ Unused /\ phase = "none" /\ Num!Next /\ UNCHANGED <<vars, v2Vars>>
    \/ Unused /\ parser = "none" /\ V2!Next /\ UNCHANGED <<vars, numberVars>>

MCSpec == MCInit /\ [][MCNext]_<<vars, numberVars, v2Vars>>

\* Numbers that fit their type, and times, are read as what they say; a 64-bit number
\* or a time that does not fit is not taken for another one.
NumbersAreExact == Num!NumbersAreExact

\* The SECURITY_V2 framing hands over the same parameters on both sides.
FramingIsExact == V2!FramingIsExact

\* parse_u64() "Rejects negative numbers, overflow, and trailing characters."
RejectsNegative == Num!RejectsNegative
=============================================================================
