----------------------------- MODULE HtoolSteps -----------------------------
(***************************************************************************)
(* The steps a command of htool is made of, and what may become of each.   *)
(* A handler, or a function of the protocol library that it calls, is the  *)
(* sequence of the steps that it takes when nothing goes wrong; a call is  *)
(* the callee's steps in the caller's.  A step that fails ends the handler *)
(* with the return value its "rv" names:                                   *)
(*                                                                         *)
(*     "-1"      return -1                                                 *)
(*     "status"  return what the callee returned                           *)
(*     "0"       return 0: the error is dropped                            *)
(*     "on"      the result is not looked at; the next step follows        *)
(*                                                                         *)
(* A step is taken when all of its conditions hold on the parameters.      *)
(***************************************************************************)
EXTENDS Naturals, Sequences

NULL == "(null)"        \* no default value, no value typed

Step(op, what) ==
    [op |-> op, what |-> what, type |-> "", if |-> {}, test |-> {},
     rv |-> "-1", n |-> 0]

-----------------------------------------------------------------------------
(* Conditions on a parameter's value.  The global flags' names and the     *)
(* commands' are kept apart by "of"; "verb" is the last word of the verbs. *)

Is(name, values) == [of |-> "cmd", what |-> name, in |-> values, is |-> TRUE]
Isnt(name, values) == [Is(name, values) EXCEPT !.is = FALSE]
Global(condition) == [condition EXCEPT !.of = "global"]
True(name) == Is(name, {"true", "1", "TRUE"})
False(name) == Isnt(name, {"true", "1", "TRUE"})
Given(name) == Isnt(name, {NULL})               \* htool_has_param()

When(condition, steps) ==
    [i \in DOMAIN steps |-> [steps[i] EXCEPT !.if = @ \cup {condition}]]

-----------------------------------------------------------------------------
(* Steps on the host                                                       *)

\* htool_get_param_<type>(): fails when there is no value or it does not parse.
Ask(type, name) == [Step("ask", name) EXCEPT !.type = type]
AskGlobal(type, name) == [Step("ask_global", name) EXCEPT !.type = type]

\* A test of a parameter's value against what the command allows.
Require(condition) ==
    [Step("require", condition.what) EXCEPT !.test = {condition}]

\* A return -1 that no test guards any more.
Fail == Step("fail", "")

\* A test of data: of what the user typed, what a file holds, what the RoT sent.
Check(what) == Step("check", what)

\* The opening of a transport.
Open(what) == Step("open", what)

\* Files, named by the parameter that holds the path.  Creating one that
\* exists truncates it.
Read(file) == Step("read", file)
Create(file) == Step("create", file)
Write(file) == Step("write", file)

\* fwrite() and fclose(), whose result is not looked at: what did not fit on the
\* disk is lost when the buffer is flushed.
WriteBuffered(file) == [Write(file) EXCEPT !.rv = "on"]

\* An early return 0.
Stop == Step("stop", "")

-----------------------------------------------------------------------------
(* Host commands                                                           *)

\* A command that asks the RoT for something, and one that changes something
\* in it.  out_resp_size is NULL: an answer of another size is an error.
Get(command) == Step("get", command)
Put(command) == Step("put", command)

\* With out_resp_size the answer may be shorter than the structure it is copied
\* into; Sized is the caller's check of its size.
GetShort(command) == Step("get_short", command)
PutShort(command) == Step("put_short", command)
Sized == Step("sized", "response size")

\* A command whose refusal by the RoT is an answer like another.
Pass(command) == Step("pass", command)

\* A command after which the RoT may be gone: a refusal by the RoT is returned,
\* any other error leads on to the next step, which success passes over.
PutOrLost(command) == Step("put_or_lost", command)

-----------------------------------------------------------------------------
(* Control                                                                 *)

\* Steps that data the model leaves out decides on, and loops over them: once or
\* more, and any number of times.
Maybe(steps) == <<[Step("skip", "") EXCEPT !.n = Len(steps)]>> \o steps

Repeat(steps) == steps \o <<[Step("again", "") EXCEPT !.n = Len(steps)]>>
Loop(steps) == Maybe(Repeat(steps))

\* What becomes of a failure in these steps.
Returns(rv, steps) == [i \in DOMAIN steps |-> [steps[i] EXCEPT !.rv = rv]]
Status(steps) == Returns("status", steps)
Dropped(steps) == Returns("0", steps)
=============================================================================
