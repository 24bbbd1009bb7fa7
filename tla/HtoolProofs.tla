---------------------------- MODULE HtoolProofs ----------------------------
(***************************************************************************)
(* Proofs about htool.  HtoolRules says what TLC finds by looking through  *)
(* the command table; here those rules become statements about every run   *)
(* of htool, whatever was typed, whichever steps fail and with whichever   *)
(* status.  The table is never expanded: only the rules are used.  Then    *)
(* the parsers of numbers, for texts of every length; the framing of       *)
(* SECURITY_V2, for parameters of every number and size; and the command   *)
(* line, for every line of which it is clear what it means.                *)
(***************************************************************************)
EXTENDS MCHtool, TLAPS, WellFoundedInduction, SequenceTheorems

-----------------------------------------------------------------------------
(* The step a handler goes to                                              *)

\* A set of numbers that is not empty has a least one.
LEMMA LeastOf ==
    ASSUME NEW T, T \subseteq Nat, T # {}
    PROVE  /\ Min(T) \in T
           /\ \A y \in T : Min(T) <= y
<1> DEFINE R == OpToRel(<, Nat)
<1>1. IsWellFoundedOn(R, Nat)
  BY NatLessThanWellFounded
<1>2. PICK x \in T : \A y \in T : ~(<<y, x>> \in R)
  <2> HIDE DEF R
  <2> QED
    BY <1>1, WFMin
<1>3. ASSUME NEW y \in T PROVE x <= y
  <2>1. x \in Nat /\ y \in Nat
    OBVIOUS
  <2>2. ~(y < x)
    BY <1>2, <2>1 DEF OpToRel
  <2>3. QED
    BY <2>1, <2>2
<1>4. QED
  BY <1>3 DEF Min

\* A command of the table is a handler and parameters, both sequences.
LEMMA TableSequences ==
    ASSUME NEW c \in Commands
    PROVE  /\ Len(c.func) \in Nat /\ DOMAIN c.func = 1..Len(c.func)
           /\ Len(c.params) \in Nat /\ DOMAIN c.params = 1..Len(c.params)
BY TableAssumption

\* From() goes to a step that is taken, or behind the last, and passes over none
\* that is taken.
LEMMA FromFacts ==
    ASSUME cmd \in Commands, NEW k \in 1..(Len(Script) + 1)
    PROVE  /\ From(k) \in k..(Len(Script) + 1)
           /\ From(k) <= Len(Script) => Taken(From(k))
           /\ \A j \in k..Len(Script) : Taken(j) => From(k) <= j
<1> DEFINE T == {j \in k..Len(Script) : Taken(j)} \cup {Len(Script) + 1}
<1>1. Len(Script) \in Nat
  BY TableSequences DEF Script
<1>2. T \subseteq Nat /\ T # {}
  BY <1>1
<1>3. Min(T) \in T /\ \A y \in T : Min(T) <= y
  <2> HIDE DEF T
  <2> QED
    BY <1>2, LeastOf
<1>4. From(k) = Min(T)
  BY DEF From
<1>5. QED
  BY <1>1, <1>3, <1>4

\* What a handler sees of the line does not change while it runs.
LEMMA LineStays ==
    ASSUME UNCHANGED front
    PROVE  /\ Script' = Script
           /\ \A c : Holds(c)' = Holds(c)
           /\ \A k : Taken(k)' = Taken(k)
<1>1. cmd' = cmd /\ args' = args /\ global' = global
  BY DEF front
<1>2. Script' = Script
  BY <1>1 DEF Script
<1>3. \A of, what : ValueOf(of, what)' = ValueOf(of, what)
  BY <1>1 DEF ValueOf
<1>4. \A c : Holds(c)' = Holds(c)
  BY <1>3 DEF Holds
<1>5. QED
  BY <1>2, <1>4 DEF Taken

-----------------------------------------------------------------------------
(* Where a handler is, and what one step of it may do                      *)

\* A handler runs only for a command of the table, and stands at a step that the
\* line makes it take; nothing has happened before it is called.
PlaceInv ==
    /\ pc \in {"globals", "verbs", "params", "run", "done"}
    /\ at \in Nat /\ rv \in Int
    /\ cmd \in Commands \cup {NoCommand}
    /\ pc \in {"params", "run"} \/ at > 0 => cmd \in Commands
    /\ pc \in {"globals", "verbs", "params"} => at = 0
    /\ at = 0 => failed = {} /\ sent = FALSE /\ short = "no"
    /\ pc = "run" => /\ at \in 1..(Len(Script) + 1)
                     /\ at <= Len(Script) => Taken(at)

\* The steps a step may lead to when it does not end the handler.
Targets ==
    {at + 1}
    \cup (IF step.op = "skip" THEN {at + 1 + step.n} ELSE {})
    \cup (IF step.op = "again" THEN {at - step.n} ELSE {})
    \cup (IF step.op = "put_or_lost" THEN {at + 2} ELSE {})

\* It goes on, although it may have failed; it fails and ends the handler; it
\* ends the handler early.
GoesOn ==
    /\ pc' = "run" /\ rv' = rv
    /\ \E k \in Targets : at' = From(k)
    /\ \/ failed' = failed
       \/ failed' = failed \cup {step.op} /\ step.rv = "on"
       \/ failed' = failed \cup {"answer"} /\ step.op = "put_or_lost"

FailsOut ==
    /\ pc' = "done" /\ at' = at /\ rv' \in Int
    /\ failed' = failed \cup {step.op}
    /\ step.rv # "on"
    /\ step.rv \in Reported => rv' % 256 # 0

StopsEarly ==
    /\ step.op = "stop"
    /\ pc' = "done" /\ at' = at /\ rv' = 0 /\ failed' = failed

HandlerStep ==
    \/ AskParam \/ RequireCondition \/ TestOrOpen \/ AlwaysFail \/ EarlyReturn
    \/ ReadFile \/ CreateFile \/ WriteFile
    \/ ExecGet \/ ExecPut \/ CheckSize \/ ExecPass \/ ExecPutOrLost
    \/ Choose

\* A failing step ends the handler unless its result is not looked at.
LEMMA FailOutcome ==
    ASSUME FailStep, pc = "run", step.rv \in Reported \cup {"0", "on"}
    PROVE  /\ FailsOut \/ (GoesOn /\ step.rv = "on" /\ at' = From(at + 1))
           /\ failed' = failed \cup {step.op}
<1>1. CASE step.rv = "on"
  <2>1. Goto(at + 1) /\ failed' = failed \cup {step.op}
    BY <1>1 DEF FailStep
  <2>2. QED
    BY <1>1, <2>1 DEF Goto, GoesOn, Targets
<1>2. CASE step.rv = "0"
  <2>1. Return(0) /\ at' = at /\ failed' = failed \cup {step.op}
    BY <1>2 DEF FailStep
  <2>2. QED
    BY <1>2, <2>1 DEF Return, FailsOut, Reported
<1>3. CASE step.rv = "1"
  <2>1. Return(1) /\ at' = at /\ failed' = failed \cup {step.op}
    BY <1>3 DEF FailStep
  <2>2. 1 % 256 # 0
    OBVIOUS
  <2>3. QED
    BY <1>3, <2>1, <2>2 DEF Return, FailsOut
<1>4. CASE step.rv = "-1"
  <2>1. Return(-1) /\ at' = at /\ failed' = failed \cup {step.op}
    BY <1>4 DEF FailStep
  <2>2. (-1) % 256 # 0
    OBVIOUS
  <2>3. QED
    BY <1>4, <2>1, <2>2 DEF Return, FailsOut
<1>5. CASE step.rv = "status"
  <2>1. PICK s \in Statuses : Return(s) /\ at' = at /\ failed' = failed \cup {step.op}
    BY <1>5 DEF FailStep
  <2>2. s \in Int /\ s % 256 # 0
    BY <2>1, StatusesAssumption
  <2>3. QED
    BY <1>5, <2>1, <2>2 DEF Return, FailsOut
<1>6. QED
  BY <1>1, <1>2, <1>3, <1>4, <1>5 DEF Reported

LEMMA SucceedOutcome ==
    ASSUME Succeed, pc = "run"
    PROVE  GoesOn /\ at' = From(at + 1) /\ failed' = failed
BY DEF Succeed, Goto, GoesOn, Targets

\* What a step does to the answer's size, to the files, and when it fails.
SizeEffect ==
    \/ /\ short' = short
       /\ step.op = "sized" /\ short = "last" => FailsOut \/ step.rv = "on"
    \/ /\ GoesOn /\ at' = From(at + 1) /\ step.op # "sized"
       /\ \/ short' = IF short = "no" THEN "no" ELSE "earlier"
          \/ step.op \in ShortAnswers /\ short' = "last"

FileEffect ==
    \/ files' = files /\ step.op # "write"
    \/ /\ step.op = "create" /\ GoesOn
       /\ files' = [files EXCEPT ![step.what] = "empty"]
    \/ /\ step.op = "write"
       /\ \/ GoesOn /\ files' = [files EXCEPT ![step.what] =
                                   IF @ = "damaged" THEN @ ELSE "written"]
          \/ /\ FailsOut \/ (GoesOn /\ step.rv = "on")
             /\ files' = [files EXCEPT ![step.what] = "damaged"]

FailureCause ==
    FailsOut =>
        /\ step.op = "ask" => ~Parses(step.type, ValueOf("cmd", step.what))
        /\ step.op = "ask_global" => ~Parses(step.type, ValueOf("global", step.what))
        /\ step.op = "require" => ~(\A c \in step.test : Holds(c))

\* One step of a handler, of whatever kind.
LEMMA StepOutcome ==
    ASSUME PlaceInv, HandlerStep
    PROVE  /\ pc = "run" /\ at \in DOMAIN Script /\ cmd \in Commands
           /\ UNCHANGED front
           /\ GoesOn \/ FailsOut \/ StopsEarly
           /\ sent' = sent \/ step.op \in Changes
           /\ SizeEffect /\ FileEffect /\ FailureCause
<1>1. pc = "run" /\ at <= Len(Script)
  BY DEF HandlerStep, Running, AskParam, RequireCondition, TestOrOpen,
         AlwaysFail, EarlyReturn, ReadFile, CreateFile, WriteFile, ExecGet,
         ExecPut, CheckSize, ExecPass, ExecPutOrLost, Choose
<1>2. cmd \in Commands /\ at \in 1..(Len(Script) + 1)
  BY <1>1 DEF PlaceInv
<1>3. Len(Script) \in Nat /\ DOMAIN Script = 1..Len(Script)
  BY <1>2, TableSequences DEF Script
<1>4. at \in DOMAIN Script
  BY <1>1, <1>2, <1>3
<1>5. step.rv \in Reported \cup {"0", "on"}
  BY <1>2, <1>4, TableAssumption DEF WellFormed, step, Script
<1>6. FailStep => /\ FailsOut \/ (GoesOn /\ step.rv = "on" /\ at' = From(at + 1))
                  /\ failed' = failed \cup {step.op}
  BY <1>1, <1>5, FailOutcome
<1>7. Succeed => GoesOn /\ at' = From(at + 1) /\ failed' = failed
  BY <1>1, SucceedOutcome
<1>8. ~(GoesOn /\ FailsOut)
  BY DEF GoesOn, FailsOut
<1> DEFINE Goal == /\ UNCHANGED front
                   /\ GoesOn \/ FailsOut \/ StopsEarly
                   /\ sent' = sent \/ step.op \in Changes
                   /\ SizeEffect /\ FileEffect /\ FailureCause
<1>9. ASSUME AskParam PROVE Goal
  BY <1>6, <1>7, <1>8, <1>9
     DEF AskParam, Running, SizeEffect, FileEffect, FailureCause
<1>10. ASSUME RequireCondition PROVE Goal
  BY <1>6, <1>7, <1>8, <1>10
     DEF RequireCondition, Running, SizeEffect, FileEffect, FailureCause
<1>11. ASSUME TestOrOpen PROVE Goal
  BY <1>6, <1>7, <1>8, <1>11
     DEF TestOrOpen, Running, SizeEffect, FileEffect, FailureCause
<1>12. ASSUME AlwaysFail PROVE Goal
  BY <1>6, <1>8, <1>12
     DEF AlwaysFail, Running, SizeEffect, FileEffect, FailureCause
<1>13. ASSUME EarlyReturn PROVE Goal
  BY <1>13
     DEF EarlyReturn, Return, StopsEarly, Running, SizeEffect, FileEffect,
         FailureCause
<1>14. ASSUME ReadFile PROVE Goal
  BY <1>6, <1>7, <1>8, <1>14
     DEF ReadFile, Running, SizeEffect, FileEffect, FailureCause
<1>15. ASSUME CreateFile PROVE Goal
  BY <1>6, <1>7, <1>8, <1>15
     DEF CreateFile, Running, SizeEffect, FileEffect, FailureCause
<1>16. ASSUME WriteFile PROVE Goal
  BY <1>6, <1>7, <1>8, <1>16
     DEF WriteFile, Running, SizeEffect, FileEffect, FailureCause
<1>17. ASSUME ExecGet PROVE Goal
  BY <1>6, <1>7, <1>8, <1>17
     DEF ExecGet, Answer, Running, SizeEffect, FileEffect, FailureCause,
         ShortAnswers
<1>18. ASSUME ExecPut PROVE Goal
  BY <1>6, <1>7, <1>8, <1>18
     DEF ExecPut, Answer, Running, SizeEffect, FileEffect, FailureCause,
         ShortAnswers, Changes
<1>19. ASSUME CheckSize PROVE Goal
  BY <1>6, <1>7, <1>8, <1>19
     DEF CheckSize, Running, SizeEffect, FileEffect, FailureCause
<1>20. ASSUME ExecPass PROVE Goal
  BY <1>6, <1>7, <1>8, <1>20
     DEF ExecPass, Running, SizeEffect, FileEffect, FailureCause, Changes
<1>21. ASSUME ExecPutOrLost PROVE Goal
  BY <1>1, <1>6, <1>8, <1>21
     DEF ExecPutOrLost, Goto, GoesOn, Targets, Running, SizeEffect, FileEffect,
         FailureCause, Changes
<1>22. ASSUME Choose PROVE Goal
  BY <1>1, <1>22
     DEF Choose, Goto, GoesOn, Targets, Running, SizeEffect, FileEffect,
         FailureCause, FailsOut
<1>23. QED
  BY <1>1, <1>2, <1>4, <1>9, <1>10, <1>11, <1>12, <1>13, <1>14, <1>15, <1>16,
     <1>17, <1>18, <1>19, <1>20, <1>21, <1>22 DEF HandlerStep

\* Where a step leads is inside the handler, or behind its last step.
LEMMA TargetsInside ==
    ASSUME cmd \in Commands, at \in DOMAIN Script
    PROVE  Targets \subseteq 1..(Len(Script) + 1)
<1>1. Len(Script) \in Nat /\ DOMAIN Script = 1..Len(Script)
  BY TableSequences DEF Script
<1>2. /\ step.n \in Nat
      /\ step.op = "again" => step.n < at
      /\ step.op = "skip" => at + step.n <= Len(Script)
      /\ step.op = "put_or_lost" => at + 1 <= Len(Script)
  BY TableAssumption DEF WellFormed, Script, step
<1>3. at \in Nat /\ 1 <= at /\ at <= Len(Script)
  BY <1>1
<1>4. QED
  BY <1>1, <1>2, <1>3 DEF Targets

\* The command found is one of the table, or none.
LEMMA FindsInTable ==
    ASSUME NEW argv
    PROVE  find_command(argv) \in Commands \cup {NoCommand}
<1> DEFINE matching == {i \in DOMAIN CMDS : Matches(CMDS[i], argv) > 0}
<1>1. Len(CMDS) \in Nat /\ DOMAIN CMDS = 1..Len(CMDS)
  BY TableAssumption
<1>2. CASE matching = {}
  BY <1>2 DEF find_command
<1>3. CASE matching # {}
  <2>1. matching \subseteq Nat
    BY <1>1
  <2>2. Min(matching) \in matching
    <3> HIDE DEF matching
    <3> QED
      BY <1>3, <2>1, LeastOf
  <2>3. CMDS[Min(matching)] \in Commands
    BY <2>2 DEF Commands, ToSet
  <2>4. find_command(argv) = CMDS[Min(matching)]
    BY <1>3 DEF find_command
  <2>5. QED
    BY <2>3, <2>4
<1>4. QED
  BY <1>2, <1>3

\* A handler's step keeps its place.
LEMMA StepKeepsPlace ==
    ASSUME PlaceInv, HandlerStep
    PROVE  PlaceInv'
<1>1. /\ pc = "run" /\ at \in DOMAIN Script /\ cmd \in Commands
      /\ UNCHANGED front
      /\ GoesOn \/ FailsOut \/ StopsEarly
  BY StepOutcome
<1>2. cmd' = cmd /\ Script' = Script /\ \A k : Taken(k)' = Taken(k)
  BY <1>1, LineStays DEF front
<1>3. Len(Script) \in Nat /\ DOMAIN Script = 1..Len(Script)
  BY <1>1, TableSequences DEF Script
<1>4. at \in Nat /\ at > 0
  BY <1>1, <1>3
<1>5. CASE GoesOn
  <2>1. PICK k \in Targets : at' = From(k)
    BY <1>5 DEF GoesOn
  <2>2. k \in 1..(Len(Script) + 1)
    BY <1>1, <2>1, TargetsInside
  <2>3. /\ at' \in k..(Len(Script) + 1)
        /\ at' <= Len(Script) => Taken(at')
    BY <1>1, <2>1, <2>2, FromFacts
  <2>4. at' \in 1..(Len(Script) + 1) /\ at' \in Nat /\ at' > 0
    BY <1>3, <2>2, <2>3
  <2>5. Taken(at') => Taken(at)'
    BY <1>1, <1>2 DEF Taken
  <2>6. pc' = "run" /\ rv' \in Int
    BY <1>5 DEF GoesOn, PlaceInv
  <2>7. QED
    BY <1>1, <1>2, <2>3, <2>4, <2>5, <2>6 DEF PlaceInv
<1>6. CASE FailsOut \/ StopsEarly
  BY <1>1, <1>2, <1>4, <1>6 DEF FailsOut, StopsEarly, PlaceInv
<1>7. QED
  BY <1>1, <1>5, <1>6

\* The first step of a handler that is called.
LEMMA CallKeepsPlace ==
    ASSUME PlaceInv, Call
    PROVE  /\ PlaceInv'
           /\ pc' = "run" /\ at = 0 /\ at' > 0 /\ UNCHANGED front
           /\ failed' = {} /\ sent' = FALSE /\ short' = "no" /\ cmd \in Commands
<1>1. /\ cmd \in Commands /\ at = 0 /\ at' = From(1) /\ pc' = "run"
      /\ UNCHANGED front /\ UNCHANGED <<sent, short, failed, rv>>
  BY DEF Call, PlaceInv, front
<1>2. cmd' = cmd /\ Script' = Script /\ \A k : Taken(k)' = Taken(k)
  BY <1>1, LineStays DEF front
<1>3. Len(Script) \in Nat
  BY <1>1, TableSequences DEF Script
<1>4. /\ at' \in 1..(Len(Script) + 1)
      /\ at' <= Len(Script) => Taken(at')
  <2>1. 1 \in 1..(Len(Script) + 1)
    BY <1>3
  <2>2. QED
    BY <1>1, <2>1, FromFacts
<1>5. at' \in Nat /\ at' > 0
  BY <1>3, <1>4
<1>6. Taken(at') => Taken(at)'
  BY <1>1, <1>2 DEF Taken
<1>7. failed = {} /\ sent = FALSE /\ short = "no"
  BY <1>1 DEF PlaceInv
<1>8. QED
  BY <1>1, <1>2, <1>4, <1>5, <1>6, <1>7 DEF PlaceInv

\* The handler comes to its end.
Returned ==
    /\ pc = "run" /\ at > Len(Script)
    /\ pc' = "done" /\ rv' = 0
    /\ UNCHANGED <<front, handler>>

\* A step of htool: before the handler, its call, a step of it, its end, or none.
LEMMA NextCases ==
    ASSUME PlaceInv, [Next]_vars
    PROVE  /\ PlaceInv'
           /\ at' = 0 \/ Call \/ HandlerStep \/ Returned \/ UNCHANGED vars
<1> DEFINE Goal == /\ PlaceInv'
                   /\ at' = 0 \/ Call \/ HandlerStep \/ Returned \/ UNCHANGED vars
<1>1. ASSUME ParseGlobal PROVE Goal
  <2>1. /\ pc = "globals" /\ UNCHANGED <<line, cmd, args, handler>>
        /\ \/ pc' = "globals" /\ rv' = rv
           \/ pc' = "done" /\ rv' = -1
    BY <1>1 DEF ParseGlobal, Return
  <2>2. at = 0 /\ at' = at /\ failed' = failed /\ sent' = sent /\ short' = short
    BY <2>1 DEF PlaceInv, handler
  <2>3. QED
    BY <2>1, <2>2 DEF PlaceInv
<1>2. ASSUME Version PROVE Goal
  <2>1. /\ pc = "globals" /\ UNCHANGED <<line, cmd, args, handler>>
        /\ \/ pc' = "verbs" /\ rv' = rv
           \/ pc' = "done" /\ rv' = -1
           \/ pc' = "done" /\ rv' = 0
    <3> DEFINE version == get_param(GLOBAL_FLAGS, global, "version")
    <3>1. CASE ~Parses("bool", version)
      BY <1>2, <3>1 DEF Version, Return
    <3>2. CASE Parses("bool", version) /\ version \in TrueWords
      BY <1>2, <3>2 DEF Version, Return
    <3>3. CASE Parses("bool", version) /\ version \notin TrueWords
      BY <1>2, <3>3 DEF Version, Return
    <3>4. QED
      BY <3>1, <3>2, <3>3
  <2>2. at = 0 /\ at' = at /\ failed' = failed /\ sent' = sent /\ short' = short
    BY <2>1 DEF PlaceInv, handler
  <2>3. QED
    BY <2>1, <2>2 DEF PlaceInv
<1>3. ASSUME FindCommand PROVE Goal
  <2>1. /\ pc = "verbs" /\ UNCHANGED handler
        /\ cmd' = find_command(words)
        /\ \/ pc' = "params" /\ rv' = rv /\ cmd' # NoCommand
           \/ pc' = "done" /\ rv' = -1
    BY <1>3 DEF FindCommand, Return
  <2>2. cmd' \in Commands \cup {NoCommand}
    BY <2>1, FindsInTable
  <2>3. at = 0 /\ at' = at /\ failed' = failed /\ sent' = sent /\ short' = short
    BY <2>1 DEF PlaceInv, handler
  <2>4. QED
    BY <2>1, <2>2, <2>3 DEF PlaceInv
<1>4. ASSUME ParseParam PROVE Goal
  <2>1. /\ pc = "params" /\ UNCHANGED <<line, global, cmd, handler>>
        /\ \/ pc' = "params" /\ rv' = rv
           \/ pc' = "done" /\ rv' = -1
    <3> DEFINE w == Head(words)
               fill == FillFlag(cmd.params, args, words)
               positional == find_positional_param(cmd.params)
               A == w.dash # 0 /\ fill.ok /\ w # Long("help", NULL)
               B == w.dash = 0 /\ positional # {}
    <3>1. CASE A
      BY <1>4, <3>1 DEF ParseParam
    <3>2. CASE ~A /\ B
      BY <1>4, <3>2 DEF ParseParam
    <3>3. CASE ~A /\ ~B
      BY <1>4, <3>3 DEF ParseParam, Return
    <3>4. QED
      BY <3>1, <3>2, <3>3
  <2>2. at = 0 /\ at' = at /\ failed' = failed /\ sent' = sent /\ short' = short
    BY <2>1 DEF PlaceInv, handler
  <2>3. QED
    BY <2>1, <2>2 DEF PlaceInv
<1>5. ASSUME Call PROVE Goal
  BY <1>5, CallKeepsPlace
<1>6. ASSUME HandlerStep PROVE Goal
  BY <1>6, StepKeepsPlace
<1>7. ASSUME HandlerReturns PROVE Goal
  <2>1. Returned
    BY <1>7 DEF HandlerReturns, Returned, Return
  <2>2. at' = at /\ cmd' = cmd /\ failed' = failed /\ sent' = sent /\ short' = short
    BY <2>1 DEF Returned, front, handler
  <2>3. PlaceInv'
    BY <2>1, <2>2 DEF PlaceInv, Returned
  <2>4. QED
    BY <2>1, <2>3
<1>8. ASSUME UNCHANGED vars PROVE Goal
  <2>1. /\ pc' = pc /\ at' = at /\ rv' = rv /\ cmd' = cmd /\ failed' = failed
        /\ sent' = sent /\ short' = short /\ UNCHANGED front
    BY <1>8 DEF vars, front
  <2>2. Script' = Script /\ (Taken(at) => Taken(at)')
    <3>1. Script' = Script /\ \A k : Taken(k)' = Taken(k)
      BY <2>1, LineStays
    <3>2. QED
      BY <2>1, <3>1 DEF Taken
  <2>3. QED
    BY <1>8, <2>1, <2>2 DEF PlaceInv
<1>9. QED
  BY <1>1, <1>2, <1>3, <1>4, <1>5, <1>6, <1>7, <1>8 DEF Next, Exited, HandlerStep

LEMMA PlaceInit ==
    ASSUME Init
    PROVE  PlaceInv
BY DEF Init, PlaceInv

-----------------------------------------------------------------------------
(* Short answers                                                           *)

\* A short answer is known of only at the step that finds it out.
SizeInv ==
    at > 0 /\ ShortAnswersSized(Script) =>
        /\ pc = "run" => \/ short = "no"
                         \/ /\ short = "last" /\ at <= Len(Script)
                            /\ step.op = "sized" /\ step.rv \in Reported
        /\ ExitsZero => short = "no"

LEMMA SizeStep ==
    ASSUME PlaceInv, SizeInv, [Next]_vars
    PROVE  SizeInv'
<1>1. PlaceInv' /\ (at' = 0 \/ Call \/ HandlerStep \/ Returned \/ UNCHANGED vars)
  BY NextCases
<1>2. CASE at' = 0
  BY <1>2 DEF SizeInv
<1>3. CASE Call
  BY <1>3, CallKeepsPlace DEF SizeInv, ExitsZero
<1>4. CASE HandlerStep
  <2>1. /\ pc = "run" /\ at \in DOMAIN Script /\ cmd \in Commands
        /\ UNCHANGED front
        /\ GoesOn \/ FailsOut \/ StopsEarly
        /\ SizeEffect
    BY <1>4, StepOutcome
  <2>2. Script' = Script /\ \A k : Taken(k)' = Taken(k)
    BY <2>1, LineStays
  <2>3. Len(Script) \in Nat /\ DOMAIN Script = 1..Len(Script)
    BY <2>1, TableSequences DEF Script
  <2>4. at \in Nat /\ at > 0 /\ at <= Len(Script) /\ Taken(at)
    BY <2>1, <2>3 DEF PlaceInv
  <2> SUFFICES ASSUME ShortAnswersSized(Script)
               PROVE  /\ pc' = "run" => \/ short' = "no"
                                        \/ /\ short' = "last" /\ at' <= Len(Script)
                                           /\ Script[at'].op = "sized"
                                           /\ Script[at'].rv \in Reported
                      /\ pc' = "done" /\ rv' % 256 = 0 => short' = "no"
    BY <2>2 DEF SizeInv, ExitsZero, step
  <2>5. \/ short = "no"
        \/ short = "last" /\ step.op = "sized" /\ step.rv \in Reported
    BY <2>1, <2>4 DEF SizeInv
  <2>6. CASE short = "last"
    <3>1. step.op = "sized" /\ step.rv \in Reported
      BY <2>5, <2>6
    <3>2. FailsOut
      BY <2>1, <2>6, <3>1 DEF SizeEffect, Reported
    <3>3. QED
      BY <3>1, <3>2 DEF FailsOut
  <2>7. CASE short = "no"
    <3>1. \/ short' = "no"
          \/ GoesOn /\ at' = From(at + 1) /\ step.op \in ShortAnswers /\ short' = "last"
      BY <2>1, <2>7 DEF SizeEffect
    <3>2. CASE short' = "no"
      BY <3>2
    <3>3. CASE /\ GoesOn /\ at' = From(at + 1) /\ step.op \in ShortAnswers
               /\ short' = "last"
      <4>1. /\ at < Len(Script)
            /\ Script[at + 1].op = "sized" /\ Script[at + 1].rv \in Reported
            /\ Script[at + 1].if \subseteq Script[at].if
        BY <2>1, <3>3 DEF ShortAnswersSized, step
      <4>2. Taken(at + 1)
        BY <2>4, <4>1 DEF Taken
      <4>3. From(at + 1) = at + 1
        <5>1. at + 1 \in 1..(Len(Script) + 1) /\ at + 1 \in (at + 1)..Len(Script)
          BY <2>3, <2>4, <4>1
        <5>2. /\ From(at + 1) \in (at + 1)..(Len(Script) + 1)
              /\ From(at + 1) <= at + 1
          BY <2>1, <4>2, <5>1, FromFacts
        <5>3. QED
          BY <2>3, <2>4, <5>2
      <4>4. QED
        BY <2>3, <2>4, <3>3, <4>1, <4>3 DEF GoesOn
    <3>4. QED
      BY <3>1, <3>2, <3>3
  <2>8. QED
    BY <2>5, <2>6, <2>7
<1>5. CASE Returned
  <2>1. /\ at' = at /\ short' = short /\ Script' = Script /\ pc' = "done"
        /\ pc = "run" /\ at > Len(Script)
    BY <1>5, LineStays DEF Returned, handler
  <2>2. at > 0 /\ cmd \in Commands /\ at \in Nat
    BY <2>1 DEF PlaceInv
  <2>3. Len(Script) \in Nat
    BY <2>2, TableSequences DEF Script
  <2>4. QED
    BY <2>1, <2>2, <2>3 DEF SizeInv, ExitsZero
<1>6. CASE UNCHANGED vars
  BY <1>6 DEF vars, SizeInv, ExitsZero, Script, step
<1>7. QED
  BY <1>1, <1>2, <1>3, <1>4, <1>5, <1>6

\* No command exits 0 after an answer shorter than the structure it is for, but the
\* four whose callers do not compare the size: statistics, MAUV, the provisioning
\* log's header and the read of a key record's chunk.
THEOREM WholeAnswersOnly ==
    Spec => []OnlyWholeAnswersUsed
<1>1. Init => PlaceInv /\ SizeInv
  <2> SUFFICES ASSUME Init PROVE SizeInv
    BY PlaceInit
  <2> QED
    BY DEF Init, SizeInv
<1>2. PlaceInv /\ SizeInv /\ [Next]_vars => (PlaceInv /\ SizeInv)'
  BY SizeStep, NextCases
<1>3. PlaceInv /\ SizeInv => OnlyWholeAnswersUsed
  <2> SUFFICES ASSUME PlaceInv, SizeInv, ExitsZero,
                      Script \notin {htool_statistics, htool_mauv_compiled,
                                     htool_get_provisioning_log,
                                     htool_key_rotation_read_chunk_type}
               PROVE  short = "no"
    BY DEF OnlyWholeAnswersUsed
  <2>1. at > 0 /\ cmd \in Commands
    BY DEF PlaceInv, ExitsZero
  <2>2. ShortAnswersSized(Script)
    BY <2>1, TableAssumption DEF Script
  <2>3. QED
    BY <2>1, <2>2 DEF SizeInv
<1>4. QED
  BY <1>1, <1>2, <1>3, PTL DEF Spec

-----------------------------------------------------------------------------
(* Exit status 0: nothing failed                                           *)

Excused == IF BuffersOutput THEN {"write"} ELSE {}

\* A handler that goes on, or returns 0, has met no failure but a buffered write's.
FailureInv ==
    at > 0 /\ FailuresReported(Script) /\ (pc = "run" \/ ExitsZero) =>
        failed \subseteq Excused

LEMMA FailureStep ==
    ASSUME PlaceInv, FailureInv, [Next]_vars
    PROVE  FailureInv'
<1>1. PlaceInv' /\ (at' = 0 \/ Call \/ HandlerStep \/ Returned \/ UNCHANGED vars)
  BY NextCases
<1>2. CASE at' = 0
  BY <1>2 DEF FailureInv
<1>3. CASE Call
  BY <1>3, CallKeepsPlace DEF FailureInv
<1>4. CASE HandlerStep
  <2>1. /\ pc = "run" /\ at \in DOMAIN Script /\ cmd \in Commands
        /\ UNCHANGED front
        /\ GoesOn \/ FailsOut \/ StopsEarly
    BY <1>4, StepOutcome
  <2>2. Script' = Script
    BY <2>1, LineStays
  <2>3. at \in Nat /\ at > 0
    BY <2>1, TableSequences DEF Script
  <2>4. Excused' = Excused
    BY <2>2 DEF Excused, BuffersOutput
  <2> SUFFICES ASSUME FailuresReported(Script),
                      pc' = "run" \/ (pc' = "done" /\ rv' % 256 = 0)
               PROVE  failed' \subseteq Excused
    BY <2>2, <2>4 DEF FailureInv, ExitsZero
  <2>5. failed \subseteq Excused
    BY <2>1, <2>3 DEF FailureInv
  <2>6. /\ step.op # "put_or_lost"
        /\ step.rv \in Reported \/ (step.op = "write" /\ step.rv = "on")
    BY <2>1 DEF FailuresReported, step
  <2>7. CASE GoesOn
    <3>1. CASE failed' = failed
      BY <2>5, <3>1
    <3>2. CASE failed' = failed \cup {step.op} /\ step.rv = "on"
      <4>1. step.op = "write"
        BY <2>6, <3>2 DEF Reported
      <4>2. BuffersOutput
        BY <2>1, <3>2, <4>1 DEF BuffersOutput, step
      <4>3. QED
        BY <2>5, <3>2, <4>1, <4>2 DEF Excused
    <3>3. QED
      BY <2>6, <2>7, <3>1, <3>2 DEF GoesOn
  <2>8. CASE FailsOut
    BY <2>6, <2>8 DEF FailsOut
  <2>9. CASE StopsEarly
    BY <2>5, <2>9 DEF StopsEarly
  <2>10. QED
    BY <2>1, <2>7, <2>8, <2>9
<1>5. CASE Returned
  <2>1. /\ at' = at /\ failed' = failed /\ Script' = Script /\ pc = "run"
    BY <1>5, LineStays DEF Returned, handler
  <2>2. QED
    BY <2>1 DEF FailureInv, Excused, BuffersOutput
<1>6. CASE UNCHANGED vars
  BY <1>6 DEF vars, FailureInv, ExitsZero, Script, Excused, BuffersOutput
<1>7. QED
  BY <1>1, <1>2, <1>3, <1>4, <1>5, <1>6

LEMMA FailureInit ==
    ASSUME Init
    PROVE  FailureInv
BY DEF Init, FailureInv

LEMMA FailureImplies ==
    ASSUME PlaceInv, FailureInv
    PROVE  ExitZeroMeansDone
<1> SUFFICES ASSUME ExitsZero, Script \notin Lenient
             PROVE  failed \subseteq Excused
  BY DEF ExitZeroMeansDone, Excused
<1>1. at > 0 /\ cmd \in Commands
  BY DEF PlaceInv, ExitsZero
<1>2. FailuresReported(Script)
  BY <1>1, TableAssumption DEF Script
<1>3. QED
  BY <1>1, <1>2 DEF FailureInv

-----------------------------------------------------------------------------
(* What a mistake leaves alone                                             *)

\* A test that the line passes.
Passes(j) == Script[j].op = "require" /\ \A c \in Script[j].test : Holds(c)

\* From step i on, no step of K can fail any more.
NoneAhead(i, K) == \A j \in K : i <= j /\ Taken(j) => Passes(j)

\* Two steps that exclude each other are not both taken.
LEMMA ExcludedSteps ==
    ASSUME NEW k, NEW j, Excludes(Script[k].if, Script[j].if), Taken(k)
    PROVE  ~Taken(j)
<1>1. PICK x \in Script[k].if, y \in Script[j].if :
         /\ x.of = y.of /\ x.what = y.what
         /\ x.is \in BOOLEAN /\ y.is \in BOOLEAN
         /\ \/ x.is /\ y.is /\ x.in \cap y.in = {}
            \/ x.is # y.is /\ x.in = y.in
  BY DEF Excludes
<1>2. (ValueOf(x.of, x.what) \in x.in) = x.is
  BY <1>1 DEF Taken, Holds
<1>3. ~((ValueOf(x.of, x.what) \in y.in) = y.is)
  BY <1>1, <1>2
<1>4. ~Holds(y)
  BY <1>1, <1>3 DEF Holds
<1>5. QED
  BY <1>1, <1>4 DEF Taken

\* Once none of the steps K that may fail is ahead, none ever is; and none is ahead
\* of a step of the kinds F.
LEMMA NoneAheadStep ==
    ASSUME PlaceInv, HandlerStep, GoesOn,
           NEW K, K \subseteq DOMAIN Script, NEW F, Behind(Script, F, K),
           \E k \in DOMAIN Script : Script[k].op \in F,
           NoneAhead(at, K) \/ step.op \in F
    PROVE  NoneAhead(at', K)
<1>1. at \in DOMAIN Script /\ cmd \in Commands /\ pc = "run"
  BY StepOutcome
<1>2. Len(Script) \in Nat /\ DOMAIN Script = 1..Len(Script)
  BY <1>1, TableSequences DEF Script
<1>3. at \in Nat /\ at <= Len(Script) /\ Taken(at)
  BY <1>1, <1>2 DEF PlaceInv
<1>4. PICK t \in Targets : at' = From(t)
  BY DEF GoesOn
<1>5. at' \in Nat /\ t \in Nat /\ t <= at'
  <2>1. t \in 1..(Len(Script) + 1)
    BY <1>1, <1>4, TargetsInside
  <2>2. at' \in t..(Len(Script) + 1)
    BY <1>1, <1>4, <2>1, FromFacts
  <2>3. QED
    BY <1>2, <2>1, <2>2
<1>6. step.n \in Nat
  BY <1>1, TableAssumption DEF WellFormed, Script, step
<1> SUFFICES ASSUME NEW j \in K, at' <= j, Taken(j)
             PROVE  Passes(j)
  BY DEF NoneAhead
<1>7. j \in Nat
  BY <1>2
<1>8. CASE j > at
  <2>1. CASE NoneAhead(at, K)
    BY <1>3, <1>7, <1>8, <2>1 DEF NoneAhead
  <2>2. CASE step.op \in F
    <3>1. NoneAfter(Script, at, j)
      BY <1>1, <1>3, <1>7, <1>8, <2>2 DEF Behind, step
    <3>2. ~Excludes(Script[at].if, Script[j].if)
      BY <1>3, ExcludedSteps
    <3>3. Script[j].op = "require" /\ Script[j].test \subseteq Script[at].if
      BY <3>1, <3>2 DEF NoneAfter
    <3>4. QED
      BY <1>3, <3>3 DEF Passes, Taken
  <2>3. QED
    BY <2>1, <2>2
<1>9. CASE j <= at
  <2>1. t <= at
    BY <1>3, <1>5, <1>7, <1>9
  <2>2. step.op = "again" /\ t = at - step.n
    BY <1>3, <1>4, <1>6, <2>1 DEF Targets
  <2>3. at - Script[at].n <= j
    BY <1>3, <1>5, <1>6, <1>7, <2>2 DEF step
  <2>4. FALSE
    BY <1>1, <1>9, <2>2, <2>3 DEF Behind, step
  <2>5. QED
    BY <2>4
<1>10. QED
  BY <1>3, <1>7, <1>8, <1>9

HostSteps == {k \in DOMAIN Script : Script[k].op \in HostSide}
RefusingSteps == {k \in DOMAIN Script : MayRefuse(cmd, k)}

Untouched == \A f \in DOMAIN files : files[f] = "untouched"

\* Once the RoT was told to change something, no step on the host is ahead that may
\* fail; once a file was touched, none that may refuse the line.
HarmInv ==
    /\ pc = "run" => failed \cap HostSide = {}
    /\ at > 0 /\ ChangesLast(cmd) =>
         /\ sent => \E k \in DOMAIN Script : Script[k].op \in Changes
         /\ sent /\ pc = "run" => NoneAhead(at, HostSteps)
         /\ failed \cap HostSide # {} => ~sent
    /\ at > 0 /\ TouchesLast(cmd) =>
         /\ ~Untouched =>
              \E k \in DOMAIN Script : Script[k].op \in {"create", "write"}
         /\ ~Untouched /\ pc = "run" => NoneAhead(at, RefusingSteps)
         /\ failed \cap Refusals # {} => Untouched

\* A parameter with a default value has a value.
LEMMA GivenValue ==
    ASSUME NEW params, NEW values, NEW name, AlwaysGiven(params, name)
    PROVE  get_param(params, values, name) # NULL
BY DEF AlwaysGiven, get_param

\* A step that is taken belongs to the command's own verb.
LEMMA TakenOfVerb ==
    ASSUME Taken(at)
    PROVE  OfVerb(cmd, at)
<1> SUFFICES ASSUME NEW x \in cmd.func[at].if, x.of = "cmd", x.what = "verb"
             PROVE  (Last(cmd.verbs) \in x.in) = x.is
  BY DEF OfVerb
<1>1. Holds(x)
  BY DEF Taken, Script
<1>2. ValueOf("cmd", "verb") = Last(cmd.verbs)
  BY DEF ValueOf
<1>3. QED
  BY <1>1, <1>2 DEF Holds

\* The values that the two kinds of question are about.
LEMMA AskedValue ==
    ASSUME NEW what
    PROVE  /\ ValueOf("global", what) = get_param(GLOBAL_FLAGS, global, what)
           /\ what # "verb" => ValueOf("cmd", what) = get_param(cmd.params, args, what)
BY DEF ValueOf

\* A step that refuses a line is one that may.
LEMMA RefusingFails ==
    ASSUME PlaceInv, HandlerStep, FailsOut, step.op \in Refusals
    PROVE  MayRefuse(cmd, at)
<1>1. /\ pc = "run" /\ at \in DOMAIN Script /\ cmd \in Commands /\ FailureCause
  BY StepOutcome
<1>2. Taken(at)
  <2>1. Len(Script) \in Nat /\ DOMAIN Script = 1..Len(Script)
    BY <1>1, TableSequences DEF Script
  <2>2. QED
    BY <1>1, <2>1 DEF PlaceInv
<1>3. OfVerb(cmd, at)
  BY <1>2, TakenOfVerb
<1>4. step = cmd.func[at] /\ at \in DOMAIN cmd.func
  BY <1>1 DEF step, Script
<1>5. step.op = "ask" => step.what # "verb"
  BY <1>1, <1>3, <1>4, TableAssumption DEF AsksRegistered
<1>6. ASSUME step.op = "ask", step.type = "string",
             AlwaysGiven(cmd.params, step.what)
      PROVE  FALSE
  <2>1. ValueOf("cmd", step.what) = get_param(cmd.params, args, step.what)
    BY <1>5, <1>6, AskedValue
  <2>2. ValueOf("cmd", step.what) # NULL
    BY <1>6, <2>1, GivenValue
  <2>3. Parses(step.type, ValueOf("cmd", step.what))
    BY <1>6, <2>2 DEF Parses
  <2>4. QED
    BY <1>1, <1>6, <2>3 DEF FailureCause
<1>7. ASSUME step.op = "ask_global", step.type = "string",
             AlwaysGiven(GLOBAL_FLAGS, step.what)
      PROVE  FALSE
  <2>1. ValueOf("global", step.what) = get_param(GLOBAL_FLAGS, global, step.what)
    BY AskedValue
  <2>2. ValueOf("global", step.what) # NULL
    BY <1>7, <2>1, GivenValue
  <2>3. Parses(step.type, ValueOf("global", step.what))
    BY <1>7, <2>2 DEF Parses
  <2>4. QED
    BY <1>1, <1>7, <2>3 DEF FailureCause
<1>8. QED
  BY <1>4, <1>6, <1>7 DEF MayRefuse

LEMMA HarmHandlerStep ==
    ASSUME PlaceInv, HarmInv, HandlerStep
    PROVE  HarmInv'
<1>1. /\ pc = "run" /\ at \in DOMAIN Script /\ cmd \in Commands
      /\ UNCHANGED front
      /\ GoesOn \/ FailsOut \/ StopsEarly
      /\ sent' = sent \/ step.op \in Changes
      /\ FileEffect /\ FailureCause
  BY StepOutcome
<1>2. /\ Script' = Script /\ cmd' = cmd
      /\ \A c : Holds(c)' = Holds(c)
      /\ \A k : Taken(k)' = Taken(k)
  BY <1>1, LineStays DEF front
<1>3. HostSteps' = HostSteps /\ RefusingSteps' = RefusingSteps
  BY <1>2 DEF HostSteps, RefusingSteps
<1>4. \A K : NoneAhead(at, K)' <=> NoneAhead(at', K)
  BY <1>2 DEF NoneAhead, Passes
<1>5. Len(Script) \in Nat /\ DOMAIN Script = 1..Len(Script)
  BY <1>1, TableSequences DEF Script
<1>6. at \in Nat /\ at > 0 /\ Taken(at)
  BY <1>1, <1>5 DEF PlaceInv
<1>7. failed \cap HostSide = {} /\ failed \cap Refusals = {}
  BY <1>1 DEF HarmInv, HostSide
<1>8. step.op \in HostSide => step.rv # "on"
  BY <1>1, TableAssumption DEF HostSideReturns, Script, step
<1>9. /\ pc' = "run" => GoesOn
      /\ GoesOn \/ StopsEarly => failed' \cap HostSide = {}
  <2>1. pc' = "run" => GoesOn
    BY <1>1 DEF FailsOut, StopsEarly
  <2>2. GoesOn => failed' \cap HostSide = {}
    BY <1>7, <1>8 DEF GoesOn, HostSide, Refusals
  <2>3. StopsEarly => failed' \cap HostSide = {}
    BY <1>7 DEF StopsEarly
  <2>4. QED
    BY <2>1, <2>2, <2>3
<1>10. ASSUME ChangesLast(cmd)
       PROVE  /\ sent' => \E k \in DOMAIN Script : Script[k].op \in Changes
              /\ sent' /\ pc' = "run" => NoneAhead(at', HostSteps)
              /\ failed' \cap HostSide # {} => ~sent'
  <2>1. /\ sent => \E k \in DOMAIN Script : Script[k].op \in Changes
        /\ sent => NoneAhead(at, HostSteps)
    BY <1>1, <1>6, <1>10 DEF HarmInv
  <2>2. sent' => \E k \in DOMAIN Script : Script[k].op \in Changes
    BY <1>1, <2>1 DEF step
  <2>3. ASSUME sent', pc' = "run" PROVE NoneAhead(at', HostSteps)
    <3>1. Behind(Script, Changes, HostSteps)
      BY <1>10 DEF ChangesLast, HostSteps, Script
    <3>2. HostSteps \subseteq DOMAIN Script
      BY DEF HostSteps
    <3>3. NoneAhead(at, HostSteps) \/ step.op \in Changes
      BY <1>1, <2>1, <2>3
    <3>4. GoesOn
      BY <1>9, <2>3
    <3>5. QED
      BY <2>2, <2>3, <3>1, <3>2, <3>3, <3>4, NoneAheadStep
  <2>4. ASSUME failed' \cap HostSide # {}, sent' PROVE FALSE
    <3>1. FailsOut /\ step.op \in HostSide
      BY <1>1, <1>7, <1>9, <2>4 DEF FailsOut
    <3>2. step.op \notin Changes
      BY <3>1 DEF HostSide, Refusals, Changes
    <3>3. NoneAhead(at, HostSteps)
      BY <1>1, <2>1, <2>4, <3>2
    <3>4. at \in HostSteps
      BY <1>1, <3>1 DEF HostSteps, step
    <3>5. Passes(at)
      BY <1>6, <3>3, <3>4 DEF NoneAhead
    <3>6. QED
      BY <1>1, <3>1, <3>5 DEF Passes, FailureCause, step
  <2>5. QED
    BY <2>2, <2>3, <2>4
<1>11. ASSUME TouchesLast(cmd)
       PROVE  /\ ~Untouched' =>
                   \E k \in DOMAIN Script : Script[k].op \in {"create", "write"}
              /\ ~Untouched' /\ pc' = "run" => NoneAhead(at', RefusingSteps)
              /\ failed' \cap Refusals # {} => Untouched'
  <2>1. /\ ~Untouched =>
             \E k \in DOMAIN Script : Script[k].op \in {"create", "write"}
        /\ ~Untouched => NoneAhead(at, RefusingSteps)
    BY <1>1, <1>6, <1>11 DEF HarmInv
  <2>2. Untouched' = Untouched \/ step.op \in {"create", "write"}
    BY <1>1 DEF FileEffect, Untouched
  <2>3. ~Untouched' =>
          \E k \in DOMAIN Script : Script[k].op \in {"create", "write"}
    BY <1>1, <2>1, <2>2 DEF step
  <2>4. ASSUME ~Untouched', pc' = "run" PROVE NoneAhead(at', RefusingSteps)
    <3>1. Behind(Script, {"create", "write"}, RefusingSteps)
      BY <1>11 DEF TouchesLast, RefusingSteps, Script
    <3>2. RefusingSteps \subseteq DOMAIN Script
      BY DEF RefusingSteps
    <3>3. NoneAhead(at, RefusingSteps) \/ step.op \in {"create", "write"}
      BY <2>1, <2>2, <2>4
    <3>4. GoesOn
      BY <1>9, <2>4
    <3>5. QED
      BY <2>3, <2>4, <3>1, <3>2, <3>3, <3>4, NoneAheadStep
  <2>5. ASSUME failed' \cap Refusals # {}, ~Untouched' PROVE FALSE
    <3>1. FailsOut /\ step.op \in Refusals
      BY <1>1, <1>7, <1>9, <2>5 DEF FailsOut, HostSide
    <3>2. step.op \notin {"create", "write"}
      BY <3>1 DEF Refusals
    <3>3. NoneAhead(at, RefusingSteps)
      BY <2>1, <2>2, <2>5, <3>2
    <3>4. at \in RefusingSteps
      BY <1>1, <3>1, RefusingFails DEF RefusingSteps
    <3>5. Passes(at)
      BY <1>6, <3>3, <3>4 DEF NoneAhead
    <3>6. QED
      BY <1>1, <3>1, <3>5 DEF Passes, FailureCause, step
  <2>6. QED
    BY <2>3, <2>4, <2>5
<1>12. QED
  BY <1>2, <1>3, <1>4, <1>9, <1>10, <1>11 DEF HarmInv

LEMMA HarmStep ==
    ASSUME PlaceInv, HarmInv, [Next]_vars
    PROVE  HarmInv'
<1>1. PlaceInv' /\ (at' = 0 \/ Call \/ HandlerStep \/ Returned \/ UNCHANGED vars)
  BY NextCases
<1>2. CASE at' = 0
  BY <1>1, <1>2 DEF HarmInv, PlaceInv
<1>3. CASE Call
  <2>1. failed' = {} /\ sent' = FALSE
    BY <1>3, CallKeepsPlace
  <2>2. Untouched'
    BY <1>3 DEF Call, Untouched
  <2>3. QED
    BY <2>1, <2>2 DEF HarmInv
<1>4. CASE HandlerStep
  BY <1>4, HarmHandlerStep
<1>5. CASE Returned
  <2>1. /\ at' = at /\ failed' = failed /\ sent' = sent /\ files' = files
        /\ Script' = Script /\ cmd' = cmd /\ pc' = "done"
    BY <1>5, LineStays DEF Returned, handler, front
  <2>2. QED
    BY <2>1 DEF HarmInv, Untouched
<1>6. CASE UNCHANGED vars
  <2>1. /\ at' = at /\ failed' = failed /\ sent' = sent /\ files' = files
        /\ cmd' = cmd /\ pc' = pc /\ UNCHANGED front
    BY <1>6 DEF vars, front
  <2>2. /\ Script' = Script
        /\ \A c : Holds(c)' = Holds(c)
        /\ \A k : Taken(k)' = Taken(k)
    BY <2>1, LineStays
  <2>3. HostSteps' = HostSteps /\ RefusingSteps' = RefusingSteps
    BY <2>1, <2>2 DEF HostSteps, RefusingSteps
  <2>4. \A K : NoneAhead(at, K)' <=> NoneAhead(at, K)
    BY <2>1, <2>2 DEF NoneAhead, Passes
  <2>5. Untouched' = Untouched
    BY <2>1 DEF Untouched
  <2>6. QED
    BY <2>1, <2>2, <2>3, <2>4, <2>5 DEF HarmInv
<1>7. QED
  BY <1>1, <1>2, <1>3, <1>4, <1>5, <1>6

LEMMA HarmInit ==
    ASSUME Init
    PROVE  HarmInv
BY DEF Init, HarmInv

\* A mistake of the user's is found before it does harm: a handler that fails on the
\* host's side has not changed anything in the RoT, and one that refuses the line
\* has not touched a file.
THEOREM MistakesComeFirst ==
    Spec => []MistakesFoundFirst
<1>1. Init => PlaceInv /\ HarmInv
  BY PlaceInit, HarmInit
<1>2. PlaceInv /\ HarmInv /\ [Next]_vars => (PlaceInv /\ HarmInv)'
  BY NextCases, HarmStep
<1>3. PlaceInv /\ HarmInv => MistakesFoundFirst
  <2> SUFFICES ASSUME PlaceInv, HarmInv PROVE MistakesFoundFirst
    OBVIOUS
  <2>1. failed # {} => at > 0 /\ cmd \in Commands
    BY DEF PlaceInv
  <2>2. HostSideFailureLeavesRotAlone
    <3> SUFFICES ASSUME failed \cap HostSide # {},
                        Script \notin {htool_gen_attestation_key_v1,
                                       htool_gen_attestation_key_v2}
                 PROVE  ~sent
      BY DEF HostSideFailureLeavesRotAlone, HostSide, Refusals
    <3>1. at > 0 /\ cmd \in Commands
      BY <2>1
    <3>2. ChangesLast(cmd)
      BY <3>1, TableAssumption DEF Script
    <3>3. QED
      BY <3>1, <3>2 DEF HarmInv
  <2>3. RejectedLineKeepsFiles
    <3> SUFFICES ASSUME failed \cap Refusals # {}, Script # command_spi_read
                 PROVE  Untouched
      BY DEF RejectedLineKeepsFiles, Refusals, Untouched
    <3>1. at > 0 /\ cmd \in Commands
      BY <2>1
    <3>2. TouchesLast(cmd)
      BY <3>1, TableAssumption DEF Script
    <3>3. QED
      BY <3>1, <3>2 DEF HarmInv
  <2>4. QED
    BY <2>2, <2>3 DEF MistakesFoundFirst
<1>4. QED
  BY <1>1, <1>2, <1>3, PTL DEF Spec

-----------------------------------------------------------------------------
(* Questions                                                               *)

\* A question that cannot be answered from the line is about a parameter that the
\* command has, and one that the line got wrong.
LEMMA AskFails ==
    ASSUME NEW params, NEW values, NEW x, Registered(params, x),
           params \in Seq(ToSet(params)),
           ~Parses(x.type, get_param(params, values, x.what))
    PROVE  \E i \in find_param_by_name(params, x.what) :
               values[i] # NULL \/ params[i].default = NULL
<1> DEFINE found == find_param_by_name(params, x.what)
<1>1. found # {} /\ found \subseteq Nat
  BY DEF Registered, find_param_by_name
<1>2. Min(found) \in found
  <2> HIDE DEF found
  <2> QED
    BY <1>1, LeastOf
<1>3. SUFFICES ASSUME values[Min(found)] = NULL, params[Min(found)].default # NULL
               PROVE  FALSE
  BY <1>2
<1>4. get_param(params, values, x.what) = params[Min(found)].default
  BY <1>1, <1>3 DEF get_param
<1>5. Parses(x.type, params[Min(found)].default)
  BY <1>3 DEF Registered
<1>6. QED
  BY <1>4, <1>5

LEMMA RefusedStep ==
    ASSUME PlaceInv, HarmInv, RefusedForWhatWasTyped, [Next]_vars
    PROVE  RefusedForWhatWasTyped'
<1>1. PlaceInv' /\ HarmInv'
        /\ (at' = 0 \/ Call \/ HandlerStep \/ Returned \/ UNCHANGED vars)
  BY NextCases, HarmStep
<1>2. CASE at' = 0
  BY <1>1, <1>2 DEF PlaceInv, RefusedForWhatWasTyped
<1>3. CASE Call
  BY <1>3, CallKeepsPlace DEF RefusedForWhatWasTyped
<1>4. CASE HandlerStep
  <2>1. /\ pc = "run" /\ at \in DOMAIN Script /\ cmd \in Commands
        /\ UNCHANGED front
        /\ GoesOn \/ FailsOut \/ StopsEarly
        /\ FailureCause
    BY <1>4, StepOutcome
  <2>2. /\ Script' = Script /\ cmd' = cmd /\ args' = args /\ global' = global
    BY <2>1, LineStays DEF front
  <2>3. failed \cap HostSide = {}
    BY <2>1 DEF HarmInv
  <2>4. Taken(at) /\ step = cmd.func[at] /\ at \in DOMAIN cmd.func
    <3>1. Len(Script) \in Nat /\ DOMAIN Script = 1..Len(Script)
      BY <2>1, TableSequences DEF Script
    <3>2. QED
      BY <2>1, <3>1 DEF PlaceInv, step, Script
  <2>5. /\ step.op = "ask" => step.what # "verb" /\ Registered(cmd.params, step)
        /\ step.op = "ask_global" => Registered(GLOBAL_FLAGS, step)
    <3>1. OfVerb(cmd, at)
      BY <2>4, TakenOfVerb
    <3>2. AsksRegistered(cmd)
      BY <2>1, TableAssumption
    <3>3. QED
      BY <2>4, <3>1, <3>2 DEF AsksRegistered
  <2> SUFFICES ASSUME pc' = "done", failed' \cap {"ask", "ask_global"} # {}
               PROVE  LET params == IF "ask" \in failed' THEN cmd.params ELSE GLOBAL_FLAGS
                          values == IF "ask" \in failed' THEN args ELSE global
                      IN  \E i \in find_param_by_name(params, Script[at'].what) :
                              values[i] # NULL \/ params[i].default = NULL
    BY <2>2 DEF RefusedForWhatWasTyped, Params, step
  <2>6. /\ FailsOut /\ at' = at /\ failed' = failed \cup {step.op}
        /\ step.op \in {"ask", "ask_global"}
    BY <2>1, <2>3 DEF GoesOn, FailsOut, StopsEarly, HostSide, Refusals
  <2>7. Script[at'] = step
    BY <2>6 DEF step
  <2>8. CASE step.op = "ask"
    <3>1. "ask" \in failed'
      BY <2>6, <2>8
    <3>2. ~Parses(step.type, get_param(cmd.params, args, step.what))
      BY <2>1, <2>5, <2>6, <2>8, AskedValue DEF FailureCause
    <3>3. cmd.params \in Seq(ToSet(cmd.params))
      BY <2>1, TableAssumption
    <3>4. \E i \in find_param_by_name(cmd.params, step.what) :
              args[i] # NULL \/ cmd.params[i].default = NULL
      BY <2>5, <2>8, <3>2, <3>3, AskFails
    <3>5. QED
      BY <2>7, <3>1, <3>4
  <2>9. CASE step.op = "ask_global"
    <3>1. "ask" \notin failed'
      BY <2>3, <2>6, <2>9 DEF HostSide, Refusals
    <3>2. ~Parses(step.type, get_param(GLOBAL_FLAGS, global, step.what))
      BY <2>1, <2>6, <2>9, AskedValue DEF FailureCause
    <3>3. GLOBAL_FLAGS \in Seq(ToSet(GLOBAL_FLAGS))
      BY TableAssumption
    <3>4. \E i \in find_param_by_name(GLOBAL_FLAGS, step.what) :
              global[i] # NULL \/ GLOBAL_FLAGS[i].default = NULL
      BY <2>5, <2>9, <3>2, <3>3, AskFails
    <3>5. QED
      BY <2>7, <3>1, <3>4
  <2>10. QED
    BY <2>6, <2>8, <2>9
<1>5. CASE Returned
  <2>1. pc = "run" /\ failed' = failed
    BY <1>5 DEF Returned, handler
  <2>2. QED
    BY <2>1 DEF HarmInv, HostSide, Refusals, RefusedForWhatWasTyped
<1>6. CASE UNCHANGED vars
  BY <1>6 DEF vars, RefusedForWhatWasTyped, Params, step, Script
<1>7. QED
  BY <1>1, <1>2, <1>3, <1>4, <1>5, <1>6

\* A handler asks only for parameters that its command has, and when one does not
\* parse it was typed wrongly, or left out although it has no default value.
THEOREM RefusalsAreDeserved ==
    Spec => []RefusedForWhatWasTyped
<1> DEFINE Inv == PlaceInv /\ HarmInv /\ RefusedForWhatWasTyped
<1>1. Init => Inv
  <2> SUFFICES ASSUME Init PROVE RefusedForWhatWasTyped
    BY PlaceInit, HarmInit
  <2> QED
    BY DEF Init, RefusedForWhatWasTyped
<1>2. Inv /\ [Next]_vars => Inv'
  BY NextCases, HarmStep, RefusedStep
<1>3. Inv => RefusedForWhatWasTyped
  OBVIOUS
<1>4. QED
  BY <1>1, <1>2, <1>3, PTL DEF Spec

-----------------------------------------------------------------------------
(* Output files                                                            *)

FileNames == {Script[k].what : k \in {k \in DOMAIN Script : Script[k].op \in FileSteps}}

\* Behind the step that delivers a file, the file is written, or damaged where
\* nobody looks at that.
OutputInv ==
    at > 0 =>
        /\ DOMAIN files = FileNames
        /\ pc = "run" =>
             \A f \in DOMAIN files : files[f] = "damaged" => BuffersOutput
        /\ \A w \in DOMAIN Script :
             LET f == Script[w].what IN
             Delivers(Script, f, w) /\ Taken(w) =>
                 /\ pc = "run" /\ w < at => files[f] \in {"written", "damaged"}
                 /\ ExitsZero => \/ files[f] = "written"
                                 \/ files[f] = "damaged" /\ BuffersOutput

\* The only way past a step that delivers a file is through it.
LEMMA PastDelivery ==
    ASSUME PlaceInv, HandlerStep, GoesOn,
           NEW w \in DOMAIN Script, NEW f, Delivers(Script, f, w), Taken(w),
           at <= w, w < at'
    PROVE  at = w
<1>1. at \in DOMAIN Script /\ cmd \in Commands /\ pc = "run"
  BY StepOutcome
<1>2. Len(Script) \in Nat /\ DOMAIN Script = 1..Len(Script)
  BY <1>1, TableSequences DEF Script
<1>3. PICK t \in Targets : at' = From(t)
  BY DEF GoesOn
<1>4. t \in 1..(Len(Script) + 1) /\ t \in Nat
  BY <1>1, <1>2, <1>3, TargetsInside
<1>5. w < t
  <2> SUFFICES ASSUME t <= w PROVE FALSE
    BY <1>2, <1>4
  <2>1. w \in t..Len(Script)
    BY <1>2, <1>4
  <2>2. at' \in t..(Len(Script) + 1) /\ at' <= w
    BY <1>1, <1>3, <1>4, <2>1, FromFacts
  <2>3. QED
    BY <1>2, <1>4, <2>2
<1>6. /\ step.op = "skip" /\ at < w => at + step.n < w
      /\ step.op # "put_or_lost"
  BY <1>1 DEF Delivers, step
<1>7. step.n \in Nat
  BY <1>1, TableAssumption DEF WellFormed, Script, step
<1>8. at = w => step.op = "write"
  BY DEF Delivers, step
<1>9. \/ t = at + 1
      \/ step.op = "skip" /\ t = at + 1 + step.n
      \/ step.op = "again" /\ t = at - step.n
  BY <1>3, <1>6 DEF Targets
<1>10. QED
  BY <1>1, <1>2, <1>4, <1>5, <1>6, <1>7, <1>8, <1>9

LEMMA OutputHandlerStep ==
    ASSUME PlaceInv, OutputInv, HandlerStep
    PROVE  OutputInv'
<1>1. /\ pc = "run" /\ at \in DOMAIN Script /\ cmd \in Commands
      /\ UNCHANGED front
      /\ GoesOn \/ FailsOut \/ StopsEarly
      /\ FileEffect
  BY StepOutcome
<1>2. /\ Script' = Script
      /\ \A k : Taken(k)' = Taken(k)
  BY <1>1, LineStays
<1>3. Len(Script) \in Nat /\ DOMAIN Script = 1..Len(Script)
  BY <1>1, TableSequences DEF Script
<1>4. at \in Nat /\ at > 0
  BY <1>1, <1>3
<1>5. BuffersOutput' = BuffersOutput /\ FileNames' = FileNames
  BY <1>2 DEF BuffersOutput, FileNames
<1>6. /\ DOMAIN files = FileNames
      /\ \A f \in DOMAIN files : files[f] = "damaged" => BuffersOutput
  BY <1>1, <1>4 DEF OutputInv
<1>7. DOMAIN files' = FileNames
  BY <1>1, <1>6 DEF FileEffect
<1>8. step.op \in {"create", "write"} => step.what \in DOMAIN files
  BY <1>1, <1>6 DEF FileNames, FileSteps, step
<1>9. ASSUME pc' = "run", NEW f \in DOMAIN files', files'[f] = "damaged"
      PROVE  BuffersOutput
  <2>1. ~FailsOut
    BY <1>9 DEF FailsOut
  <2>2. CASE step.op = "write" /\ step.rv = "on"
    BY <1>1, <2>2 DEF BuffersOutput, step
  <2>3. CASE ~(step.op = "write" /\ step.rv = "on")
    <3>1. files[f] = "damaged" /\ f \in DOMAIN files
      BY <1>1, <1>6, <1>7, <1>8, <1>9, <2>1, <2>3 DEF FileEffect
    <3>2. QED
      BY <1>6, <3>1
  <2>4. QED
    BY <2>2, <2>3
<1>10. ASSUME NEW w \in DOMAIN Script, NEW f, f = Script[w].what,
              Delivers(Script, f, w), Taken(w)
       PROVE  /\ pc' = "run" /\ w < at' => files'[f] \in {"written", "damaged"}
              /\ pc' = "done" /\ rv' % 256 = 0 =>
                   \/ files'[f] = "written"
                   \/ files'[f] = "damaged" /\ BuffersOutput
  <2>1. w < at => files[f] \in {"written", "damaged"}
    BY <1>1, <1>4, <1>10 DEF OutputInv
  <2>2. f \in DOMAIN files
    BY <1>6, <1>10 DEF FileNames, FileSteps, Delivers
  <2>3. w \in Nat
    BY <1>3, <1>10
  <2>4. CASE GoesOn
    <3> SUFFICES ASSUME w < at' PROVE files'[f] \in {"written", "damaged"}
      BY <2>4 DEF GoesOn
    <3>1. CASE w < at
      <4>1. ~(step.op = "create" /\ step.what = f)
        BY <1>1, <1>4, <1>10, <2>3, <3>1 DEF Delivers, step
      <4>2. QED
        BY <1>1, <1>8, <2>1, <2>2, <3>1, <4>1 DEF FileEffect
    <3>2. CASE at <= w
      <4>1. at = w
        BY <1>10, <2>4, <3>2, PastDelivery
      <4>2. step.op = "write" /\ step.what = f
        BY <1>10, <4>1 DEF Delivers, step
      <4>3. QED
        BY <1>1, <2>2, <4>2 DEF FileEffect
    <3>3. QED
      BY <1>4, <2>3, <3>1, <3>2
  <2>5. CASE FailsOut
    <3>1. step.rv \in Reported \cup {"0", "on"}
      BY <1>1, TableAssumption DEF WellFormed, step, Script
    <3>2. step.rv # "0"
      BY <1>1, <1>10 DEF Delivers, step
    <3>3. QED
      BY <2>5, <3>1, <3>2 DEF FailsOut
  <2>6. CASE StopsEarly
    <3>1. step.op = "stop" /\ pc' = "done"
      BY <2>6 DEF StopsEarly
    <3>2. w < at
      BY <1>1, <1>10, <3>1 DEF Delivers, step
    <3>3. files' = files
      BY <1>1, <3>1 DEF FileEffect
    <3>4. QED
      BY <1>6, <2>1, <2>2, <3>1, <3>2, <3>3
  <2>7. QED
    BY <1>1, <2>4, <2>5, <2>6
<1>11. QED
  <2>1. ExitsZero' => pc' = "done" /\ rv' % 256 = 0
    BY DEF ExitsZero
  <2>2. QED
    BY <1>2, <1>5, <1>7, <1>9, <1>10, <2>1 DEF OutputInv

LEMMA OutputStep ==
    ASSUME PlaceInv, OutputInv, [Next]_vars
    PROVE  OutputInv'
<1>1. PlaceInv' /\ (at' = 0 \/ Call \/ HandlerStep \/ Returned \/ UNCHANGED vars)
  BY NextCases
<1>2. CASE at' = 0
  BY <1>2 DEF OutputInv
<1>3. CASE Call
  <2>1. /\ pc' = "run" /\ cmd \in Commands /\ UNCHANGED front
        /\ at' = From(1)
        /\ files' = [f \in FileNames |-> "untouched"]
    BY <1>3, CallKeepsPlace DEF Call, FileNames, FileSteps
  <2>2. Script' = Script /\ \A k : Taken(k)' = Taken(k)
    BY <2>1, LineStays
  <2>3. Len(Script) \in Nat /\ DOMAIN Script = 1..Len(Script)
    BY <2>1, TableSequences DEF Script
  <2>4. FileNames' = FileNames
    BY <2>2 DEF FileNames
  <2>5. ASSUME NEW w \in DOMAIN Script, Taken(w) PROVE at' <= w /\ at' \in Nat
    <3>1. 1 \in 1..(Len(Script) + 1) /\ w \in 1..Len(Script)
      BY <2>3
    <3>2. QED
      BY <2>1, <2>3, <2>5, <3>1, FromFacts
  <2>6. QED
    BY <2>1, <2>2, <2>3, <2>4, <2>5 DEF OutputInv, ExitsZero
<1>4. CASE HandlerStep
  BY <1>4, OutputHandlerStep
<1>5. CASE Returned
  <2>1. /\ at' = at /\ files' = files /\ pc' = "done" /\ pc = "run"
        /\ at > Len(Script) /\ UNCHANGED front
    BY <1>5 DEF Returned, handler
  <2>2. Script' = Script /\ \A k : Taken(k)' = Taken(k)
    BY <2>1, LineStays
  <2>3. cmd \in Commands /\ at \in Nat /\ at > 0
    BY <2>1 DEF PlaceInv
  <2>4. Len(Script) \in Nat /\ DOMAIN Script = 1..Len(Script)
    BY <2>3, TableSequences DEF Script
  <2>5. FileNames' = FileNames /\ BuffersOutput' = BuffersOutput
    BY <2>2 DEF FileNames, BuffersOutput
  <2>6. /\ DOMAIN files = FileNames
        /\ \A f \in DOMAIN files : files[f] = "damaged" => BuffersOutput
    BY <2>1, <2>3 DEF OutputInv
  <2>7. ASSUME NEW w \in DOMAIN Script, Delivers(Script, Script[w].what, w), Taken(w)
        PROVE  \/ files[Script[w].what] = "written"
               \/ files[Script[w].what] = "damaged" /\ BuffersOutput
    <3>1. w < at
      BY <2>1, <2>3, <2>4, <2>7
    <3>2. files[Script[w].what] \in {"written", "damaged"}
      BY <2>1, <2>3, <2>7, <3>1 DEF OutputInv
    <3>3. Script[w].what \in DOMAIN files
      BY <2>6, <2>7 DEF FileNames, FileSteps, Delivers
    <3>4. QED
      BY <2>6, <3>2, <3>3
  <2>8. QED
    BY <2>1, <2>2, <2>5, <2>6, <2>7 DEF OutputInv
<1>6. CASE UNCHANGED vars
  <2>1. /\ at' = at /\ files' = files /\ pc' = pc /\ rv' = rv /\ UNCHANGED front
    BY <1>6 DEF vars, front
  <2>2. Script' = Script /\ \A k : Taken(k)' = Taken(k)
    BY <2>1, LineStays
  <2>3. /\ FileNames' = FileNames /\ BuffersOutput' = BuffersOutput
        /\ ExitsZero' = ExitsZero
    BY <2>1, <2>2 DEF FileNames, BuffersOutput, ExitsZero
  <2>4. QED
    BY <2>1, <2>2, <2>3 DEF OutputInv
<1>7. QED
  BY <1>1, <1>2, <1>3, <1>4, <1>5, <1>6

LEMMA OutputInit ==
    ASSUME Init
    PROVE  OutputInv
BY DEF Init, OutputInv

\* A condition that a parameter is not one of some values.
LEMMA IsntHolds ==
    ASSUME NEW name, NEW values
    PROVE  /\ Holds(Isnt(name, values)) <=> ValueOf("cmd", name) \notin values
           /\ Holds(Is(name, values)) <=> ValueOf("cmd", name) \in values
<1>1. /\ Is(name, values).of = "cmd" /\ Is(name, values).what = name
      /\ Is(name, values).in = values /\ Is(name, values).is = TRUE
  BY DEF Is
<1>2. /\ Isnt(name, values).of = "cmd" /\ Isnt(name, values).what = name
      /\ Isnt(name, values).in = values /\ Isnt(name, values).is = FALSE
  BY DEF Isnt, Is
<1>3. Holds(Is(name, values)) <=> ((ValueOf("cmd", name) \in values) = TRUE)
  BY <1>1 DEF Holds
<1>4. Holds(Isnt(name, values)) <=> ((ValueOf("cmd", name) \in values) = FALSE)
  BY <1>2 DEF Holds
<1>5. QED
  BY <1>3, <1>4

\* A step that delivers a file is taken unless the handler is excused.
LEMMA OutputImplies ==
    ASSUME PlaceInv, OutputInv
    PROVE  OutputsAreWritten
<1> SUFFICES ASSUME ExitsZero, Script # htool_fetch_attestation,
                    NEW f \in DOMAIN files, NEW k \in DOMAIN Script,
                    Script[k].op = "create", Script[k].what = f
             PROVE  \/ ValueOf("cmd", f) \in {"", NULL}
                    \/ files[f] = "written"
                    \/ files[f] = "damaged" /\ BuffersOutput
                    \/ Script = command_spi_read /\ ValueOf("cmd", "length") = "0"
                    \/ Script = htool_panic_get_panic /\ Holds(True("clear"))
  BY DEF OutputsAreWritten
<1>1. at > 0 /\ cmd \in Commands
  BY DEF PlaceInv, ExitsZero
<1>2. OutputsDelivered(Script)
  BY <1>1, TableAssumption DEF Script
<1>3. PICK w \in DOMAIN Script : Delivers(Script, f, w)
  BY <1>2 DEF OutputsDelivered
<1>4. f = Script[w].what
  BY <1>3 DEF Delivers
<1>5. CASE Taken(w)
  BY <1>1, <1>3, <1>4, <1>5 DEF OutputInv
<1>6. CASE ~Taken(w)
  <2>1. PICK x \in Script[w].if : ~Holds(x)
    BY <1>6 DEF Taken
  <2>2. x \in Excuses(Script, f)
    BY <1>3, <2>1 DEF Delivers
  <2>3. CASE x = Isnt(f, {""}) \/ x = Isnt(f, {"", NULL})
    BY <2>1, <2>3, IsntHolds
  <2>4. CASE Script = command_spi_read /\ x = Isnt("length", {"0"})
    BY <2>1, <2>4, IsntHolds
  <2>5. CASE Script = htool_panic_get_panic /\ x = False("clear")
    BY <2>1, <2>5, IsntHolds DEF True, False
  <2>6. QED
    BY <2>2, <2>3, <2>4, <2>5 DEF Excuses
<1>7. QED
  BY <1>5, <1>6

\* Exit status 0 can be relied on: no step failed that the handler is not excused
\* for, and the files it was to write are written.
THEOREM ExitZeroStaysTrue ==
    Spec => []ExitZeroIsTrue
<1> DEFINE Inv == PlaceInv /\ FailureInv /\ OutputInv
<1>1. Init => Inv
  BY PlaceInit, FailureInit, OutputInit
<1>2. Inv /\ [Next]_vars => Inv'
  BY NextCases, FailureStep, OutputStep
<1>3. Inv => ExitZeroIsTrue
  BY FailureImplies, OutputImplies DEF ExitZeroIsTrue
<1>4. QED
  BY <1>1, <1>2, <1>3, PTL DEF Spec

-----------------------------------------------------------------------------
(* Numbers                                                                 *)

\* Induction over numbers, for a set of them: one that holds 0 and with n also
\* n + 1, up to a bound, holds all of them.
LEMMA Counting ==
    ASSUME NEW T, NEW N \in Nat, 0 \in T,
           \A n \in 0..(N - 1) : n \in T => n + 1 \in T
    PROVE  \A n \in 0..N : n \in T
<1> DEFINE Out == {n \in 0..N : n \notin T}
<1> SUFFICES ASSUME Out # {} PROVE FALSE
  OBVIOUS
<1>1. Min(Out) \in Out /\ \A y \in Out : Min(Out) <= y
  <2>1. Out \subseteq Nat
    OBVIOUS
  <2> HIDE DEF Out
  <2>2. QED
    BY <2>1, LeastOf
<1>2. PICK m \in Out : \A y \in Out : m <= y
  BY <1>1
<1>3. m - 1 \in 0..(N - 1) /\ m - 1 \in T
  BY <1>2
<1>4. QED
  BY <1>2, <1>3

\* The digits of both bases, and what is none of them.
LEMMA DigitFacts ==
    ASSUME NEW base \in {10, 16}
    PROVE  /\ " " \notin Num!ToSet(Num!Digits(base))
           /\ "-" \notin Num!ToSet(Num!Digits(base))
           /\ "+" \notin Num!ToSet(Num!Digits(base))
           /\ "x" \notin Num!ToSet(Num!Digits(base))
           /\ DOMAIN Num!Digits(base) \subseteq 1..16
<1>1. CASE base = 10
  <2>1. Num!Digits(base) = Num!Decimal
    BY <1>1 DEF Num!Digits
  <2>2. DOMAIN Num!Decimal = 1..10
    BY DEF Num!Decimal
  <2>3. /\ Num!Decimal[1] = "0" /\ Num!Decimal[2] = "1" /\ Num!Decimal[3] = "2"
        /\ Num!Decimal[4] = "3" /\ Num!Decimal[5] = "4" /\ Num!Decimal[6] = "5"
        /\ Num!Decimal[7] = "6" /\ Num!Decimal[8] = "7" /\ Num!Decimal[9] = "8"
        /\ Num!Decimal[10] = "9"
    BY DEF Num!Decimal
  <2>4. ASSUME NEW i \in 1..10 PROVE Num!Decimal[i] \notin {" ", "-", "+", "x"}
    <3>1. \/ i = 1 \/ i = 2 \/ i = 3 \/ i = 4 \/ i = 5 \/ i = 6
           \/ i = 7 \/ i = 8 \/ i = 9 \/ i = 10
      OBVIOUS
    <3>2. QED
      BY <2>3, <3>1
  <2>5. 1..10 \subseteq 1..16
    OBVIOUS
  <2>6. Num!ToSet(Num!Decimal) = {Num!Decimal[i] : i \in 1..10}
    BY <2>2 DEF Num!ToSet
  <2>7. \A d \in {" ", "-", "+", "x"} : d \notin Num!ToSet(Num!Decimal)
    <3> HIDE DEF Num!ToSet
    <3> QED
      BY <2>4, <2>6
  <2>8. DOMAIN Num!Decimal \subseteq 1..16
    BY <2>2, <2>5
  <2>9. QED
    BY <2>1, <2>7, <2>8
<1>2. CASE base = 16
  <2>1. Num!Digits(base) = Num!Hex
    BY <1>2 DEF Num!Digits
  <2>2. DOMAIN Num!Hex = 1..16
    BY DEF Num!Hex
  <2>3. /\ Num!Hex[1] = "0" /\ Num!Hex[2] = "1" /\ Num!Hex[3] = "2"
        /\ Num!Hex[4] = "3" /\ Num!Hex[5] = "4" /\ Num!Hex[6] = "5"
        /\ Num!Hex[7] = "6" /\ Num!Hex[8] = "7" /\ Num!Hex[9] = "8"
        /\ Num!Hex[10] = "9" /\ Num!Hex[11] = "a" /\ Num!Hex[12] = "b"
        /\ Num!Hex[13] = "c" /\ Num!Hex[14] = "d" /\ Num!Hex[15] = "e"
        /\ Num!Hex[16] = "f"
    BY DEF Num!Hex
  <2>4. ASSUME NEW i \in 1..16 PROVE Num!Hex[i] \notin {" ", "-", "+", "x"}
    <3>1. \/ i = 1 \/ i = 2 \/ i = 3 \/ i = 4 \/ i = 5 \/ i = 6
           \/ i = 7 \/ i = 8 \/ i = 9 \/ i = 10 \/ i = 11 \/ i = 12
           \/ i = 13 \/ i = 14 \/ i = 15 \/ i = 16
      OBVIOUS
    <3>2. QED
      BY <2>3, <3>1
  <2>5. 1..16 \subseteq 1..16
    OBVIOUS
  <2>6. Num!ToSet(Num!Hex) = {Num!Hex[i] : i \in 1..16}
    BY <2>2 DEF Num!ToSet
  <2>7. \A d \in {" ", "-", "+", "x"} : d \notin Num!ToSet(Num!Hex)
    <3> HIDE DEF Num!ToSet
    <3> QED
      BY <2>4, <2>6
  <2>8. DOMAIN Num!Hex \subseteq 1..16
    BY <2>2, <2>5
  <2>9. QED
    BY <2>1, <2>7, <2>8
<1>3. QED
  BY <1>1, <1>2

LEMMA DigitNatural ==
    ASSUME NEW base \in {10, 16}, NEW d \in Num!ToSet(Num!Digits(base))
    PROVE  Num!DigitValue(d, base) \in Nat
<1>1. \E i \in DOMAIN Num!Digits(base) : Num!Digits(base)[i] = d
  BY DEF Num!ToSet
<1>2. PICK i \in DOMAIN Num!Digits(base) : Num!DigitValue(d, base) = i - 1
  BY <1>1 DEF Num!DigitValue
<1>3. i \in 1..16
  BY <1>2, DigitFacts
<1>4. QED
  BY <1>2, <1>3

\* A sequence of digits.
IsDigits(s, base) ==
    s \in Seq(STRING) /\ \A i \in 1..Len(s) : s[i] \in Num!ToSet(Num!Digits(base))

\* The numbers that the beginnings of a sequence of digits stand for.
LEMMA NumbersAre ==
    ASSUME NEW base \in {10, 16}, NEW s, IsDigits(s, base)
    PROVE  LET f == Num!Numbers(s, base)
           IN  /\ f[0] = 0
               /\ \A n \in 1..Len(s) :
                     f[n] = base * f[n - 1] + Num!DigitValue(s[n], base)
<1> DEFINE Fits(f, k) ==
             f = [n \in 0..k |-> IF n = 0 THEN 0 ELSE base * f[n - 1]
                                                     + Num!DigitValue(s[n], base)]
           T == {k \in 0..Len(s) : \E f : Fits(f, k)}
<1>0. Len(s) \in Nat
  BY DEF IsDigits
<1>1. 0 \in T
  <2>1. Fits([n \in {0} |-> 0], 0)
    OBVIOUS
  <2> HIDE DEF Fits
  <2>2. QED
    BY <1>0, <2>1
<1>2. ASSUME NEW k \in 0..(Len(s) - 1), k \in T PROVE k + 1 \in T
  <2>1. PICK f : Fits(f, k)
    BY <1>2
  <2> DEFINE g == [n \in 0..(k + 1) |->
                     IF n = k + 1 THEN base * f[k] + Num!DigitValue(s[k + 1], base)
                     ELSE f[n]]
  <2>2. \A n \in 0..k : f[n] = IF n = 0 THEN 0 ELSE base * f[n - 1]
                                                   + Num!DigitValue(s[n], base)
    BY <2>1
  <2>3. \A n \in 0..(k + 1) : g[n] = IF n = 0 THEN 0 ELSE base * g[n - 1]
                                                   + Num!DigitValue(s[n], base)
    BY <2>2
  <2>4. Fits(g, k + 1)
    BY <2>3
  <2> HIDE DEF Fits, g
  <2>5. QED
    BY <1>0, <2>4
<1>3. \E f : Fits(f, Len(s))
  <2> HIDE DEF Fits
  <2>1. Len(s) \in T
    <3> HIDE DEF T
    <3>1. \A n \in 0..Len(s) : n \in T
      BY <1>0, <1>1, <1>2, Counting
    <3>2. QED
      BY <1>0, <3>1
  <2>2. QED
    BY <2>1
<1>4. Fits(Num!Numbers(s, base), Len(s))
  BY <1>3 DEF Num!Numbers
<1> DEFINE f == Num!Numbers(s, base)
<1> HIDE DEF f
<1>5. \A n \in 0..Len(s) : f[n] = IF n = 0 THEN 0 ELSE base * f[n - 1]
                                                   + Num!DigitValue(s[n], base)
  BY <1>4 DEF f
<1>6. QED
  BY <1>0, <1>5 DEF f

\* Digits stand for a natural number.
LEMMA NumberNatural ==
    ASSUME NEW base \in {10, 16}, NEW s, IsDigits(s, base)
    PROVE  Num!Number(s, base) \in Nat
<1> DEFINE f == Num!Numbers(s, base)
           T == {n \in 0..Len(s) : f[n] \in Nat}
<1>0. Len(s) \in Nat
  BY DEF IsDigits
<1>1. 0 \in T
  BY <1>0, NumbersAre
<1>2. ASSUME NEW n \in 0..(Len(s) - 1), n \in T PROVE n + 1 \in T
  <2>1. f[n + 1] = base * f[n] + Num!DigitValue(s[n + 1], base)
    BY <1>0, NumbersAre
  <2>2. s[n + 1] \in Num!ToSet(Num!Digits(base))
    BY <1>0 DEF IsDigits
  <2>3. Num!DigitValue(s[n + 1], base) \in Nat /\ f[n] \in Nat
    BY <1>2, <2>2, DigitNatural
  <2> HIDE DEF f
  <2>4. base * f[n] \in Nat
    BY <2>3
  <2>5. QED
    BY <1>0, <2>1, <2>3, <2>4
<1>3. \A n \in 0..Len(s) : n \in T
  <2> HIDE DEF T
  <2> QED
    BY <1>0, <1>1, <1>2, Counting
<1>4. QED
  BY <1>0, <1>3 DEF Num!Number

\* The longest beginning made of some characters.
LEMMA RunFacts ==
    ASSUME NEW s \in Seq(STRING), NEW C
    PROVE  /\ Num!Run(s, C) \in 0..Len(s)
           /\ \A i \in 1..Num!Run(s, C) : s[i] \in C
           /\ Num!Run(s, C) < Len(s) => s[Num!Run(s, C) + 1] \notin C
<1> DEFINE R == {n \in 0..Len(s) : \A i \in 1..n : s[i] \in C}
           T == {Len(s) - n : n \in R}
<1>0. Len(s) \in Nat
  OBVIOUS
<1>1. 0 \in R
  BY <1>0
<1>2. T \subseteq Nat /\ T # {}
  BY <1>0, <1>1
<1>3. PICK m \in R : \A y \in R : y <= m
  <2>1. Min(T) \in T /\ \A y \in T : Min(T) <= y
    <3> HIDE DEF T
    <3> QED
      BY <1>2, LeastOf
  <2>2. PICK m \in R : Min(T) = Len(s) - m
    BY <2>1
  <2>3. \A y \in R : Len(s) - m <= Len(s) - y
    BY <2>1, <2>2
  <2>4. R \subseteq Nat
    BY <1>0
  <2> HIDE DEF R
  <2>5. ASSUME NEW y \in R PROVE y <= m
    <3>1. y \in Nat /\ m \in Nat /\ Len(s) - m <= Len(s) - y
      BY <2>2, <2>3, <2>4
    <3>2. QED
      BY <1>0, <3>1
  <2>6. QED
    BY <2>2, <2>5
<1>4. Num!Max(R) \in R /\ \A y \in R : y <= Num!Max(R)
  <2> HIDE DEF R
  <2> QED
    BY <1>3 DEF Num!Max
<1>5. Num!Run(s, C) = Num!Max(R)
  BY DEF Num!Run
<1> DEFINE r == Num!Run(s, C)
<1> HIDE DEF r
<1>6. r \in R /\ \A y \in R : y <= r
  BY <1>4, <1>5 DEF r
<1>7. r < Len(s) => s[r + 1] \notin C
  <2> SUFFICES ASSUME r < Len(s), s[r + 1] \in C PROVE FALSE
    OBVIOUS
  <2>1. r + 1 \in R
    BY <1>0, <1>6
  <2>2. QED
    BY <1>0, <1>6, <2>1
<1>8. QED
  BY <1>6, <1>7 DEF r

\* What is left of a text behind its first n characters.
LEMMA DropFacts ==
    ASSUME NEW s \in Seq(STRING), NEW n \in 0..Len(s)
    PROVE  /\ Num!Drop(s, n) \in Seq(STRING)
           /\ Len(Num!Drop(s, n)) = Len(s) - n
           /\ \A i \in 1..(Len(s) - n) : Num!Drop(s, n)[i] = s[n + i]
<1>1. Len(s) \in Nat
  OBVIOUS
<1>2. n + 1 \in 1..(Len(s) + 1) /\ Len(s) \in n..Len(s)
  BY <1>1
<1>3. QED
  BY <1>1, <1>2, SubSeqProperties DEF Num!Drop

LEMMA DropNone ==
    ASSUME NEW s \in Seq(STRING)
    PROVE  Num!Drop(s, 0) = s
<1>1. Len(s) \in Nat /\ 0 \in 0..Len(s)
  OBVIOUS
<1>2. /\ Num!Drop(s, 0) \in Seq(STRING) /\ Len(Num!Drop(s, 0)) = Len(s)
      /\ \A i \in 1..Len(s) : Num!Drop(s, 0)[i] = s[i]
  BY <1>1, DropFacts
<1>3. QED
  BY <1>1, <1>2, SeqEqual

LEMMA DropAll ==
    ASSUME NEW s \in Seq(STRING)
    PROVE  Num!Drop(s, Len(s)) = <<>>
<1>1. Len(s) \in Nat /\ Len(s) \in 0..Len(s)
  OBVIOUS
<1>2. /\ Num!Drop(s, Len(s)) \in Seq(STRING)
      /\ Len(Num!Drop(s, Len(s))) = 0
  BY <1>1, DropFacts
<1>3. QED
  BY <1>2, EmptySeq

\* strtoul() of digits and nothing else.
LEMMA ScanDigits ==
    ASSUME NEW base \in {10, 16}, NEW s, IsDigits(s, base), s # <<>>
    PROVE  LET scan == Num!Scan(s, base) IN
           /\ scan.any = TRUE /\ scan.negative = FALSE
           /\ scan.magnitude = Num!Number(s, base) /\ scan.rest = <<>>
<1>1. /\ s \in Seq(STRING) /\ Len(s) \in Nat /\ Len(s) >= 1
      /\ \A i \in 1..Len(s) : s[i] \in Num!ToSet(Num!Digits(base))
  BY EmptySeq DEF IsDigits
<1>2. /\ s[1] \notin {" ", "-", "+"}
      /\ Len(s) >= 2 => s[2] # "x"
  <2>1. /\ " " \notin Num!ToSet(Num!Digits(base))
        /\ "-" \notin Num!ToSet(Num!Digits(base))
        /\ "+" \notin Num!ToSet(Num!Digits(base))
        /\ "x" \notin Num!ToSet(Num!Digits(base))
    BY DigitFacts
  <2>2. /\ s[1] \in Num!ToSet(Num!Digits(base))
        /\ Len(s) >= 2 => s[2] \in Num!ToSet(Num!Digits(base))
    BY <1>1
  <2>3. QED
    BY <2>1, <2>2
<1>3. Num!Run(s, {" "}) = 0
  <2>1. /\ Num!Run(s, {" "}) \in 0..Len(s)
        /\ \A i \in 1..Num!Run(s, {" "}) : s[i] \in {" "}
    BY <1>1, RunFacts
  <2> DEFINE r == Num!Run(s, {" "})
  <2> HIDE DEF r
  <2>2. ~(1 \in 1..r)
    BY <1>2, <2>1 DEF r
  <2>3. r \in 0..Len(s)
    BY <2>1 DEF r
  <2>4. r = 0
    BY <1>1, <2>2, <2>3
  <2>5. QED
    BY <2>4 DEF r
<1>4. Num!Run(s, Num!ToSet(Num!Digits(base))) = Len(s)
  <2> DEFINE r == Num!Run(s, Num!ToSet(Num!Digits(base)))
  <2>1. /\ r \in 0..Len(s)
        /\ r < Len(s) => s[r + 1] \notin Num!ToSet(Num!Digits(base))
    BY <1>1, RunFacts
  <2> HIDE DEF r
  <2>2. ~(r < Len(s))
    BY <1>1, <2>1
  <2>3. r = Len(s)
    BY <1>1, <2>1, <2>2
  <2>4. QED
    BY <2>3 DEF r
<1>5. Num!Drop(s, 0) = s /\ Num!Drop(s, Len(s)) = <<>>
  BY <1>1, DropNone, DropAll
<1>6. ~Num!HexPrefix(s)
  BY <1>2 DEF Num!HexPrefix
<1>7. SubSeq(s, 1, Len(s)) = s
  BY <1>1, <1>5 DEF Num!Drop
<1>8. ~(s # <<>> /\ s[1] \in {"-", "+"})
  BY <1>2
<1>9. Len(s) > 0
  BY <1>1
<1>10. QED
  BY <1>3, <1>4, <1>5, <1>6, <1>7, <1>8, <1>9 DEF Num!Scan

LEMMA Widths ==
    /\ U32 \in Nat /\ U64 \in Nat /\ Second \in Nat /\ Milli \in Nat
    /\ 0 < U32 /\ U32 < U64 /\ 0 < Milli /\ Milli < Second /\ Second < U64 \div 2
    /\ \A t \in Texts : t \in Seq(STRING)
BY WidthsAssumption DEF Num!WidthsAssumption

\* A number that is written as one is read as one.
LEMMA WrittenIsRead ==
    ASSUME NEW s \in Seq(STRING), Num!Written(s).is
    PROVE  LET number == Num!Written(s).number IN
           /\ number \in Nat
           /\ number < U32 => /\ Num!parse_u32(s) = Num!Accept(number)
                              /\ Num!u32_or_fourcc(s) = Num!Accept(number)
           /\ number < U64 => Num!parse_u64(s) = Num!Accept(number)
           /\ Num!parse_u64(s).ok => Num!parse_u64(s).value = number
<1> DEFINE hex == Num!HexPrefix(s)
           base == IF hex THEN 16 ELSE 10
           digits == IF hex THEN Num!Drop(s, 2) ELSE s
           number == Num!Number(digits, base)
           scan == Num!Scan(digits, base)
<1>1. /\ digits # <<>>
      /\ \A i \in DOMAIN digits : digits[i] \in Num!ToSet(Num!Digits(base))
      /\ Num!Written(s).number = number
  BY DEF Num!Written
<1>2. digits \in Seq(STRING) /\ (hex => Len(s) > 2) /\ s # <<>>
  <2>1. CASE ~hex
    BY <1>1, <2>1
  <2>2. CASE hex
    <3>1. Len(s) >= 2 /\ Len(s) \in Nat /\ 2 \in 0..Len(s)
      BY <2>2 DEF Num!HexPrefix
    <3>2. digits \in Seq(STRING) /\ Len(digits) = Len(s) - 2
      BY <2>2, <3>1, DropFacts
    <3>3. Len(digits) # 0
      BY <1>1, <3>2, EmptySeq
    <3>4. QED
      BY <2>2, <3>1, <3>2, <3>3
  <2>3. QED
    BY <2>1, <2>2
<1>3. base \in {10, 16} /\ IsDigits(digits, base)
  <2>1. DOMAIN digits = 1..Len(digits)
    BY <1>2
  <2> HIDE DEF digits
  <2>2. QED
    BY <1>1, <1>2, <2>1 DEF IsDigits
<1>4. /\ scan.any = TRUE /\ scan.negative = FALSE
      /\ scan.magnitude = number /\ scan.rest = <<>>
  <2> HIDE DEF digits, base
  <2> QED
    BY <1>1, <1>3, ScanDigits
<1>5. number \in Nat
  <2> HIDE DEF digits, base
  <2> QED
    BY <1>3, NumberNatural
<1>6. s[1] # "-"
  <2>1. CASE hex
    BY <2>1 DEF Num!HexPrefix
  <2>2. CASE ~hex
    <3>1. s[1] \in Num!ToSet(Num!Digits(10))
      <4>1. 1 \in 1..Len(s)
        BY <1>2, EmptySeq
      <4>2. QED
        BY <1>3, <2>2, <4>1 DEF IsDigits
    <3>2. QED
      BY <3>1, DigitFacts
  <2>3. QED
    BY <2>1, <2>2
<1>7. number < U64 => Num!strtoull(scan) = number
  <2> SUFFICES ASSUME number < U64 PROVE Num!strtoull(scan) = number
    OBVIOUS
  <2>1. ~(scan.magnitude >= U64)
    BY <1>4, <1>5, Widths
  <2>2. QED
    BY <1>4, <2>1 DEF Num!strtoull
<1>8. /\ Num!parse_u32(s) = Num!Accept(Num!strtoull(scan) % U32)
  <2>1. CASE hex
    BY <1>2, <1>4, <2>1 DEF Num!parse_u32
  <2>2. CASE ~hex
    BY <1>2, <1>4, <2>2 DEF Num!parse_u32
  <2>3. QED
    BY <2>1, <2>2
<1>9. Num!parse_u64(s) = IF number < U64 THEN Num!Accept(Num!strtoull(scan))
                         ELSE Num!Reject
  <2>1. CASE hex
    BY <1>2, <1>4, <1>6, <2>1 DEF Num!parse_u64
  <2>2. CASE ~hex
    BY <1>2, <1>4, <1>6, <2>2 DEF Num!parse_u64
  <2>3. QED
    BY <2>1, <2>2
<1> HIDE DEF number, scan, digits, base, hex
<1>10. number < U32 => number < U64 /\ number % U32 = number
  BY <1>5, Widths
<1>11. number < U32 => Num!parse_u32(s) = Num!Accept(number)
  BY <1>7, <1>8, <1>10
<1>12. number < U32 => Num!u32_or_fourcc(s) = Num!Accept(number)
  BY <1>11 DEF Num!u32_or_fourcc, Num!Accept
<1>13. number < U64 => Num!parse_u64(s) = Num!Accept(number)
  BY <1>7, <1>9
<1>14. Num!parse_u64(s).ok => Num!parse_u64(s).value = number
  BY <1>9, <1>13 DEF Num!Accept, Num!Reject
<1>15. QED
  BY <1>1, <1>5, <1>11, <1>12, <1>13, <1>14

LEMMA DropTwice ==
    ASSUME NEW s \in Seq(STRING), NEW m \in Nat, NEW n \in Nat, m + n <= Len(s)
    PROVE  Num!Drop(Num!Drop(s, m), n) = Num!Drop(s, m + n)
<1>1. Len(s) \in Nat /\ m \in 0..Len(s) /\ m + n \in 0..Len(s)
  OBVIOUS
<1> DEFINE t == Num!Drop(s, m)
           u == Num!Drop(t, n)
           w == Num!Drop(s, m + n)
<1>2. /\ t \in Seq(STRING) /\ Len(t) = Len(s) - m
      /\ \A i \in 1..(Len(s) - m) : t[i] = s[m + i]
  BY <1>1, DropFacts
<1>3. /\ w \in Seq(STRING) /\ Len(w) = Len(s) - (m + n)
      /\ \A i \in 1..(Len(s) - (m + n)) : w[i] = s[m + n + i]
  BY <1>1, DropFacts
<1> HIDE DEF t
<1>4. n \in 0..Len(t)
  BY <1>1, <1>2
<1>5. /\ u \in Seq(STRING) /\ Len(u) = Len(t) - n
      /\ \A i \in 1..(Len(t) - n) : u[i] = t[n + i]
  BY <1>2, <1>4, DropFacts
<1> HIDE DEF u, w
<1>6. Len(u) = Len(w)
  BY <1>1, <1>2, <1>3, <1>5
<1>7. ASSUME NEW i \in 1..Len(u) PROVE u[i] = w[i]
  <2>1. i \in 1..(Len(t) - n) /\ n + i \in 1..(Len(s) - m)
        /\ i \in 1..(Len(s) - (m + n))
    BY <1>1, <1>2, <1>5
  <2>2. u[i] = t[n + i] /\ t[n + i] = s[m + (n + i)] /\ w[i] = s[m + n + i]
    BY <1>2, <1>3, <1>5, <2>1
  <2>3. m + (n + i) = m + n + i
    OBVIOUS
  <2>4. QED
    BY <2>2, <2>3
<1>8. u = w
  BY <1>3, <1>5, <1>6, <1>7, SeqEqual
<1>9. QED
  BY <1>8 DEF t, u, w

LEMMA PartOfRest ==
    ASSUME NEW s \in Seq(STRING), NEW m \in Nat, NEW n \in Nat, m + n <= Len(s)
    PROVE  LET part == SubSeq(s, m + 1, m + n) IN
           /\ SubSeq(Num!Drop(s, m), 1, n) = part
           /\ part \in Seq(STRING) /\ Len(part) = n
           /\ \A i \in 1..n : part[i] = s[m + i]
<1>1. Len(s) \in Nat /\ m \in 0..Len(s)
  OBVIOUS
<1> DEFINE t == Num!Drop(s, m)
           u == SubSeq(t, 1, n)
           w == SubSeq(s, m + 1, m + n)
<1>2. /\ t \in Seq(STRING) /\ Len(t) = Len(s) - m
      /\ \A i \in 1..(Len(s) - m) : t[i] = s[m + i]
  BY <1>1, DropFacts
<1>3. /\ w \in Seq(STRING) /\ Len(w) = n
      /\ \A i \in 1..n : w[i] = s[m + i]
  <2>1. m + 1 \in 1..(Len(s) + 1) /\ m + n \in m..Len(s)
    BY <1>1
  <2>2. QED
    BY <1>1, <2>1, SubSeqProperties
<1> HIDE DEF t
<1>4. /\ u \in Seq(STRING) /\ Len(u) = n
      /\ \A i \in 1..n : u[i] = t[i]
  <2>1. 1 \in 1..(Len(t) + 1) /\ n \in 0..Len(t)
    BY <1>1, <1>2
  <2>2. QED
    BY <1>2, <2>1, SubSeqProperties
<1> HIDE DEF u, w
<1>5. ASSUME NEW i \in 1..n PROVE u[i] = w[i]
  <2>1. i \in 1..(Len(s) - m)
    BY <1>1
  <2>2. QED
    BY <1>2, <1>3, <1>4, <2>1
<1>6. u = w
  BY <1>3, <1>4, <1>5, SeqEqual
<1>7. QED
  BY <1>3, <1>6 DEF t, u, w

\* What strtoll() finds in a text: blanks and a sign up to b, digits up to e.
LEMMA ScanParts ==
    ASSUME NEW s \in Seq(STRING), Num!Scan(s, 10).any
    PROVE  \E b \in 0..Len(s), e \in 1..Len(s) :
             /\ b < e
             /\ \A i \in 1..b : s[i] \in {" ", "+", "-"}
             /\ IsDigits(SubSeq(s, b + 1, e), 10)
             /\ Num!Scan(s, 10).magnitude = Num!Number(SubSeq(s, b + 1, e), 10)
             /\ Num!Scan(s, 10).rest = Num!Drop(s, e)
             /\ Num!Scan(s, 10).negative \in BOOLEAN
<1> DEFINE r == Num!Run(s, {" "})
           blanks == Num!Drop(s, r)
           sign == IF blanks # <<>> /\ blanks[1] \in {"-", "+"} THEN 1 ELSE 0
           body == Num!Drop(blanks, sign)
           n == Num!Run(body, Num!ToSet(Num!Digits(10)))
           scan == Num!Scan(s, 10)
           b == r + sign
           e == b + n
<1>0. Len(s) \in Nat
  OBVIOUS
<1>1. /\ r \in 0..Len(s)
      /\ \A i \in 1..r : s[i] = " "
  BY RunFacts
<1>2. /\ blanks \in Seq(STRING) /\ Len(blanks) = Len(s) - r
      /\ \A i \in 1..(Len(s) - r) : blanks[i] = s[r + i]
  BY <1>1, DropFacts
<1>3. /\ sign \in {0, 1} /\ sign <= Len(blanks) /\ sign \in 0..Len(blanks)
      /\ sign = 1 => Len(blanks) >= 1 /\ blanks[1] \in {"-", "+"}
  <2>0. blanks \in Seq(STRING)
    BY <1>2
  <2> HIDE DEF blanks
  <2>1. Len(blanks) \in Nat /\ (blanks # <<>> => Len(blanks) >= 1)
    BY <2>0, EmptySeq
  <2>2. QED
    BY <2>1
<1>4. body \in Seq(STRING) /\ Len(body) = Len(blanks) - sign
  <2> HIDE DEF blanks, sign
  <2> QED
    BY <1>2, <1>3, DropFacts
<1>5. /\ n \in 0..Len(body)
      /\ \A i \in 1..n : body[i] \in Num!ToSet(Num!Digits(10))
  <2> HIDE DEF body
  <2> QED
    BY <1>4, RunFacts
<1>6. Num!Drop(body, 0) = body
  <2> HIDE DEF body
  <2> QED
    BY <1>4, DropNone
<1>7. /\ scan.any = (n > 0)
      /\ scan.negative = (sign = 1 /\ blanks[1] = "-")
      /\ scan.magnitude = Num!Number(SubSeq(body, 1, n), 10)
      /\ scan.rest = IF n > 0 THEN Num!Drop(body, n) ELSE s
  <2>1. ~(10 = 16)
    OBVIOUS
  <2>2. QED
    BY <1>6, <2>1 DEF Num!Scan
<1> HIDE DEF scan
<1>8. n > 0
  BY <1>7 DEF scan
<1> HIDE DEF n
<1>9. /\ r \in 0..Len(s) /\ sign \in {0, 1} /\ Len(blanks) = Len(s) - r
       /\ sign <= Len(blanks) /\ Len(body) = Len(blanks) - sign /\ n \in 0..Len(body)
  <2> HIDE DEF body, blanks, sign, r
  <2> QED
    BY <1>1, <1>2, <1>3, <1>4, <1>5
<1>10. body = Num!Drop(s, b)
  <2> HIDE DEF sign, r
  <2>1. r \in Nat /\ sign \in Nat /\ r + sign <= Len(s)
    <3> HIDE DEF body, blanks
    <3> QED
      BY <1>0, <1>9
  <2>2. QED
    BY <2>1, DropTwice
<1> HIDE DEF body, blanks, sign, r
<1>11. /\ b \in 0..Len(s) /\ e \in 1..Len(s) /\ b < e /\ n \in Nat /\ b + n <= Len(s)
  BY <1>0, <1>9, <1>8
<1>12. ASSUME NEW i \in 1..b PROVE s[i] \in {" ", "+", "-"}
  <2>1. CASE i <= r
    <3>1. i \in 1..r
      BY <1>0, <1>9, <2>1
    <3>2. QED
      BY <1>1, <3>1
  <2>2. CASE ~(i <= r)
    <3>1. sign = 1 /\ i = r + 1
      BY <1>0, <1>9, <2>2
    <3>2. 1 \in 1..(Len(s) - r)
      BY <1>0, <1>9, <3>1
    <3>3. QED
      BY <1>2, <1>3, <3>1, <3>2
  <2>3. QED
    BY <2>1, <2>2
<1> HIDE DEF b
<1>13. LET part == SubSeq(s, b + 1, e) IN
       /\ SubSeq(body, 1, n) = part
       /\ part \in Seq(STRING) /\ Len(part) = n
       /\ \A i \in 1..n : part[i] = s[b + i]
  BY <1>10, <1>11, PartOfRest
<1>14. Num!Drop(body, n) = Num!Drop(s, e)
  BY <1>10, <1>11, DropTwice
<1>15. \A i \in 1..n : s[b + i] \in Num!ToSet(Num!Digits(10))
  <2>1. \A i \in 1..(Len(s) - b) : body[i] = s[b + i]
    BY <1>10, <1>11, DropFacts
  <2>2. \A i \in 1..n : i \in 1..(Len(s) - b)
    BY <1>0, <1>11
  <2>3. QED
    BY <1>5, <2>1, <2>2
<1> HIDE DEF e
<1>16. IsDigits(SubSeq(s, b + 1, e), 10)
  BY <1>13, <1>15 DEF IsDigits
<1>17. scan.negative \in BOOLEAN
  BY <1>7
<1>18. /\ scan.magnitude = Num!Number(SubSeq(s, b + 1, e), 10)
       /\ scan.rest = Num!Drop(s, e)
  BY <1>7, <1>8, <1>13, <1>14
<1>19. QED
  BY <1>11, <1>12, <1>16, <1>17, <1>18 DEF scan

LEMMA LeastOfTwo ==
    ASSUME NEW x \in Int, NEW y \in Int
    PROVE  Num!Min({x, y}) = IF x <= y THEN x ELSE y
<1> DEFINE P(m) == m \in {x, y} /\ \A z \in {x, y} : m <= z
           least == IF x <= y THEN x ELSE y
<1>1. P(least)
  OBVIOUS
<1>2. \A m : P(m) => m = least
  OBVIOUS
<1>3. Num!Min({x, y}) = CHOOSE m \in {x, y} : \A z \in {x, y} : m <= z
  BY DEF Num!Min
<1>4. Num!Min({x, y}) \in {x, y} /\ \A z \in {x, y} : Num!Min({x, y}) <= z
  BY <1>1, <1>3
<1>5. QED
  BY <1>2, <1>4

\* Checking against INT64_MAX / multiplier before multiplying.
LEMMA ProductFits ==
    ASSUME NEW most \in Nat, NEW unit \in Nat, unit > 0,
           NEW v \in Nat, v <= most \div unit
    PROVE  v * unit <= most
<1> DEFINE q == most \div unit
           rem == most % unit
<1>1. q \in Nat /\ rem \in Nat /\ most = unit * q + rem
  OBVIOUS
<1> HIDE DEF q, rem
<1>2. PICK d \in Nat : q = v + d
  <2>1. v <= q
    BY DEF q
  <2>2. q - v \in Nat /\ q = v + (q - v)
    BY <1>1, <2>1
  <2>3. QED
    BY <2>2
<1>3. unit * q = v * unit + d * unit
  BY <1>2
<1>4. d * unit \in Nat /\ v * unit \in Nat
  OBVIOUS
<1>5. QED
  BY <1>1, <1>3, <1>4

\* A time that is accepted is the product, or the longest there is.
LEMMA TimeValue ==
    ASSUME NEW scan, scan.magnitude \in Nat, scan.negative \in BOOLEAN,
           NEW unit \in Nat, unit > 0,
           Num!strtoll(scan) >= 0,
           Num!strtoll(scan) <= Num!Int64Max \div unit
    PROVE  Num!strtoll(scan) * unit
             = Num!Min({Num!Int64Max, scan.magnitude * unit})
<1> DEFINE most == Num!Int64Max
           mag == scan.magnitude
           v == Num!strtoll(scan)
<1>1. most \in Nat /\ most >= 1
  BY Widths DEF Num!Int64Max
<1>2. v = IF scan.negative THEN -Num!Min({mag, most + 1}) ELSE Num!Min({mag, most})
  BY DEF Num!strtoll
<1> HIDE DEF most, mag, v
<1>3. mag \in Nat
  BY DEF mag
<1>4. v = IF scan.negative THEN -(IF mag <= most + 1 THEN mag ELSE most + 1)
          ELSE IF mag <= most THEN mag ELSE most
  BY <1>1, <1>2, <1>3, LeastOfTwo
<1>5. v >= 0 /\ v <= most \div unit
  BY DEF v, most
<1>6. v * unit = Num!Min({most, mag * unit})
  <2>0. mag * unit \in Nat
    BY <1>3
  <2>1. CASE scan.negative
    <3>1. mag = 0 /\ v = 0
      BY <1>1, <1>3, <1>4, <1>5, <2>1
    <3>2. Num!Min({most, mag * unit}) = 0
      BY <1>1, <3>1, <2>0, LeastOfTwo
    <3>3. QED
      BY <3>1, <3>2
  <2>2. CASE ~scan.negative /\ mag <= most
    <3>1. v = mag
      BY <1>4, <2>2
    <3>2. mag * unit <= most
      BY <1>1, <1>3, <1>5, <3>1, ProductFits
    <3>3. QED
      BY <1>1, <2>0, <3>1, <3>2, LeastOfTwo
  <2>3. CASE ~scan.negative /\ ~(mag <= most)
    <3>1. v = most
      BY <1>4, <2>3
    <3>2. v * unit <= most
      BY <1>1, <1>5, <3>1, ProductFits
    <3>3. unit = 1
      <4> SUFFICES ASSUME unit >= 2 PROVE FALSE
        OBVIOUS
      <4>1. PICK d \in Nat : unit = 2 + d
        <5>1. unit - 2 \in Nat /\ unit = 2 + (unit - 2)
          OBVIOUS
        <5>2. QED
          BY <5>1
      <4>2. most * unit = 2 * most + most * d /\ most * d \in Nat
        BY <1>1, <4>1
      <4>3. QED
        BY <1>1, <3>1, <3>2, <4>2
    <3>4. mag * unit = mag /\ v * unit = most
      BY <1>1, <1>3, <3>1, <3>3
    <3>5. QED
      BY <1>1, <1>3, <2>3, <3>4, LeastOfTwo
  <2>4. QED
    BY <2>1, <2>2, <2>3
<1>7. QED
  BY <1>6 DEF v, most, mag

\* An accepted time is the number and the unit that were typed.
LEMMA TimeAccepted ==
    ASSUME NEW s \in Seq(STRING), Num!parse_time_string_us(s).ok
    PROVE  Num!IsTime(s, Num!parse_time_string_us(s).value)
<1> DEFINE scan == Num!Scan(s, 10)
           v == Num!strtoll(scan)
           r == Num!Run(scan.rest, {" "})
           unit == Num!Multiplier(Num!Drop(scan.rest, r))
<1>1. /\ scan.any /\ v >= 0 /\ unit > 0 /\ v <= Num!Int64Max \div unit
      /\ Num!parse_time_string_us(s).value = v * unit
  BY DEF Num!parse_time_string_us, Num!Accept, Num!Reject
<1>2. PICK b \in 0..Len(s), e \in 1..Len(s) :
             /\ b < e
             /\ \A i \in 1..b : s[i] \in {" ", "+", "-"}
             /\ IsDigits(SubSeq(s, b + 1, e), 10)
             /\ scan.magnitude = Num!Number(SubSeq(s, b + 1, e), 10)
             /\ scan.rest = Num!Drop(s, e)
             /\ scan.negative \in BOOLEAN
  BY <1>1, ScanParts
<1> DEFINE digits == SubSeq(s, b + 1, e)
           rest == Num!Drop(s, e)
<1>3. Len(s) \in Nat /\ e \in 0..Len(s) /\ e \in Nat
  OBVIOUS
<1>4. /\ rest \in Seq(STRING) /\ Len(rest) = Len(s) - e
      /\ \A i \in 1..(Len(s) - e) : rest[i] = s[e + i]
  BY <1>3, DropFacts
<1>5. r = Num!Run(rest, {" "}) /\ unit = Num!Multiplier(Num!Drop(rest, r))
  BY <1>2
<1> HIDE DEF scan, rest, r, unit, v
<1>6. r \in 0..Len(rest) /\ \A i \in 1..r : rest[i] = " "
  BY <1>4, <1>5, RunFacts
<1> DEFINE u == e + r
<1>7. r \in Nat /\ u \in 0..Len(s) /\ e <= u
  <2>1. Len(rest) = Len(s) - e /\ r \in 0..Len(rest)
    BY <1>4, <1>6
  <2>2. QED
    BY <1>3, <2>1
<1>8. unit = Num!Multiplier(Num!Drop(s, u))
  <2>1. e + r <= Len(s)
    BY <1>3, <1>7
  <2>2. Num!Drop(rest, r) = Num!Drop(s, u)
    BY <1>3, <1>7, <2>1, DropTwice DEF rest
  <2>3. QED
    BY <1>5, <2>2
<1>9. ASSUME NEW i \in (e + 1)..u PROVE s[i] = " "
  <2>1. /\ i - e \in 1..r /\ i - e \in 1..(Len(s) - e) /\ e + (i - e) = i
    BY <1>3, <1>7
  <2>2. QED
    BY <1>4, <1>6, <2>1
<1>10. unit \in Nat
  BY <1>8, Widths DEF Num!Multiplier
<1>11. scan.magnitude \in Nat
  BY <1>2, NumberNatural
<1>12. v * unit = Num!Min({Num!Int64Max, scan.magnitude * unit})
  BY <1>1, <1>2, <1>10, <1>11, TimeValue DEF v
<1>13. \A i \in DOMAIN digits : digits[i] \in Num!ToSet(Num!Decimal)
  <2>1. digits \in Seq(STRING)
        /\ \A i \in 1..Len(digits) : digits[i] \in Num!ToSet(Num!Digits(10))
    BY <1>2 DEF IsDigits
  <2>2. Num!Digits(10) = Num!Decimal
    BY DEF Num!Digits
  <2>3. DOMAIN digits = 1..Len(digits)
    BY <2>1
  <2> HIDE DEF digits
  <2>4. QED
    BY <2>1, <2>2, <2>3
<1>14. Num!parse_time_string_us(s).value
         = Num!Min({Num!Int64Max, Num!Number(digits, 10) * Num!Multiplier(Num!Drop(s, u))})
  BY <1>1, <1>2, <1>8, <1>12
<1>15. Num!Multiplier(Num!Drop(s, u)) > 0
  BY <1>1, <1>8
<1> HIDE DEF u
<1>16. QED
  BY <1>2, <1>7, <1>9, <1>13, <1>14, <1>15 DEF Num!IsTime

\* Whatever the text, its length and the widths of the types: every number that
\* fits is accepted as itself by parse_u32() and parse_u64(), parse_u64() accepts no
\* other, and parse_time_string_us() answers with the product or with the longest
\* time.  What parse_u32() makes of a number that does not fit is not said.
THEOREM NumbersStayExact == MCSpec => []NumbersAreExact
<1>1. MCInit => NumbersAreExact
  BY DEF MCInit, Num!Init, NumbersAreExact, Num!NumbersAreExact,
         Num!NumbersAreRead, Num!U64NeverWraps, Num!TimeIsExact
<1>2. ASSUME NumbersAreExact, [MCNext]_<<vars, numberVars, v2Vars>>
      PROVE  NumbersAreExact'
  <2>1. CASE UNCHANGED numberVars
    BY <1>2, <2>1 DEF numberVars, NumbersAreExact, Num!NumbersAreExact,
         Num!NumbersAreRead, Num!U64NeverWraps, Num!TimeIsExact
  <2>2. CASE Num!Next
    <3>1. CASE Num!Parse("u32", Num!parse_u32)
      <4>1. PICK t \in Texts : /\ text' = t /\ parser' = "u32"
                               /\ ok' = Num!parse_u32(t).ok
                               /\ value' = Num!parse_u32(t).value
        BY <3>1 DEF Num!Parse
      <4>2. t \in Seq(STRING)
        BY Widths
      <4>3. Num!NumbersAreRead'
        BY <4>1, <4>2, WrittenIsRead DEF Num!NumbersAreRead, Num!Accept
      <4>4. Num!U64NeverWraps' /\ Num!TimeIsExact'
        BY <4>1 DEF Num!U64NeverWraps, Num!TimeIsExact
      <4>5. QED
        BY <4>3, <4>4 DEF NumbersAreExact, Num!NumbersAreExact
    <3>2. CASE Num!Parse("fourcc", Num!u32_or_fourcc)
      <4>1. PICK t \in Texts : /\ text' = t /\ parser' = "fourcc"
                               /\ ok' = Num!u32_or_fourcc(t).ok
                               /\ value' = Num!u32_or_fourcc(t).value
        BY <3>2 DEF Num!Parse
      <4>2. t \in Seq(STRING)
        BY Widths
      <4>3. Num!NumbersAreRead'
        BY <4>1, <4>2, WrittenIsRead DEF Num!NumbersAreRead, Num!Accept
      <4>4. Num!U64NeverWraps' /\ Num!TimeIsExact'
        BY <4>1 DEF Num!U64NeverWraps, Num!TimeIsExact
      <4>5. QED
        BY <4>3, <4>4 DEF NumbersAreExact, Num!NumbersAreExact
    <3>3. CASE Num!Parse("u64", Num!parse_u64)
      <4>1. PICK t \in Texts : /\ text' = t /\ parser' = "u64"
                               /\ ok' = Num!parse_u64(t).ok
                               /\ value' = Num!parse_u64(t).value
        BY <3>3 DEF Num!Parse
      <4>2. t \in Seq(STRING)
        BY Widths
      <4>3. Num!NumbersAreRead' /\ Num!U64NeverWraps'
        BY <4>1, <4>2, WrittenIsRead
           DEF Num!NumbersAreRead, Num!U64NeverWraps, Num!Accept
      <4>4. Num!TimeIsExact'
        BY <4>1 DEF Num!TimeIsExact
      <4>5. QED
        BY <4>3, <4>4 DEF NumbersAreExact, Num!NumbersAreExact
    <3>4. CASE Num!Parse("time", Num!parse_time_string_us)
      <4>1. PICK t \in Texts : /\ text' = t /\ parser' = "time"
                               /\ ok' = Num!parse_time_string_us(t).ok
                               /\ value' = Num!parse_time_string_us(t).value
        BY <3>4 DEF Num!Parse
      <4>2. t \in Seq(STRING)
        BY Widths
      <4>3. Num!NumbersAreRead' /\ Num!U64NeverWraps'
        BY <4>1 DEF Num!NumbersAreRead, Num!U64NeverWraps
      <4>4. Num!TimeIsExact'
        BY <4>1, <4>2, TimeAccepted DEF Num!TimeIsExact
      <4>5. QED
        BY <4>3, <4>4 DEF NumbersAreExact, Num!NumbersAreExact
    <3>5. QED
      BY <2>2, <3>1, <3>2, <3>3, <3>4 DEF Num!Next
  <2>3. QED
    BY <1>2, <2>1, <2>2 DEF MCNext, numberVars
<1>3. QED
  BY <1>1, <1>2, PTL DEF MCSpec

-----------------------------------------------------------------------------
(* The SECURITY_V2 framing                                                 *)

-----------------------------------------------------------------------------
(* The SECURITY_V2 framing                                                 *)

LEMMA V2Constants ==
    /\ Align = 2
    /\ ByteMax \in Nat /\ MaxParams \in Nat /\ MaxParamSize \in Nat
    /\ StorageSizes \subseteq Nat
BY WidthsAssumption DEF V2!V2Assumption

Bytes == Seq(Nat)

LEMMA PaddingNatural ==
    ASSUME NEW n \in Nat
    PROVE  V2!padding_size(n) \in Nat
<1>1. n % 2 \in 0..1
  OBVIOUS
<1>2. QED
  BY <1>1, V2Constants DEF V2!padding_size

LEMMA ZeroBytes ==
    ASSUME NEW n \in Nat
    PROVE  /\ V2!Zeros(n) \in Bytes /\ Len(V2!Zeros(n)) = n
           /\ \A k \in 1..n : V2!Zeros(n)[k] = 0
BY DEF V2!Zeros, Bytes

\* The bytes e lie behind the first c of the bytes s.
Lies(s, c, e) ==
    /\ c + Len(e) <= Len(s)
    /\ \A k \in 1..Len(e) : s[c + k] = e[k]

LEMMA LiesBoth ==
    ASSUME NEW s \in Bytes, NEW c \in Nat, NEW e \in Bytes, NEW f \in Bytes
    PROVE  /\ e \o f \in Bytes /\ Len(e \o f) = Len(e) + Len(f)
           /\ Lies(s, c, e \o f) <=> Lies(s, c, e) /\ Lies(s, c + Len(e), f)
<1>1. Len(s) \in Nat /\ Len(e) \in Nat /\ Len(f) \in Nat
  BY DEF Bytes
<1>2. /\ e \o f \in Bytes /\ Len(e \o f) = Len(e) + Len(f)
      /\ \A i \in 1 .. Len(e) + Len(f) :
            (e \o f)[i] = IF i <= Len(e) THEN e[i] ELSE f[i - Len(e)]
  BY ConcatProperties DEF Bytes
<1> DEFINE g == e \o f
<1> HIDE DEF g
<1>3. ASSUME Lies(s, c, g) PROVE Lies(s, c, e) /\ Lies(s, c + Len(e), f)
  <2>1. /\ c + (Len(e) + Len(f)) <= Len(s)
        /\ \A k \in 1..(Len(e) + Len(f)) : s[c + k] = g[k]
    BY <1>2, <1>3 DEF Lies, g
  <2>2. ASSUME NEW k \in 1..Len(e) PROVE s[c + k] = e[k]
    <3>1. k \in 1..(Len(e) + Len(f)) /\ k <= Len(e)
      BY <1>1
    <3>2. QED
      BY <1>2, <2>1, <3>1 DEF g
  <2>3. ASSUME NEW k \in 1..Len(f) PROVE s[c + Len(e) + k] = f[k]
    <3>1. /\ Len(e) + k \in 1..(Len(e) + Len(f)) /\ ~(Len(e) + k <= Len(e))
          /\ (Len(e) + k) - Len(e) = k /\ c + (Len(e) + k) = c + Len(e) + k
      BY <1>1
    <3>2. g[Len(e) + k] = f[k]
      BY <1>2, <3>1 DEF g
    <3>3. QED
      BY <2>1, <3>1, <3>2
  <2>4. c + Len(e) <= Len(s) /\ (c + Len(e)) + Len(f) <= Len(s)
    BY <1>1, <2>1
  <2>5. QED
    BY <2>2, <2>3, <2>4 DEF Lies
<1>4. ASSUME Lies(s, c, e), Lies(s, c + Len(e), f) PROVE Lies(s, c, g)
  <2>1. ASSUME NEW k \in 1..(Len(e) + Len(f)) PROVE s[c + k] = g[k]
    <3>1. CASE k <= Len(e)
      <4>1. k \in 1..Len(e)
        BY <1>1, <3>1
      <4>2. QED
        BY <1>2, <1>4, <3>1, <4>1 DEF Lies, g
    <3>2. CASE ~(k <= Len(e))
      <4>1. k - Len(e) \in 1..Len(f) /\ (c + Len(e)) + (k - Len(e)) = c + k
        BY <1>1, <3>2
      <4>2. s[(c + Len(e)) + (k - Len(e))] = f[k - Len(e)]
        BY <1>4, <4>1 DEF Lies
      <4>3. QED
        BY <1>2, <3>2, <4>1, <4>2 DEF g
    <3>3. QED
      BY <3>1, <3>2
  <2>2. Len(g) = Len(e) + Len(f)
    BY <1>2 DEF g
  <2>3. (c + Len(e)) + Len(f) <= Len(s)
    BY <1>4 DEF Lies
  <2>4. c + Len(g) <= Len(s)
    BY <1>1, <2>2, <2>3
  <2>5. QED
    BY <2>1, <2>2, <2>4 DEF Lies
<1>5. QED
  BY <1>2, <1>3, <1>4 DEF g

\* The bytes of a region lie where it is, and are the only ones of that length.
LEMMA RegionLies ==
    ASSUME NEW s \in Bytes, NEW c \in Nat, NEW n \in Nat, c + n <= Len(s)
    PROVE  LET region == SubSeq(s, c + 1, c + n) IN
           /\ region \in Bytes /\ Len(region) = n /\ Lies(s, c, region)
           /\ \A k \in 1..n : region[k] = s[c + k]
<1>1. Len(s) \in Nat /\ c + 1 \in Int /\ c + n \in Int
  BY DEF Bytes
<1>2. \A i \in (c + 1)..(c + n) : s[i] \in Nat
  BY <1>1 DEF Bytes
<1> DEFINE region == SubSeq(s, c + 1, c + n)
<1>3. /\ region \in Bytes
      /\ Len(region) = IF c + 1 <= c + n THEN (c + n) - (c + 1) + 1 ELSE 0
      /\ \A i \in 1 .. (c + n) - (c + 1) + 1 : region[i] = s[(c + 1) + i - 1]
  BY <1>1, <1>2, SubSeqProperties DEF Bytes
<1> HIDE DEF region
<1>4. Len(region) = n
  BY <1>3
<1>5. ASSUME NEW k \in 1..n PROVE region[k] = s[c + k]
  <2>1. k \in 1 .. (c + n) - (c + 1) + 1 /\ (c + 1) + k - 1 = c + k
    OBVIOUS
  <2>2. QED
    BY <1>3, <2>1
<1>6. QED
  BY <1>3, <1>4, <1>5 DEF region, Lies

LEMMA LiesIsRegion ==
    ASSUME NEW s \in Bytes, NEW c \in Nat, NEW e \in Bytes, Lies(s, c, e)
    PROVE  SubSeq(s, c + 1, c + Len(e)) = e
<1>1. Len(e) \in Nat /\ c + Len(e) <= Len(s)
  BY DEF Lies, Bytes
<1> DEFINE region == SubSeq(s, c + 1, c + Len(e))
<1>2. /\ region \in Bytes /\ Len(region) = Len(e)
      /\ \A k \in 1..Len(e) : region[k] = s[c + k]
  BY <1>1, RegionLies
<1> HIDE DEF region
<1>3. \A k \in 1..Len(e) : region[k] = e[k]
  BY <1>2 DEF Lies
<1>4. region = e
  BY <1>2, <1>3, SeqEqual DEF Bytes
<1>5. QED
  BY <1>4 DEF region

LEMMA LiesPrefix ==
    ASSUME NEW s \in Bytes, NEW e \in Bytes
    PROVE  V2!IsPrefix(e, s) <=> Lies(s, 0, e)
<1>1. Len(s) \in Nat /\ Len(e) \in Nat
  BY DEF Bytes
<1>2. SubSeq(e, 1, Len(e)) = e
  BY SubSeqFull DEF Bytes
<1>3. ASSUME Lies(s, 0, e) PROVE V2!IsPrefix(e, s)
  <2>1. SubSeq(s, 0 + 1, 0 + Len(e)) = e
    BY <1>3, LiesIsRegion
  <2>2. 0 + 1 = 1 /\ 0 + Len(e) = Len(e) /\ 0 + Len(e) <= Len(s)
    BY <1>1, <1>3 DEF Lies
  <2>3. QED
    BY <1>2, <2>1, <2>2 DEF V2!IsPrefix
<1>4. ASSUME V2!IsPrefix(e, s) PROVE Lies(s, 0, e)
  <2>1. Len(e) <= Len(s) /\ SubSeq(s, 1, Len(e)) = e
    BY <1>2, <1>4 DEF V2!IsPrefix
  <2>2. 0 + 1 = 1 /\ 0 + Len(e) = Len(e) /\ 0 + Len(e) <= Len(s)
    BY <1>1, <2>1
  <2>3. Lies(s, 0, SubSeq(s, 0 + 1, 0 + Len(e)))
    BY <1>1, <2>2, RegionLies
  <2>4. QED
    BY <2>1, <2>2, <2>3
<1>5. QED
  BY <1>3, <1>4

LEMMA PairLies ==
    ASSUME NEW s \in Bytes, NEW c \in Nat, NEW a \in Nat, NEW b \in Nat
    PROVE  /\ <<a, b>> \in Bytes /\ Len(<<a, b>>) = 2
           /\ Lies(s, c, <<a, b>>) <=>
                c + 2 <= Len(s) /\ s[c + 1] = a /\ s[c + 2] = b
<1>1. <<a, b>> \in Bytes /\ Len(<<a, b>>) = 2
  BY DEF Bytes
<1>2. <<a, b>>[1] = a /\ <<a, b>>[2] = b
  OBVIOUS
<1>3. \A k \in 1..2 : k = 1 \/ k = 2
  OBVIOUS
<1>4. 1 \in 1..2 /\ 2 \in 1..2
  OBVIOUS
<1> DEFINE e == <<a, b>>
<1> HIDE DEF e
<1>5. /\ e \in Bytes /\ Len(e) = 2
      /\ Lies(s, c, e) <=> c + 2 <= Len(s) /\ s[c + 1] = a /\ s[c + 2] = b
  BY <1>1, <1>2, <1>3, <1>4 DEF Lies, e
<1>6. QED
  BY <1>5 DEF e

\* The frame parameter by parameter.
LEMMA FramesAre ==
    ASSUME NEW a, NEW b, NEW params \in Seq(Bytes)
    PROVE  LET f == V2!Frames(a, b, params) IN
           /\ f[0] = <<a, b>>
           /\ \A n \in 1..Len(params) : f[n] = f[n - 1] \o V2!Encoded(params[n])
<1> DEFINE Fits(f, k) ==
             f = [n \in 0..k |-> IF n = 0 THEN <<a, b>>
                                 ELSE f[n - 1] \o V2!Encoded(params[n])]
           T == {k \in 0..Len(params) : \E f : Fits(f, k)}
<1>0. Len(params) \in Nat
  OBVIOUS
<1>1. 0 \in T
  <2>1. Fits([n \in {0} |-> <<a, b>>], 0)
    OBVIOUS
  <2> HIDE DEF Fits
  <2>2. QED
    BY <1>0, <2>1
<1>2. ASSUME NEW k \in 0..(Len(params) - 1), k \in T PROVE k + 1 \in T
  <2>1. PICK f : Fits(f, k)
    BY <1>2
  <2> DEFINE last == f[k] \o V2!Encoded(params[k + 1])
             g == [n \in 0..(k + 1) |-> IF n = k + 1 THEN last ELSE f[n]]
  <2>2. \A n \in 0..k : f[n] = IF n = 0 THEN <<a, b>>
                              ELSE f[n - 1] \o V2!Encoded(params[n])
    BY <2>1
  <2>3. ASSUME NEW n \in 0..(k + 1)
        PROVE  g[n] = IF n = 0 THEN <<a, b>> ELSE g[n - 1] \o V2!Encoded(params[n])
    <3>1. CASE n = k + 1
      <4>1. n - 1 = k /\ g[n - 1] = f[k] /\ n # 0
        BY <3>1
      <4>2. QED
        BY <3>1, <4>1
    <3>2. CASE n # k + 1
      <4>1. n \in 0..k /\ g[n] = f[n]
        BY <3>2
      <4>2. n # 0 => g[n - 1] = f[n - 1]
        BY <3>2
      <4> HIDE DEF g
      <4>3. QED
        BY <2>2, <4>1, <4>2
    <3>3. QED
      BY <3>1, <3>2
  <2>4. Fits(g, k + 1)
    <3> HIDE DEF last
    <3>1. g = [n \in 0..(k + 1) |-> g[n]]
      OBVIOUS
    <3> HIDE DEF g
    <3>2. QED
      BY <2>3, <3>1
  <2> HIDE DEF Fits, g
  <2>5. QED
    BY <1>0, <2>4
<1>3. \E f : Fits(f, Len(params))
  <2> HIDE DEF Fits
  <2>1. Len(params) \in T
    <3> HIDE DEF T
    <3>1. \A n \in 0..Len(params) : n \in T
      BY <1>0, <1>1, <1>2, Counting
    <3>2. QED
      BY <1>0, <3>1
  <2>2. QED
    BY <2>1
<1>4. Fits(V2!Frames(a, b, params), Len(params))
  BY <1>3 DEF V2!Frames
<1> DEFINE f == V2!Frames(a, b, params)
<1> HIDE DEF f
<1>5. \A n \in 0..Len(params) : f[n] = IF n = 0 THEN <<a, b>>
                              ELSE f[n - 1] \o V2!Encoded(params[n])
  BY <1>4 DEF f
<1>6. 0 \in 0..Len(params) /\ \A n \in 1..Len(params) : n \in 0..Len(params) /\ n # 0
  BY <1>0
<1>7. f[0] = <<a, b>>
  BY <1>5, <1>6
<1>8. QED
  BY <1>5, <1>6, <1>7 DEF f

\* The request parameter by parameter.
LEMMA BuildingIs ==
    ASSUME NEW code, NEW storage, NEW params \in Seq(Bytes)
    PROVE  LET f == V2!Building(code, params, storage) IN
           /\ f[0] = V2!Put(V2!Buffer(V2!Zeros(storage)), <<code, Len(params)>>)
           /\ \A n \in 1..Len(params) : f[n] = V2!PutParam(f[n - 1], params[n])
<1> DEFINE Fits(f, k) ==
             f = [n \in 0..k |->
                    IF n = 0 THEN V2!Put(V2!Buffer(V2!Zeros(storage)), <<code, Len(params)>>)
                    ELSE V2!PutParam(f[n - 1], params[n])]
           T == {k \in 0..Len(params) : \E f : Fits(f, k)}
<1>0. Len(params) \in Nat
  OBVIOUS
<1>1. 0 \in T
  <2>1. Fits([n \in {0} |-> V2!Put(V2!Buffer(V2!Zeros(storage)), <<code, Len(params)>>)], 0)
    OBVIOUS
  <2> HIDE DEF Fits
  <2>2. QED
    BY <1>0, <2>1
<1>2. ASSUME NEW k \in 0..(Len(params) - 1), k \in T PROVE k + 1 \in T
  <2>1. PICK f : Fits(f, k)
    BY <1>2
  <2> DEFINE last == V2!PutParam(f[k], params[k + 1])
             g == [n \in 0..(k + 1) |-> IF n = k + 1 THEN last ELSE f[n]]
  <2>2. \A n \in 0..k :
           f[n] = IF n = 0 THEN V2!Put(V2!Buffer(V2!Zeros(storage)), <<code, Len(params)>>)
                  ELSE V2!PutParam(f[n - 1], params[n])
    BY <2>1
  <2>3. ASSUME NEW n \in 0..(k + 1)
        PROVE  g[n] = IF n = 0 THEN V2!Put(V2!Buffer(V2!Zeros(storage)), <<code, Len(params)>>)
                      ELSE V2!PutParam(g[n - 1], params[n])
    <3>1. CASE n = k + 1
      <4>1. n - 1 = k /\ g[n - 1] = f[k] /\ n # 0
        BY <3>1
      <4>2. QED
        BY <3>1, <4>1
    <3>2. CASE n # k + 1
      <4>1. n \in 0..k /\ g[n] = f[n]
        BY <3>2
      <4>2. n # 0 => g[n - 1] = f[n - 1]
        BY <3>2
      <4> HIDE DEF g
      <4>3. QED
        BY <2>2, <4>1, <4>2
    <3>3. QED
      BY <3>1, <3>2
  <2>4. Fits(g, k + 1)
    <3> HIDE DEF last
    <3>1. g = [n \in 0..(k + 1) |-> g[n]]
      OBVIOUS
    <3> HIDE DEF g
    <3>2. QED
      BY <2>3, <3>1
  <2> HIDE DEF Fits, g
  <2>5. QED
    BY <1>0, <2>4
<1>3. \E f : Fits(f, Len(params))
  <2> HIDE DEF Fits
  <2>1. Len(params) \in T
    <3> HIDE DEF T
    <3>1. \A n \in 0..Len(params) : n \in T
      BY <1>0, <1>1, <1>2, Counting
    <3>2. QED
      BY <1>0, <3>1
  <2>2. QED
    BY <2>1
<1>4. Fits(V2!Building(code, params, storage), Len(params))
  BY <1>3 DEF V2!Building
<1> DEFINE f == V2!Building(code, params, storage)
<1> HIDE DEF f
<1>5. \A n \in 0..Len(params) :
         f[n] = IF n = 0 THEN V2!Put(V2!Buffer(V2!Zeros(storage)), <<code, Len(params)>>)
                ELSE V2!PutParam(f[n - 1], params[n])
  BY <1>4 DEF f
<1>6. 0 \in 0..Len(params) /\ \A n \in 1..Len(params) : n \in 0..Len(params) /\ n # 0
  BY <1>0
<1>7. f[0] = V2!Put(V2!Buffer(V2!Zeros(storage)), <<code, Len(params)>>)
  BY <1>5, <1>6
<1>8. QED
  BY <1>5, <1>6, <1>7 DEF f

\* The response taken apart, with given sizes,
LEMMA TakingFixedIs ==
    ASSUME NEW header, NEW sizes \in Seq(Nat)
    PROVE  LET f == V2!TakingFixed(header, sizes) IN
           /\ f[0] = header
           /\ \A n \in 1..Len(sizes) : f[n] = V2!TakeFixed(f[n - 1], sizes[n])
<1> DEFINE Fits(f, k) ==
             f = [n \in 0..k |-> IF n = 0 THEN header
                                 ELSE V2!TakeFixed(f[n - 1], sizes[n])]
           T == {k \in 0..Len(sizes) : \E f : Fits(f, k)}
<1>0. Len(sizes) \in Nat
  OBVIOUS
<1>1. 0 \in T
  <2>1. Fits([n \in {0} |-> header], 0)
    OBVIOUS
  <2> HIDE DEF Fits
  <2>2. QED
    BY <1>0, <2>1
<1>2. ASSUME NEW k \in 0..(Len(sizes) - 1), k \in T PROVE k + 1 \in T
  <2>1. PICK f : Fits(f, k)
    BY <1>2
  <2> DEFINE last == V2!TakeFixed(f[k], sizes[k + 1])
             g == [n \in 0..(k + 1) |-> IF n = k + 1 THEN last ELSE f[n]]
  <2>2. \A n \in 0..k : f[n] = IF n = 0 THEN header
                              ELSE V2!TakeFixed(f[n - 1], sizes[n])
    BY <2>1
  <2>3. ASSUME NEW n \in 0..(k + 1)
        PROVE  g[n] = IF n = 0 THEN header ELSE V2!TakeFixed(g[n - 1], sizes[n])
    <3>1. CASE n = k + 1
      <4>1. n - 1 = k /\ g[n - 1] = f[k] /\ n # 0
        BY <3>1
      <4>2. QED
        BY <3>1, <4>1
    <3>2. CASE n # k + 1
      <4>1. n \in 0..k /\ g[n] = f[n]
        BY <3>2
      <4>2. n # 0 => g[n - 1] = f[n - 1]
        BY <3>2
      <4> HIDE DEF g
      <4>3. QED
        BY <2>2, <4>1, <4>2
    <3>3. QED
      BY <3>1, <3>2
  <2>4. Fits(g, k + 1)
    <3> HIDE DEF last
    <3>1. g = [n \in 0..(k + 1) |-> g[n]]
      OBVIOUS
    <3> HIDE DEF g
    <3>2. QED
      BY <2>3, <3>1
  <2> HIDE DEF Fits, g
  <2>5. QED
    BY <1>0, <2>4
<1>3. \E f : Fits(f, Len(sizes))
  <2> HIDE DEF Fits
  <2>1. Len(sizes) \in T
    <3> HIDE DEF T
    <3>1. \A n \in 0..Len(sizes) : n \in T
      BY <1>0, <1>1, <1>2, Counting
    <3>2. QED
      BY <1>0, <3>1
  <2>2. QED
    BY <2>1
<1>4. Fits(V2!TakingFixed(header, sizes), Len(sizes))
  BY <1>3 DEF V2!TakingFixed
<1> DEFINE f == V2!TakingFixed(header, sizes)
<1> HIDE DEF f
<1>5. \A n \in 0..Len(sizes) : f[n] = IF n = 0 THEN header
                              ELSE V2!TakeFixed(f[n - 1], sizes[n])
  BY <1>4 DEF f
<1>6. 0 \in 0..Len(sizes) /\ \A n \in 1..Len(sizes) : n \in 0..Len(sizes) /\ n # 0
  BY <1>0
<1>7. f[0] = header
  BY <1>5, <1>6
<1>8. QED
  BY <1>5, <1>6, <1>7 DEF f

\* and with the sizes it holds.
LEMMA TakingSerializedIs ==
    ASSUME NEW header, NEW count \in Nat
    PROVE  LET f == V2!TakingSerialized(header, count) IN
           /\ f[0] = header
           /\ \A n \in 1..count : f[n] = V2!TakeSerialized(f[n - 1])
<1> DEFINE Fits(f, k) ==
             f = [n \in 0..k |-> IF n = 0 THEN header
                                 ELSE V2!TakeSerialized(f[n - 1])]
           T == {k \in 0..count : \E f : Fits(f, k)}
<1>0. count \in Nat
  OBVIOUS
<1>1. 0 \in T
  <2>1. Fits([n \in {0} |-> header], 0)
    OBVIOUS
  <2> HIDE DEF Fits
  <2>2. QED
    BY <1>0, <2>1
<1>2. ASSUME NEW k \in 0..(count - 1), k \in T PROVE k + 1 \in T
  <2>1. PICK f : Fits(f, k)
    BY <1>2
  <2> DEFINE last == V2!TakeSerialized(f[k])
             g == [n \in 0..(k + 1) |-> IF n = k + 1 THEN last ELSE f[n]]
  <2>2. \A n \in 0..k : f[n] = IF n = 0 THEN header
                              ELSE V2!TakeSerialized(f[n - 1])
    BY <2>1
  <2>3. ASSUME NEW n \in 0..(k + 1)
        PROVE  g[n] = IF n = 0 THEN header ELSE V2!TakeSerialized(g[n - 1])
    <3>1. CASE n = k + 1
      <4>1. n - 1 = k /\ g[n - 1] = f[k] /\ n # 0
        BY <3>1
      <4>2. QED
        BY <3>1, <4>1
    <3>2. CASE n # k + 1
      <4>1. n \in 0..k /\ g[n] = f[n]
        BY <3>2
      <4>2. n # 0 => g[n - 1] = f[n - 1]
        BY <3>2
      <4> HIDE DEF g
      <4>3. QED
        BY <2>2, <4>1, <4>2
    <3>3. QED
      BY <3>1, <3>2
  <2>4. Fits(g, k + 1)
    <3> HIDE DEF last
    <3>1. g = [n \in 0..(k + 1) |-> g[n]]
      OBVIOUS
    <3> HIDE DEF g
    <3>2. QED
      BY <2>3, <3>1
  <2> HIDE DEF Fits, g
  <2>5. QED
    BY <1>0, <2>4
<1>3. \E f : Fits(f, count)
  <2> HIDE DEF Fits
  <2>1. count \in T
    <3> HIDE DEF T
    <3>1. \A n \in 0..count : n \in T
      BY <1>0, <1>1, <1>2, Counting
    <3>2. QED
      BY <1>0, <3>1
  <2>2. QED
    BY <2>1
<1>4. Fits(V2!TakingSerialized(header, count), count)
  BY <1>3 DEF V2!TakingSerialized
<1> DEFINE f == V2!TakingSerialized(header, count)
<1> HIDE DEF f
<1>5. \A n \in 0..count : f[n] = IF n = 0 THEN header
                              ELSE V2!TakeSerialized(f[n - 1])
  BY <1>4 DEF f
<1>6. 0 \in 0..count /\ \A n \in 1..count : n \in 0..count /\ n # 0
  BY <1>0
<1>7. f[0] = header
  BY <1>5, <1>6
<1>8. QED
  BY <1>5, <1>6, <1>7 DEF f

\* Where parameters of given sizes end.
LEMMA ExtentsAre ==
    ASSUME NEW sizes \in Seq(Nat)
    PROVE  LET f == V2!Extents(sizes) IN
           /\ f[0] = Align
           /\ \A n \in 1..Len(sizes) :
                 f[n] = f[n - 1] + Align + sizes[n] + V2!padding_size(sizes[n])
<1> DEFINE Fits(f, k) ==
             f = [n \in 0..k |-> IF n = 0 THEN Align
                                 ELSE f[n - 1] + Align + sizes[n] + V2!padding_size(sizes[n])]
           T == {k \in 0..Len(sizes) : \E f : Fits(f, k)}
<1>0. Len(sizes) \in Nat
  OBVIOUS
<1>1. 0 \in T
  <2>1. Fits([n \in {0} |-> Align], 0)
    OBVIOUS
  <2> HIDE DEF Fits
  <2>2. QED
    BY <1>0, <2>1
<1>2. ASSUME NEW k \in 0..(Len(sizes) - 1), k \in T PROVE k + 1 \in T
  <2>1. PICK f : Fits(f, k)
    BY <1>2
  <2> DEFINE last == f[k] + Align + sizes[k + 1] + V2!padding_size(sizes[k + 1])
             g == [n \in 0..(k + 1) |-> IF n = k + 1 THEN last ELSE f[n]]
  <2>2. \A n \in 0..k : f[n] = IF n = 0 THEN Align
                              ELSE f[n - 1] + Align + sizes[n] + V2!padding_size(sizes[n])
    BY <2>1
  <2>3. ASSUME NEW n \in 0..(k + 1)
        PROVE  g[n] = IF n = 0 THEN Align
                      ELSE g[n - 1] + Align + sizes[n] + V2!padding_size(sizes[n])
    <3>1. CASE n = k + 1
      <4>1. n - 1 = k /\ g[n - 1] = f[k] /\ n # 0
        BY <3>1
      <4>2. QED
        BY <3>1, <4>1
    <3>2. CASE n # k + 1
      <4>1. n \in 0..k /\ g[n] = f[n]
        BY <3>2
      <4>2. n # 0 => g[n - 1] = f[n - 1]
        BY <3>2
      <4> HIDE DEF g
      <4>3. QED
        BY <2>2, <4>1, <4>2
    <3>3. QED
      BY <3>1, <3>2
  <2>4. Fits(g, k + 1)
    <3> HIDE DEF last
    <3>1. g = [n \in 0..(k + 1) |-> g[n]]
      OBVIOUS
    <3> HIDE DEF g
    <3>2. QED
      BY <2>3, <3>1
  <2> HIDE DEF Fits, g
  <2>5. QED
    BY <1>0, <2>4
<1>3. \E f : Fits(f, Len(sizes))
  <2> HIDE DEF Fits
  <2>1. Len(sizes) \in T
    <3> HIDE DEF T
    <3>1. \A n \in 0..Len(sizes) : n \in T
      BY <1>0, <1>1, <1>2, Counting
    <3>2. QED
      BY <1>0, <3>1
  <2>2. QED
    BY <2>1
<1>4. Fits(V2!Extents(sizes), Len(sizes))
  BY <1>3 DEF V2!Extents
<1> DEFINE f == V2!Extents(sizes)
<1> HIDE DEF f
<1>5. \A n \in 0..Len(sizes) : f[n] = IF n = 0 THEN Align
                              ELSE f[n - 1] + Align + sizes[n] + V2!padding_size(sizes[n])
  BY <1>4 DEF f
<1>6. 0 \in 0..Len(sizes) /\ \A n \in 1..Len(sizes) : n \in 0..Len(sizes) /\ n # 0
  BY <1>0
<1>7. f[0] = Align
  BY <1>5, <1>6
<1>8. QED
  BY <1>5, <1>6, <1>7 DEF f

\* A parameter as it is encoded, and where it lies.
LEMMA EncodedFacts ==
    ASSUME NEW v \in Bytes
    PROVE  LET pad == V2!padding_size(Len(v)) IN
           /\ V2!Encoded(v) \in Bytes
           /\ Len(V2!Encoded(v)) = 2 + Len(v) + pad
           /\ pad \in Nat /\ Len(v) \in Nat
           /\ \A s \in Bytes, c \in Nat :
                Lies(s, c, V2!Encoded(v)) <=>
                  /\ c + 2 <= Len(s) /\ s[c + 1] = Len(v) /\ s[c + 2] = 0
                  /\ Lies(s, c + 2, v)
                  /\ Lies(s, c + 2 + Len(v), V2!Zeros(pad))
<1> DEFINE pad == V2!padding_size(Len(v))
           z == V2!Zeros(pad)
           h == <<Len(v), 0>>
<1>1. Len(v) \in Nat /\ pad \in Nat
  BY PaddingNatural DEF Bytes
<1>2. z \in Bytes /\ Len(z) = pad
  BY <1>1, ZeroBytes
<1>3. h \in Bytes /\ Len(h) = 2
  BY <1>1 DEF Bytes
<1>4. V2!Encoded(v) = (h \o v) \o z
  BY DEF V2!Encoded
<1>5. ASSUME NEW s \in Bytes, NEW c \in Nat
      PROVE  Lies(s, c, h) <=> c + 2 <= Len(s) /\ s[c + 1] = Len(v) /\ s[c + 2] = 0
  BY <1>1, PairLies
<1> HIDE DEF h, z, pad
<1>6. /\ h \o v \in Bytes /\ Len(h \o v) = 2 + Len(v)
      /\ \A s \in Bytes, c \in Nat :
            Lies(s, c, h \o v) <=> Lies(s, c, h) /\ Lies(s, c + 2, v)
  <2>1. h \o v \in Bytes /\ Len(h \o v) = Len(h) + Len(v)
    BY <1>3, LiesBoth
  <2>2. ASSUME NEW s \in Bytes, NEW c \in Nat
        PROVE  Lies(s, c, h \o v) <=> Lies(s, c, h) /\ Lies(s, c + Len(h), v)
    BY <1>3, LiesBoth
  <2>3. QED
    BY <1>3, <2>1, <2>2
<1>7. /\ (h \o v) \o z \in Bytes /\ Len((h \o v) \o z) = 2 + Len(v) + pad
      /\ \A s \in Bytes, c \in Nat :
            Lies(s, c, (h \o v) \o z) <=>
                Lies(s, c, h \o v) /\ Lies(s, c + (2 + Len(v)), z)
  <2> DEFINE hv == h \o v
  <2>1. hv \in Bytes /\ Len(hv) = 2 + Len(v)
    BY <1>6
  <2> HIDE DEF hv
  <2>2. /\ hv \o z \in Bytes /\ Len(hv \o z) = Len(hv) + Len(z)
        /\ \A s \in Bytes, c \in Nat :
            Lies(s, c, hv \o z) <=> Lies(s, c, hv) /\ Lies(s, c + Len(hv), z)
    BY <1>2, <2>1, LiesBoth
  <2>3. QED
    BY <1>2, <2>1, <2>2 DEF hv
<1>8. ASSUME NEW s \in Bytes, NEW c \in Nat
      PROVE  Lies(s, c, (h \o v) \o z) <=>
                  /\ c + 2 <= Len(s) /\ s[c + 1] = Len(v) /\ s[c + 2] = 0
                  /\ Lies(s, c + 2, v)
                  /\ Lies(s, c + 2 + Len(v), z)
  <2>1. c + (2 + Len(v)) = c + 2 + Len(v)
    BY <1>1
  <2>2. QED
    BY <1>5, <1>6, <1>7, <2>1
<1>9. QED
  BY <1>1, <1>4, <1>7, <1>8 DEF z, pad

LEMMA EncodedLies ==
    ASSUME NEW s \in Bytes, NEW c \in Nat, NEW v \in Bytes
    PROVE  Lies(s, c, V2!Encoded(v)) <=>
             /\ c + 2 <= Len(s) /\ s[c + 1] = Len(v) /\ s[c + 2] = 0
             /\ Lies(s, c + 2, v)
             /\ Lies(s, c + 2 + Len(v), V2!Zeros(V2!padding_size(Len(v))))
BY EncodedFacts

\* A frame grows by a parameter at a time.
LEMMA FramesGrow ==
    ASSUME NEW a \in Nat, NEW b \in Nat, NEW params \in Seq(Bytes)
    PROVE  LET f == V2!Frames(a, b, params) IN
           /\ V2!Frame(a, b, params) = f[Len(params)]
           /\ f[0] = <<a, b>>
           /\ \A n \in 0..Len(params) : f[n] \in Bytes /\ Len(f[n]) \in Nat
           /\ \A n \in 1..Len(params) :
                /\ params[n] \in Bytes
                /\ f[n] = f[n - 1] \o V2!Encoded(params[n])
                /\ Len(f[n]) = Len(f[n - 1]) + Len(V2!Encoded(params[n]))
<1> DEFINE f == V2!Frames(a, b, params)
           T == {n \in 0..Len(params) : f[n] \in Bytes}
<1>0. Len(params) \in Nat /\ \A n \in 1..Len(params) : params[n] \in Bytes
  OBVIOUS
<1>1. /\ f[0] = <<a, b>>
      /\ \A n \in 1..Len(params) : f[n] = f[n - 1] \o V2!Encoded(params[n])
  BY FramesAre
<1> HIDE DEF f
<1>2. 0 \in T
  <2>1. <<a, b>> \in Bytes
    BY DEF Bytes
  <2>2. QED
    BY <1>0, <1>1, <2>1
<1>3. ASSUME NEW n \in 0..(Len(params) - 1), n \in T PROVE n + 1 \in T
  <2>1. n + 1 \in 1..Len(params) /\ n + 1 \in 0..Len(params) /\ (n + 1) - 1 = n
    BY <1>0
  <2>2. f[n + 1] = f[n] \o V2!Encoded(params[n + 1])
    BY <1>1, <2>1
  <2>3. V2!Encoded(params[n + 1]) \in Bytes
    BY <1>0, <2>1, EncodedFacts
  <2>4. f[n + 1] \in Bytes
    BY <1>3, <2>2, <2>3 DEF Bytes
  <2>5. QED
    BY <2>1, <2>4
<1>4. \A n \in 0..Len(params) : n \in T
  <2> HIDE DEF T
  <2> QED
    BY <1>0, <1>2, <1>3, Counting
<1>5. ASSUME NEW n \in 1..Len(params)
      PROVE  Len(f[n]) = Len(f[n - 1]) + Len(V2!Encoded(params[n]))
  <2>1. n - 1 \in 0..Len(params) /\ params[n] \in Bytes
    BY <1>0
  <2>2. f[n - 1] \in Bytes /\ V2!Encoded(params[n]) \in Bytes
    BY <1>4, <2>1, EncodedFacts
  <2>3. f[n] = f[n - 1] \o V2!Encoded(params[n])
    BY <1>1
  <2>4. QED
    BY <2>2, <2>3, LiesBoth
<1>6. \A n \in 0..Len(params) : f[n] \in Bytes /\ Len(f[n]) \in Nat
  BY <1>4 DEF Bytes
<1>7. V2!Frame(a, b, params) = f[Len(params)]
  BY DEF V2!Frame, f
<1>8. QED
  BY <1>0, <1>1, <1>5, <1>6, <1>7 DEF f

-----------------------------------------------------------------------------
(* The request                                                             *)

\* The storage holds the bytes f and is zero behind them, or f does not fit.
Filled(b, f, storage) ==
    /\ b \in [data : Bytes, consumed : Nat, ok : BOOLEAN, out : Seq(Bytes)]
    /\ b.ok => /\ Len(f) <= storage /\ b.consumed = Len(f)
               /\ b.data = f \o V2!Zeros(storage - Len(f))
    /\ ~b.ok => Len(f) > storage

LEMMA PutFills ==
    ASSUME NEW storage \in Nat, NEW f \in Bytes, NEW e \in Bytes,
           NEW b, Filled(b, f, storage)
    PROVE  Filled(V2!Put(b, e), f \o e, storage)
<1> DEFINE after == V2!consume_bytes(b, Len(e))
           put == V2!Put(b, e)
<1>1. Len(f) \in Nat /\ Len(e) \in Nat
  BY DEF Bytes
<1>2. f \o e \in Bytes /\ Len(f \o e) = Len(f) + Len(e)
  BY LiesBoth
<1>3. /\ b \in [data : Bytes, consumed : Nat, ok : BOOLEAN, out : Seq(Bytes)]
      /\ Len(b.data) \in Nat
  BY DEF Filled, Bytes
<1>4. CASE ~b.ok
  <2>1. put = [b EXCEPT !.ok = FALSE]
    BY <1>4 DEF V2!Put
  <2>2. Len(f) > storage
    BY <1>4 DEF Filled
  <2>3. /\ put \in [data : Bytes, consumed : Nat, ok : BOOLEAN, out : Seq(Bytes)]
        /\ put.ok = FALSE
    BY <1>3, <2>1
  <2>4. Len(f \o e) > storage
    BY <1>1, <1>2, <2>2
  <2>5. QED
    BY <2>3, <2>4 DEF Filled
<1>5. CASE b.ok
  <2> DEFINE z == V2!Zeros(storage - Len(f))
  <2>1. /\ Len(f) <= storage /\ b.consumed = Len(f) /\ b.data = f \o z
    BY <1>5 DEF Filled
  <2>2. storage - Len(f) \in Nat
    BY <1>1, <2>1
  <2>3. /\ z \in Bytes /\ Len(z) = storage - Len(f)
        /\ \A k \in 1..(storage - Len(f)) : z[k] = 0
    BY <2>2, ZeroBytes
  <2> HIDE DEF z
  <2>4. /\ Len(b.data) = Len(f) + Len(z)
        /\ \A i \in 1 .. Len(f) + Len(z) :
              b.data[i] = IF i <= Len(f) THEN f[i] ELSE z[i - Len(f)]
    BY <2>1, <2>3, ConcatProperties DEF Bytes
  <2>5. Len(b.data) = storage
    BY <1>1, <2>2, <2>3, <2>4
  <2>6. V2!Left(b) = storage - Len(f)
    BY <2>1, <2>5 DEF V2!Left
  <2>7. CASE storage < Len(f) + Len(e)
    <3>1. V2!Left(b) < Len(e)
      BY <1>1, <2>6, <2>7
    <3>2. after = [b EXCEPT !.ok = FALSE]
      BY <3>1 DEF V2!consume_bytes
    <3>3. after.ok = FALSE
      BY <1>3, <3>2
    <3>4. put = [b EXCEPT !.ok = FALSE]
      BY <3>3 DEF V2!Put
    <3>5. /\ put \in [data : Bytes, consumed : Nat, ok : BOOLEAN, out : Seq(Bytes)]
          /\ put.ok = FALSE
      BY <1>3, <3>4
    <3>6. Len(f \o e) > storage
      BY <1>1, <1>2, <2>7
    <3>7. QED
      BY <3>5, <3>6 DEF Filled
  <2>8. CASE ~(storage < Len(f) + Len(e))
    <3> DEFINE written == [k \in DOMAIN b.data |->
                             IF k \in b.consumed + 1 .. b.consumed + Len(e)
                             THEN e[k - b.consumed] ELSE b.data[k]]
               y == V2!Zeros(storage - Len(f \o e))
    <3>1. ~(V2!Left(b) < Len(e))
      BY <1>1, <2>6, <2>8
    <3>2. after = [b EXCEPT !.consumed = b.consumed + Len(e)]
      BY <3>1 DEF V2!consume_bytes
    <3>3. /\ after \in [data : Bytes, consumed : Nat, ok : BOOLEAN, out : Seq(Bytes)]
          /\ after.ok = TRUE /\ after.data = b.data
          /\ after.consumed = b.consumed + Len(e)
      BY <1>1, <1>3, <1>5, <3>2
    <3>4. put = [after EXCEPT !.data = written]
      <4> HIDE DEF after
      <4> QED
        BY <1>5, <3>3 DEF V2!Put, after
    <3>5. storage - Len(f \o e) \in Nat
      BY <1>1, <1>2, <2>8
    <3>6. /\ y \in Bytes /\ Len(y) = storage - Len(f \o e)
          /\ \A k \in 1..(storage - Len(f \o e)) : y[k] = 0
      BY <3>5, ZeroBytes
    <3> HIDE DEF y
    <3>7. /\ (f \o e) \o y \in Bytes /\ Len((f \o e) \o y) = storage
          /\ \A i \in 1 .. storage :
                ((f \o e) \o y)[i] = IF i <= Len(f \o e) THEN (f \o e)[i]
                                     ELSE y[i - Len(f \o e)]
      <4> DEFINE fe == f \o e
      <4>1. fe \in Bytes /\ Len(fe) \in Nat
        BY <1>2 DEF Bytes
      <4> HIDE DEF fe
      <4>2. /\ fe \o y \in Bytes /\ Len(fe \o y) = Len(fe) + Len(y)
            /\ \A i \in 1 .. Len(fe) + Len(y) :
                (fe \o y)[i] = IF i <= Len(fe) THEN fe[i] ELSE y[i - Len(fe)]
        BY <3>6, <4>1, ConcatProperties DEF Bytes
      <4>3. Len(fe) + Len(y) = storage
        BY <3>6, <4>1 DEF fe
      <4>4. QED
        BY <4>2, <4>3 DEF fe
    <3>8. DOMAIN b.data = 1..storage
      BY <1>3, <2>5 DEF Bytes
    <3>9. ASSUME NEW i \in 1..storage
          PROVE  written[i] = ((f \o e) \o y)[i]
      <4>1. \A j \in 1 .. Len(f) + Len(e) :
               (f \o e)[j] = IF j <= Len(f) THEN f[j] ELSE e[j - Len(f)]
        BY ConcatProperties DEF Bytes
      <4>2. written[i] = IF i \in Len(f) + 1 .. Len(f) + Len(e)
                         THEN e[i - Len(f)] ELSE b.data[i]
        BY <2>1, <3>8
      <4> HIDE DEF written
      <4>3. i \in 1 .. Len(f) + Len(z)
        BY <2>2, <2>3
      <4>4. CASE i <= Len(f)
        <5>1. /\ ~(i \in Len(f) + 1 .. Len(f) + Len(e))
              /\ i <= Len(f \o e) /\ i \in 1 .. Len(f) + Len(e)
          BY <1>1, <1>2, <4>4
        <5>2. written[i] = f[i]
          BY <2>4, <4>2, <4>3, <4>4, <5>1
        <5>3. QED
          BY <3>7, <4>1, <4>4, <5>1, <5>2
      <4>5. CASE ~(i <= Len(f)) /\ i <= Len(f) + Len(e)
        <5>1. /\ i \in Len(f) + 1 .. Len(f) + Len(e)
              /\ i <= Len(f \o e) /\ i \in 1 .. Len(f) + Len(e)
          BY <1>1, <1>2, <4>5
        <5>2. QED
          BY <3>7, <4>1, <4>2, <4>5, <5>1
      <4>6. CASE ~(i <= Len(f) + Len(e))
        <5>1. /\ ~(i \in Len(f) + 1 .. Len(f) + Len(e)) /\ ~(i <= Len(f))
              /\ ~(i <= Len(f \o e))
              /\ i - Len(f \o e) \in 1..(storage - Len(f \o e))
              /\ i - Len(f) \in 1..(storage - Len(f))
          BY <1>1, <1>2, <4>6
        <5>2. written[i] = 0
          BY <2>3, <2>4, <4>2, <4>3, <5>1
        <5>3. QED
          BY <3>6, <3>7, <5>1, <5>2
      <4>7. QED
        BY <1>1, <4>4, <4>5, <4>6
    <3>10. written = (f \o e) \o y
      <4>1. written = [i \in 1..storage |-> written[i]]
        BY <3>8
      <4> DEFINE fey == (f \o e) \o y
      <4>2. fey = [i \in 1..storage |-> fey[i]]
        <5>1. fey \in Bytes /\ Len(fey) = storage
          BY <3>7
        <5> HIDE DEF fey
        <5>2. QED
          BY <5>1 DEF Bytes
      <4> HIDE DEF written, fey
      <4>3. \A i \in 1..storage : written[i] = fey[i]
        BY <3>9 DEF fey
      <4>4. written = fey
        BY <4>1, <4>2, <4>3
      <4>5. QED
        BY <4>4 DEF fey
    <3> HIDE DEF written, after
    <3>11. /\ put \in [data : Bytes, consumed : Nat, ok : BOOLEAN, out : Seq(Bytes)]
           /\ put.ok = TRUE /\ put.consumed = Len(f) + Len(e)
           /\ put.data = (f \o e) \o y
      BY <2>1, <3>3, <3>4, <3>7, <3>10
    <3>12. Len(f \o e) <= storage
      BY <1>1, <1>2, <2>8
    <3>13. QED
      BY <1>2, <3>11, <3>12 DEF Filled, y
  <2>9. QED
    BY <2>7, <2>8
<1>6. QED
  BY <1>3, <1>4, <1>5

LEMMA BytesAssociate ==
    ASSUME NEW e \in Bytes, NEW f \in Bytes, NEW g \in Bytes
    PROVE  (e \o f) \o g = e \o (f \o g)
BY DEF Bytes

LEMMA PutParamFills ==
    ASSUME NEW storage \in Nat, NEW f \in Bytes, NEW v \in Bytes,
           NEW b, Filled(b, f, storage)
    PROVE  Filled(V2!PutParam(b, v), f \o V2!Encoded(v), storage)
<1> DEFINE pad == V2!padding_size(Len(v))
           z == V2!Zeros(pad)
           h == <<Len(v), 0>>
           w == v \o z
<1>1. Len(v) \in Nat /\ pad \in Nat
  BY PaddingNatural DEF Bytes
<1>2. z \in Bytes
  BY <1>1, ZeroBytes
<1>3. h \in Bytes
  BY <1>1 DEF Bytes
<1>4. V2!Encoded(v) = (h \o v) \o z
  BY DEF V2!Encoded
<1>5. V2!PutParam(b, v) = V2!Put(V2!Put(b, h), w)
  BY DEF V2!PutParam
<1> HIDE DEF h, z
<1>6. w \in Bytes /\ f \o h \in Bytes
  BY <1>2, <1>3, LiesBoth
<1>7. (f \o h) \o w = f \o V2!Encoded(v)
  <2>1. (h \o v) \o z = h \o (v \o z)
    BY <1>2, <1>3, BytesAssociate
  <2>2. (f \o h) \o w = f \o (h \o w)
    <3> HIDE DEF w
    <3> QED
      BY <1>3, <1>6, BytesAssociate, SMTT(30)
  <2>3. QED
    BY <1>4, <2>1, <2>2
<1> HIDE DEF w
<1>8. Filled(V2!Put(b, h), f \o h, storage)
  BY <1>3, PutFills
<1>9. Filled(V2!Put(V2!Put(b, h), w), (f \o h) \o w, storage)
  BY <1>6, <1>8, PutFills
<1>10. QED
  BY <1>5, <1>7, <1>9

\* The request is the frame of the parameters, or it does not fit.
LEMMA RequestFills ==
    ASSUME NEW code \in Nat, NEW params \in Seq(Bytes), NEW storage \in Nat
    PROVE  Filled(V2!BuildRequest(code, params, storage),
                  V2!Frame(code, Len(params), params), storage)
<1> DEFINE f == V2!Frames(code, Len(params), params)
           g == V2!Building(code, params, storage)
           T == {n \in 0..Len(params) : Filled(g[n], f[n], storage)}
<1>0. Len(params) \in Nat
  OBVIOUS
<1>1. /\ V2!Frame(code, Len(params), params) = f[Len(params)]
      /\ f[0] = <<code, Len(params)>>
      /\ \A n \in 0..Len(params) : f[n] \in Bytes
      /\ \A n \in 1..Len(params) :
            params[n] \in Bytes /\ f[n] = f[n - 1] \o V2!Encoded(params[n])
  BY <1>0, FramesGrow
<1>2. /\ g[0] = V2!Put(V2!Buffer(V2!Zeros(storage)), <<code, Len(params)>>)
      /\ \A n \in 1..Len(params) : g[n] = V2!PutParam(g[n - 1], params[n])
  BY BuildingIs
<1> HIDE DEF f, g
<1>3. 0 \in T
  <2> DEFINE b == V2!Buffer(V2!Zeros(storage))
             h == <<code, Len(params)>>
  <2>1. V2!Zeros(storage) \in Bytes
    BY ZeroBytes
  <2>2. <<>> \in Bytes /\ Len(<<>>) = 0 /\ h \in Bytes /\ <<>> \in Seq(Bytes)
    BY <1>0 DEF Bytes
  <2>3. /\ <<>> \o V2!Zeros(storage) = V2!Zeros(storage)
        /\ <<>> \o h = h
    <3> HIDE DEF h
    <3> QED
      BY <2>1, <2>2, ConcatEmptySeq DEF Bytes
  <2>4. storage - 0 = storage /\ 0 <= storage
    OBVIOUS
  <2>5. Filled(b, <<>>, storage)
    BY <2>1, <2>2, <2>3, <2>4 DEF Filled, V2!Buffer
  <2> HIDE DEF b, h
  <2>6. Filled(V2!Put(b, h), h, storage)
    BY <2>2, <2>3, <2>5, PutFills
  <2>7. g[0] = V2!Put(b, h) /\ f[0] = h
    BY <1>1, <1>2 DEF b, h
  <2>8. 0 \in 0..Len(params) /\ Filled(g[0], f[0], storage)
    BY <1>0, <2>6, <2>7
  <2>9. QED
    BY <2>8
<1>4. ASSUME NEW n \in 0..(Len(params) - 1), n \in T PROVE n + 1 \in T
  <2>1. n + 1 \in 1..Len(params) /\ n + 1 \in 0..Len(params) /\ (n + 1) - 1 = n
    BY <1>0
  <2>2. /\ f[n + 1] = f[n] \o V2!Encoded(params[n + 1]) /\ params[n + 1] \in Bytes
    BY <1>1, <2>1
  <2>3. f[n] \in Bytes
    BY <1>1, <1>4
  <2>4. g[n + 1] = V2!PutParam(g[n], params[n + 1])
    BY <1>2, <2>1
  <2>5. Filled(g[n + 1], f[n + 1], storage)
    BY <1>4, <2>2, <2>3, <2>4, PutParamFills
  <2>6. QED
    BY <2>1, <2>5
<1>5. \A n \in 0..Len(params) : n \in T
  <2> HIDE DEF T
  <2> QED
    BY <1>0, <1>3, <1>4, Counting
<1>6. V2!BuildRequest(code, params, storage) = g[Len(params)]
  BY DEF V2!BuildRequest, g
<1>7. QED
  BY <1>0, <1>1, <1>5, <1>6

-----------------------------------------------------------------------------
(* The response                                                            *)

\* A buffer over the bytes s from which something has been taken.
TakenFrom(b, s) ==
    /\ b \in [data : Bytes, consumed : Nat, ok : BOOLEAN, out : Seq(Bytes)]
    /\ b.data = s /\ b.consumed <= Len(s)

\* What it becomes when the parameter v of the bytes s is taken.
After(b, v) ==
    [data |-> b.data, consumed |-> b.consumed + Len(V2!Encoded(v)),
     ok |-> b.ok, out |-> Append(b.out, v)]

LEMMA AfterFacts ==
    ASSUME NEW s \in Bytes, NEW b, TakenFrom(b, s), NEW v \in Bytes,
           b.consumed + Len(V2!Encoded(v)) <= Len(s)
    PROVE  /\ TakenFrom(After(b, v), s)
           /\ After(b, v).ok = b.ok
           /\ After(b, v).consumed = b.consumed + Len(V2!Encoded(v))
           /\ After(b, v).out = Append(b.out, v)
<1>1. Len(V2!Encoded(v)) \in Nat
  BY EncodedFacts DEF Bytes
<1>2. Append(b.out, v) \in Seq(Bytes)
  BY DEF TakenFrom
<1>3. QED
  BY <1>1, <1>2 DEF TakenFrom, After

\* consume_bytes() of a buffer from which nothing failed to be taken.
LEMMA ConsumeFacts ==
    ASSUME NEW s \in Bytes, NEW b, TakenFrom(b, s), b.ok, NEW n \in Nat
    PROVE  /\ TakenFrom(V2!consume_bytes(b, n), s)
           /\ IF b.consumed + n <= Len(s) THEN V2!consume_bytes(b, n).ok = TRUE
              ELSE V2!consume_bytes(b, n).ok = FALSE
           /\ V2!consume_bytes(b, n).out = b.out
           /\ b.consumed + n <= Len(s) =>
                V2!consume_bytes(b, n).consumed = b.consumed + n
<1>1. Len(s) \in Nat /\ b.consumed \in Nat
  BY DEF Bytes, TakenFrom
<1>2. V2!Left(b) = Len(s) - b.consumed
  BY DEF V2!Left, TakenFrom
<1>3. CASE b.consumed + n <= Len(s)
  <2>1. ~(V2!Left(b) < n) /\ b.consumed + n \in Nat
    BY <1>1, <1>2, <1>3
  <2>2. V2!consume_bytes(b, n) = [b EXCEPT !.consumed = b.consumed + n]
    BY <2>1 DEF V2!consume_bytes
  <2>3. QED
    BY <1>3, <2>1, <2>2 DEF TakenFrom
<1>4. CASE ~(b.consumed + n <= Len(s))
  <2>1. V2!Left(b) < n
    BY <1>1, <1>2, <1>4
  <2>2. V2!consume_bytes(b, n) = [b EXCEPT !.ok = FALSE]
    BY <2>1 DEF V2!consume_bytes
  <2> DEFINE r == [data |-> b.data, consumed |-> b.consumed,
                   ok |-> FALSE, out |-> b.out]
  <2>3. V2!consume_bytes(b, n) = r
    BY <2>2 DEF TakenFrom
  <2>4. TakenFrom(r, s) /\ r.ok = FALSE /\ r.out = b.out
    BY DEF TakenFrom
  <2> HIDE DEF r
  <2>5. QED
    BY <1>4, <2>3, <2>4
<1>5. QED
  BY <1>3, <1>4

\* read_security_v2_serialized_params() takes a parameter that is encoded where
\* the buffer stands, and only such a one.
LEMMA SerializedTakes ==
    ASSUME NEW s \in Bytes, NEW b, TakenFrom(b, s), b.ok = TRUE
    PROVE  LET taken == V2!TakeSerialized(b) IN
           /\ TakenFrom(taken, s)
           /\ taken.ok => \E v \in Bytes : /\ Lies(s, b.consumed, V2!Encoded(v))
                                           /\ taken = After(b, v)
           /\ \A v \in Bytes : Lies(s, b.consumed, V2!Encoded(v)) =>
                                 taken.ok /\ taken = After(b, v)
<1> DEFINE c == b.consumed
           header == V2!consume_bytes(b, Align)
           size == V2!Region(b, 1)[1]
           body == V2!consume_bytes(header, size)
           pad == V2!padding_size(size)
           after == V2!consume_bytes(body, pad)
           padded == V2!validate_param_padding(body, size)
           taken == V2!TakeSerialized(b)
<1>0. /\ Len(s) \in Nat /\ c \in Nat /\ b.data = s
      /\ b \in [data : Bytes, consumed : Nat, ok : BOOLEAN, out : Seq(Bytes)]
  BY DEF Bytes, TakenFrom
<1>1. /\ TakenFrom(header, s) /\ header.out = b.out
      /\ IF c + 2 <= Len(s) THEN header.ok = TRUE /\ header.consumed = c + 2
         ELSE header.ok = FALSE
  <2>0. PICK n \in Nat : n = 2
    OBVIOUS
  <2> DEFINE h == V2!consume_bytes(b, n)
  <2>1. /\ TakenFrom(h, s) /\ h.out = b.out
        /\ IF b.consumed + n <= Len(s) THEN h.ok = TRUE ELSE h.ok = FALSE
        /\ b.consumed + n <= Len(s) => h.consumed = b.consumed + n
    BY ConsumeFacts
  <2>2. header = h
    BY <2>0, V2Constants
  <2> HIDE DEF h, header
  <2>3. QED
    BY <2>0, <2>1, <2>2
<1>2. CASE ~(c + 2 <= Len(s))
  <2>1. taken = [b EXCEPT !.ok = FALSE]
    BY <1>1, <1>2 DEF V2!TakeSerialized
  <2>2. TakenFrom(taken, s) /\ taken.ok = FALSE
    BY <1>0, <2>1 DEF TakenFrom
  <2>3. \A v \in Bytes : ~Lies(s, c, V2!Encoded(v))
    BY <1>0, <1>2, EncodedLies
  <2>4. QED
    BY <2>2, <2>3
<1>3. CASE c + 2 <= Len(s)
  <2>1. /\ size = s[c + 1] /\ V2!Region(b, 2)[2] = s[c + 2]
    <3>1. c + 1 <= Len(s) /\ 1 \in 1..1 /\ 2 \in 1..2
      BY <1>0, <1>3
    <3>2. V2!Region(b, 1) = SubSeq(s, c + 1, c + 1)
          /\ V2!Region(b, 2) = SubSeq(s, c + 1, c + 2)
      BY <1>0 DEF V2!Region
    <3>3. \A k \in 1..1 : SubSeq(s, c + 1, c + 1)[k] = s[c + k]
      BY <1>0, <3>1, RegionLies
    <3>4. \A k \in 1..2 : SubSeq(s, c + 1, c + 2)[k] = s[c + k]
      BY <1>0, <1>3, RegionLies, SMTT(30)
    <3>5. QED
      BY <3>1, <3>2, <3>3, <3>4
  <2>2. s[c + 1] \in Nat /\ s[c + 2] \in Nat
    BY <1>0, <1>3 DEF Bytes
  <2>3. size \in Nat /\ pad \in Nat
    BY <2>1, <2>2, PaddingNatural
  <2> DEFINE v0 == SubSeq(s, c + 2 + 1, c + 2 + size)
             z == V2!Zeros(pad)
  <2>4. /\ header.consumed = c + 2 /\ header.data = s /\ header.ok = TRUE
        /\ TakenFrom(header, s)
    BY <1>1, <1>3 DEF TakenFrom
  <2>5. V2!Region(header, size) = v0
    BY <2>4 DEF V2!Region
  <2> HIDE DEF header, size
  <2>6. /\ TakenFrom(body, s) /\ body.out = b.out
        /\ IF c + 2 + size <= Len(s)
           THEN body.ok = TRUE /\ body.consumed = c + 2 + size
           ELSE body.ok = FALSE
    <3>1. /\ TakenFrom(body, s) /\ body.out = header.out
          /\ IF header.consumed + size <= Len(s) THEN body.ok = TRUE
             ELSE body.ok = FALSE
          /\ header.consumed + size <= Len(s) => body.consumed = header.consumed + size
      BY <2>3, <2>4, ConsumeFacts
    <3> HIDE DEF body
    <3>2. QED
      BY <1>1, <2>4, <3>1
  <2>7. taken = IF s[c + 2] # 0 THEN [b EXCEPT !.ok = FALSE]
                ELSE IF ~body.ok THEN body
                ELSE [padded EXCEPT !.out = Append(padded.out, v0)]
    <3>1. padded \in [data : Bytes, consumed : Nat, ok : BOOLEAN, out : Seq(Bytes)]
          => [padded EXCEPT !.out = Append(@, v0)]
             = [padded EXCEPT !.out = Append(padded.out, v0)]
      OBVIOUS
    <3>2. QED
      BY <2>1, <2>4, <2>5 DEF V2!TakeSerialized, header, size
  <2> HIDE DEF body, taken
  <2>8. CASE s[c + 2] # 0
    <3>1. taken = [b EXCEPT !.ok = FALSE]
      BY <2>7, <2>8
    <3>2. TakenFrom(taken, s) /\ taken.ok = FALSE
      BY <1>0, <3>1 DEF TakenFrom
    <3>3. \A v \in Bytes : ~Lies(s, c, V2!Encoded(v))
      BY <1>0, <2>8, EncodedLies
    <3>4. QED
      BY <3>2, <3>3 DEF taken
  <2>9. CASE s[c + 2] = 0 /\ ~(c + 2 + size <= Len(s))
    <3>1. taken = body /\ taken.ok = FALSE /\ TakenFrom(taken, s)
      BY <2>6, <2>7, <2>9
    <3>2. ASSUME NEW v \in Bytes, Lies(s, c, V2!Encoded(v)) PROVE FALSE
      <4>1. s[c + 1] = Len(v) /\ Lies(s, c + 2, v)
        BY <1>0, <3>2, EncodedLies
      <4>2. QED
        BY <2>1, <2>9, <4>1 DEF Lies
    <3>3. QED
      BY <3>1, <3>2 DEF taken
  <2>10. CASE s[c + 2] = 0 /\ c + 2 + size <= Len(s)
    <3>1. /\ body.ok = TRUE /\ body.consumed = c + 2 + size /\ body.data = s
          /\ TakenFrom(body, s)
      BY <2>6, <2>10 DEF TakenFrom
    <3>2. /\ v0 \in Bytes /\ Len(v0) = size /\ Lies(s, c + 2, v0)
      <4>1. c + 2 \in Nat
        BY <1>0
      <4>2. QED
        BY <2>3, <2>10, <4>1, RegionLies
    <3>3. /\ TakenFrom(after, s) /\ after.out = b.out
          /\ IF c + 2 + size + pad <= Len(s)
             THEN after.ok = TRUE /\ after.consumed = c + 2 + size + pad
             ELSE after.ok = FALSE
      <4>1. /\ TakenFrom(after, s) /\ after.out = body.out
            /\ IF body.consumed + pad <= Len(s) THEN after.ok = TRUE
               ELSE after.ok = FALSE
            /\ body.consumed + pad <= Len(s) => after.consumed = body.consumed + pad
        BY <2>3, <3>1, ConsumeFacts
      <4> HIDE DEF after
      <4>2. QED
        BY <2>6, <3>1, <4>1
    <3>4. V2!Region(body, pad) = SubSeq(s, c + 2 + size + 1, c + 2 + size + pad)
      BY <3>1 DEF V2!Region
    <3>5. padded = IF after.ok /\ V2!Region(body, pad) # z
                   THEN [body EXCEPT !.ok = FALSE] ELSE after
      BY DEF V2!validate_param_padding
    <3>6. z \in Bytes /\ Len(z) = pad
      BY <2>3, ZeroBytes
    <3>7. c + 2 + size \in Nat
      BY <1>0, <2>3
    <3>8. /\ V2!Encoded(v0) \in Bytes /\ Len(V2!Encoded(v0)) = 2 + size + pad
          /\ Lies(s, c, V2!Encoded(v0)) <=> Lies(s, c + 2 + size, z)
      <4> HIDE DEF v0
      <4>1. /\ V2!Encoded(v0) \in Bytes
            /\ Len(V2!Encoded(v0)) = 2 + Len(v0) + V2!padding_size(Len(v0))
        BY <3>2, EncodedFacts
      <4>2. Lies(s, c, V2!Encoded(v0)) <=>
              /\ c + 2 <= Len(s) /\ s[c + 1] = Len(v0) /\ s[c + 2] = 0
              /\ Lies(s, c + 2, v0)
              /\ Lies(s, c + 2 + Len(v0), V2!Zeros(V2!padding_size(Len(v0))))
        BY <1>0, <3>2, EncodedLies
      <4>3. QED
        BY <1>3, <2>1, <2>10, <3>2, <4>1, <4>2
    <3>9. taken = [padded EXCEPT !.out = Append(padded.out, v0)]
      BY <2>7, <2>10, <3>1
    <3> HIDE DEF after, padded, v0, z, pad
    <3>10. ASSUME NEW v \in Bytes, Lies(s, c, V2!Encoded(v)) PROVE v = v0
      <4>1. Lies(s, c + 2, v) /\ Len(v) = size
        BY <1>0, <2>1, <3>10, EncodedLies
      <4>2. c + 2 \in Nat
        BY <1>0
      <4>3. SubSeq(s, c + 2 + 1, c + 2 + Len(v)) = v
        BY <4>1, <4>2, LiesIsRegion
      <4>4. QED
        BY <4>1, <4>3 DEF v0
    <3>11. CASE Lies(s, c + 2 + size, z)
      <4>1. c + 2 + size + pad <= Len(s)
        BY <3>6, <3>11 DEF Lies
      <4>2. V2!Region(body, pad) = z
        BY <3>4, <3>6, <3>7, <3>11, LiesIsRegion
      <4>3. padded = after /\ after.ok = TRUE /\ after.consumed = c + 2 + size + pad
        BY <3>3, <3>5, <4>1, <4>2
      <4>4. c + (2 + size + pad) = c + 2 + size + pad
        BY <1>0, <2>3
      <4>5. taken = After(b, v0)
        <5>1. after \in [data : Bytes, consumed : Nat, ok : BOOLEAN, out : Seq(Bytes)]
              /\ after.data = s
          BY <3>3 DEF TakenFrom
        <5>2. taken = [data |-> s, consumed |-> after.consumed, ok |-> TRUE,
                       out |-> Append(after.out, v0)]
          BY <3>9, <4>3, <5>1
        <5>3. QED
          BY <1>0, <3>3, <3>8, <4>3, <4>4, <5>2 DEF After
      <4>6. TakenFrom(taken, s) /\ taken.ok = TRUE
        BY <3>2, <3>8, <4>1, <4>4, <4>5, AfterFacts
      <4>7. QED
        BY <3>2, <3>8, <3>10, <3>11, <4>5, <4>6 DEF taken
    <3>12. CASE ~Lies(s, c + 2 + size, z)
      <4>1. padded.ok = FALSE /\ TakenFrom(padded, s)
        <5>1. CASE c + 2 + size + pad <= Len(s)
          <6>1. Lies(s, c + 2 + size, SubSeq(s, c + 2 + size + 1, c + 2 + size + pad))
            BY <2>3, <3>7, <5>1, RegionLies DEF pad
          <6>2. V2!Region(body, pad) # z
            BY <3>4, <3>12, <6>1
          <6>3. padded = [body EXCEPT !.ok = FALSE]
            BY <3>3, <3>5, <5>1, <6>2
          <6>4. QED
            BY <3>1, <6>3 DEF TakenFrom
        <5>2. CASE ~(c + 2 + size + pad <= Len(s))
          BY <3>3, <3>5, <5>2
        <5>3. QED
          BY <5>1, <5>2
      <4>2. taken.ok = FALSE /\ TakenFrom(taken, s)
        <5>1. padded.out \in Seq(Bytes) /\ Append(padded.out, v0) \in Seq(Bytes)
          BY <3>2, <4>1 DEF TakenFrom
        <5>2. QED
          BY <3>9, <4>1, <5>1 DEF TakenFrom
      <4>3. QED
        BY <3>8, <3>10, <3>12, <4>2 DEF taken
    <3>13. QED
      BY <3>11, <3>12
  <2>11. QED
    BY <2>8, <2>9, <2>10
<1>4. QED
  BY <1>2, <1>3

LEMMA OneByte ==
    ASSUME NEW s \in Bytes, NEW c \in Nat, c + 1 <= Len(s), NEW x \in Nat
    PROVE  SubSeq(s, c + 1, c + 1) = <<x>> <=> s[c + 1] = x
<1>1. 1 \in 1..1 /\ \A k \in 1..1 : k = 1
  OBVIOUS
<1> DEFINE region == SubSeq(s, c + 1, c + 1)
<1>2. /\ region \in Bytes /\ Len(region) = 1
      /\ \A k \in 1..1 : region[k] = s[c + k]
  <2>1. PICK n \in Nat : n = 1
    OBVIOUS
  <2>2. c + n <= Len(s)
    BY <2>1
  <2>3. LET r == SubSeq(s, c + 1, c + n) IN
        r \in Bytes /\ Len(r) = n /\ \A k \in 1..n : r[k] = s[c + k]
    BY <2>2, RegionLies
  <2>4. QED
    BY <2>1, <2>3
<1> HIDE DEF region
<1>3. region[1] = s[c + 1] /\ <<x>> \in Bytes /\ Len(<<x>>) = 1 /\ <<x>>[1] = x
  BY <1>1, <1>2 DEF Bytes
<1>4. ASSUME s[c + 1] = x PROVE region = <<x>>
  <2> DEFINE e == <<x>>
  <2>1. e \in Bytes /\ Len(e) = 1 /\ \A k \in 1..1 : region[k] = e[k]
    BY <1>1, <1>3, <1>4
  <2> HIDE DEF e
  <2>2. region = e
    BY <1>2, <2>1, SeqEqual DEF Bytes
  <2>3. QED
    BY <2>2 DEF e
<1>5. QED
  BY <1>3, <1>4 DEF region

\* htool_exec_security_v2_cmd() takes a parameter whose header has the size asked
\* for, if there are bytes for it and its padding.
LEMMA FixedTakes ==
    ASSUME NEW s \in Bytes, NEW b, TakenFrom(b, s), b.ok = TRUE, NEW size \in Nat
    PROVE  LET taken == V2!TakeFixed(b, size)
               pad == V2!padding_size(size)
               v == SubSeq(s, b.consumed + 2 + 1, b.consumed + 2 + size)
           IN  /\ TakenFrom(taken, s)
               /\ IF /\ b.consumed + 2 + size + pad <= Len(s)
                     /\ s[b.consumed + 1] = size
                  THEN /\ v \in Bytes /\ Len(v) = size
                       /\ taken.ok = TRUE /\ taken = After(b, v)
                  ELSE taken.ok = FALSE
<1> DEFINE c == b.consumed
           pad == V2!padding_size(size)
           header == V2!consume_bytes(b, Align)
           body == V2!consume_bytes(header, size + pad)
           v == SubSeq(s, c + 2 + 1, c + 2 + size)
           taken == V2!TakeFixed(b, size)
           refused == [b EXCEPT !.ok = FALSE]
<1>0. /\ Len(s) \in Nat /\ c \in Nat /\ b.data = s /\ pad \in Nat
      /\ b \in [data : Bytes, consumed : Nat, ok : BOOLEAN, out : Seq(Bytes)]
  <2>1. b \in [data : Bytes, consumed : Nat, ok : BOOLEAN, out : Seq(Bytes)]
        /\ b.data = s
    BY DEF TakenFrom
  <2>2. Len(s) \in Nat
    BY DEF Bytes
  <2>3. c \in Nat
    BY <2>1
  <2>4. pad \in Nat
    BY PaddingNatural
  <2>5. QED
    BY <2>1, <2>2, <2>3, <2>4
<1>1. /\ TakenFrom(header, s) /\ header.out = b.out
      /\ IF c + 2 <= Len(s) THEN header.ok = TRUE /\ header.consumed = c + 2
         ELSE header.ok = FALSE
  <2>0. PICK n \in Nat : n = 2
    OBVIOUS
  <2> DEFINE h == V2!consume_bytes(b, n)
  <2>1. /\ TakenFrom(h, s) /\ h.out = b.out
        /\ IF b.consumed + n <= Len(s) THEN h.ok = TRUE ELSE h.ok = FALSE
        /\ b.consumed + n <= Len(s) => h.consumed = b.consumed + n
    BY ConsumeFacts
  <2>2. header = h
    BY <2>0, V2Constants
  <2> HIDE DEF h, header
  <2>3. QED
    BY <2>0, <2>1, <2>2
<1>2. TakenFrom(refused, s) /\ refused.ok = FALSE
  BY <1>0 DEF TakenFrom
<1>3. CASE ~(c + 2 <= Len(s))
  <2>1. taken = refused
    BY <1>1, <1>3 DEF V2!TakeFixed
  <2>2. ~(c + 2 + size + pad <= Len(s))
    BY <1>0, <1>3
  <2> HIDE DEF taken, refused, v, pad
  <2>3. QED
    BY <1>2, <2>1, <2>2 DEF taken, v, pad
<1>4. CASE c + 2 <= Len(s)
  <2>1. V2!Region(b, 1) = <<size>> <=> s[c + 1] = size
    <3>1. c + 1 <= Len(s)
      BY <1>0, <1>4
    <3>2. V2!Region(b, 1) = SubSeq(s, c + 1, c + 1)
      BY <1>0 DEF V2!Region
    <3>3. SubSeq(s, c + 1, c + 1) = <<size>> <=> s[c + 1] = size
      BY <1>0, <3>1, OneByte
    <3>4. QED
      BY <3>2, <3>3
  <2>2. /\ header.consumed = c + 2 /\ header.data = s /\ header.ok = TRUE
        /\ TakenFrom(header, s) /\ header.out = b.out
    BY <1>1, <1>4 DEF TakenFrom
  <2>3. V2!Region(header, size) = v
    BY <2>2 DEF V2!Region
  <2>4. taken = IF V2!Region(b, 1) # <<size>> \/ ~body.ok THEN refused
                ELSE [body EXCEPT !.out = Append(body.out, v)]
    BY <2>2, <2>3 DEF V2!TakeFixed
  <2> HIDE DEF header, taken
  <2>5. size + pad \in Nat /\ (c + 2) + (size + pad) = c + 2 + size + pad
    BY <1>0
  <2>6. /\ TakenFrom(body, s) /\ body.out = header.out
        /\ IF header.consumed + (size + pad) <= Len(s) THEN body.ok = TRUE
           ELSE body.ok = FALSE
        /\ header.consumed + (size + pad) <= Len(s) =>
              body.consumed = header.consumed + (size + pad)
    <3> HIDE DEF pad
    <3> QED
      BY <2>2, <2>5, ConsumeFacts
  <2> HIDE DEF body
  <2>7. /\ TakenFrom(body, s) /\ body.out = b.out
        /\ IF c + 2 + size + pad <= Len(s)
           THEN body.ok = TRUE /\ body.consumed = c + 2 + size + pad
           ELSE body.ok = FALSE
    <3> HIDE DEF pad
    <3> QED
      BY <2>2, <2>5, <2>6
  <2>8. CASE c + 2 + size + pad <= Len(s) /\ s[c + 1] = size
    <3>1. v \in Bytes /\ Len(v) = size
      <4>1. c + 2 \in Nat /\ c + 2 + size <= Len(s)
        BY <1>0, <2>8
      <4>2. QED
        BY <4>1, RegionLies
    <3> HIDE DEF v
    <3>2. Len(V2!Encoded(v)) = 2 + size + pad
      BY <3>1, EncodedFacts
    <3> HIDE DEF pad
    <3>3. taken = [body EXCEPT !.out = Append(body.out, v)]
      BY <2>1, <2>4, <2>7, <2>8
    <3>4. /\ body \in [data : Bytes, consumed : Nat, ok : BOOLEAN, out : Seq(Bytes)]
          /\ body.data = s /\ body.ok = TRUE /\ body.out = b.out
          /\ body.consumed = c + 2 + size + pad
      BY <2>7, <2>8 DEF TakenFrom
    <3>5. taken = [data |-> s, consumed |-> body.consumed, ok |-> TRUE,
                   out |-> Append(b.out, v)]
      BY <3>3, <3>4
    <3>6. c + (2 + size + pad) = c + 2 + size + pad
      BY <1>0 DEF pad
    <3>7. taken = After(b, v)
      BY <1>0, <3>2, <3>4, <3>5, <3>6 DEF After
    <3>8. TakenFrom(taken, s) /\ taken.ok = TRUE
      BY <2>8, <3>1, <3>2, <3>6, <3>7, AfterFacts
    <3>9. QED
      BY <2>8, <3>1, <3>7, <3>8 DEF taken, v, pad
  <2>9. CASE ~(c + 2 + size + pad <= Len(s) /\ s[c + 1] = size)
    <3>1. taken = refused
      BY <2>1, <2>4, <2>7, <2>9
    <3> HIDE DEF refused
    <3>2. QED
      BY <1>2, <2>9, <3>1 DEF taken
  <2>10. QED
    BY <2>8, <2>9
<1>5. QED
  BY <1>3, <1>4

\* Where both take a parameter, they take the same.
LEMMA TakesAgree ==
    ASSUME NEW s \in Bytes, NEW b, TakenFrom(b, s), b.ok = TRUE,
           NEW size \in Nat, V2!TakeSerialized(b).ok
    PROVE  LET fx == V2!TakeFixed(b, size)
               sr == V2!TakeSerialized(b)
           IN  \E v \in Bytes :
                 /\ sr = After(b, v)
                 /\ Lies(s, b.consumed, V2!Encoded(v))
                 /\ Len(v) = size => fx = sr /\ fx.ok = TRUE
                 /\ fx.ok => Len(v) = size
<1> DEFINE c == b.consumed
           fx == V2!TakeFixed(b, size)
           sr == V2!TakeSerialized(b)
           pad == V2!padding_size(size)
           w == SubSeq(s, c + 2 + 1, c + 2 + size)
<1>1. PICK v \in Bytes : Lies(s, c, V2!Encoded(v)) /\ sr = After(b, v)
  BY SerializedTakes
<1>2. /\ IF c + 2 + size + pad <= Len(s) /\ s[c + 1] = size
         THEN fx.ok = TRUE /\ fx = After(b, w)
         ELSE fx.ok = FALSE
  BY FixedTakes
<1>3. c \in Nat /\ Len(s) \in Nat
  BY DEF TakenFrom, Bytes
<1>4. /\ s[c + 1] = Len(v) /\ Lies(s, c + 2, v)
      /\ Lies(s, c + 2 + Len(v), V2!Zeros(V2!padding_size(Len(v))))
  BY <1>1, <1>3, EncodedLies
<1>5. pad \in Nat /\ Len(V2!Zeros(pad)) = pad
  BY PaddingNatural, ZeroBytes
<1> HIDE DEF fx, sr, pad
<1>6. fx.ok => Len(v) = size
  BY <1>2, <1>4
<1>7. ASSUME Len(v) = size PROVE fx = sr /\ fx.ok = TRUE
  <2>1. c + 2 + size + pad <= Len(s)
    BY <1>4, <1>5, <1>7 DEF Lies, pad
  <2>2. w = v
    <3>1. c + 2 \in Nat
      BY <1>3
    <3>2. SubSeq(s, c + 2 + 1, c + 2 + Len(v)) = v
      BY <1>4, <3>1, LiesIsRegion
    <3>3. QED
      BY <1>7, <3>2
  <2> HIDE DEF w
  <2>3. QED
    BY <1>1, <1>2, <1>4, <1>7, <2>1, <2>2
<1>8. QED
  BY <1>1, <1>6, <1>7 DEF fx, sr

\* The frame of some parameters and one more.
LEMMA FramesAgree ==
    ASSUME NEW a \in Nat, NEW b \in Nat, NEW p \in Seq(Bytes), NEW q \in Seq(Bytes),
           NEW k \in Nat, k <= Len(p), k <= Len(q), \A i \in 1..k : p[i] = q[i]
    PROVE  \A n \in 0..k : V2!Frames(a, b, p)[n] = V2!Frames(a, b, q)[n]
<1> DEFINE f == V2!Frames(a, b, p)
           g == V2!Frames(a, b, q)
           T == {n \in 0..k : f[n] = g[n]}
<1>1. /\ f[0] = <<a, b>>
      /\ \A n \in 1..Len(p) : f[n] = f[n - 1] \o V2!Encoded(p[n])
  BY FramesAre
<1>2. /\ g[0] = <<a, b>>
      /\ \A n \in 1..Len(q) : g[n] = g[n - 1] \o V2!Encoded(q[n])
  BY FramesAre
<1> HIDE DEF f, g
<1>3. 0 \in T
  <2>1. 0 \in 0..k /\ f[0] = g[0]
    BY <1>1, <1>2
  <2>2. QED
    BY <2>1
<1>4. ASSUME NEW n \in 0..(k - 1), n \in T PROVE n + 1 \in T
  <2>1. /\ n + 1 \in 1..Len(p) /\ n + 1 \in 1..Len(q) /\ n + 1 \in 1..k
        /\ n + 1 \in 0..k /\ (n + 1) - 1 = n
    OBVIOUS
  <2>2. f[n + 1] = f[n] \o V2!Encoded(p[n + 1])
    BY <1>1, <2>1
  <2>3. g[n + 1] = g[n] \o V2!Encoded(q[n + 1])
    BY <1>2, <2>1
  <2>4. f[n] = g[n] /\ p[n + 1] = q[n + 1]
    BY <1>4, <2>1
  <2>5. QED
    BY <2>1, <2>2, <2>3, <2>4
<1>5. \A n \in 0..k : n \in T
  <2> HIDE DEF T
  <2> QED
    BY <1>3, <1>4, Counting
<1>6. QED
  BY <1>5 DEF f, g

LEMMA FrameAppend ==
    ASSUME NEW a \in Nat, NEW b \in Nat, NEW p \in Seq(Bytes), NEW v \in Bytes
    PROVE  V2!Frame(a, b, Append(p, v)) = V2!Frame(a, b, p) \o V2!Encoded(v)
<1> DEFINE q == Append(p, v)
<1>1. /\ q \in Seq(Bytes) /\ Len(q) = Len(p) + 1
      /\ \A i \in 1..Len(p) : q[i] = p[i]
      /\ q[Len(p) + 1] = v
  BY AppendProperties
<1>2. Len(p) \in Nat
  OBVIOUS
<1> HIDE DEF q
<1>3. V2!Frames(a, b, q)[Len(p)] = V2!Frames(a, b, p)[Len(p)]
  <2>1. Len(p) <= Len(p) /\ Len(p) <= Len(q) /\ Len(p) \in 0..Len(p)
    BY <1>1, <1>2
  <2>2. \A n \in 0..Len(p) : V2!Frames(a, b, q)[n] = V2!Frames(a, b, p)[n]
    BY <1>1, <1>2, <2>1, FramesAgree, SMTT(30)
  <2>3. QED
    BY <2>1, <2>2
<1> DEFINE g == V2!Frames(a, b, q)
           m == Len(p) + 1
<1>4. m \in 1..Len(q) /\ m - 1 = Len(p)
  BY <1>1, <1>2
<1>5. \A n \in 1..Len(q) : g[n] = g[n - 1] \o V2!Encoded(q[n])
  BY <1>1, FramesAre
<1> HIDE DEF g
<1>6. g[m] = g[Len(p)] \o V2!Encoded(v)
  BY <1>1, <1>4, <1>5
<1>7. V2!Frame(a, b, q) = g[m]
  BY <1>1 DEF V2!Frame, g
<1>8. V2!Frame(a, b, p) = g[Len(p)]
  BY <1>3 DEF V2!Frame, g
<1>9. QED
  BY <1>6, <1>7, <1>8 DEF q

LEMMA FrameBytes ==
    ASSUME NEW a \in Nat, NEW b \in Nat, NEW p \in Seq(Bytes)
    PROVE  /\ V2!Frame(a, b, p) \in Bytes
           /\ Len(p) = 0 => V2!Frame(a, b, p) = <<a, b>>
<1>1. Len(p) \in 0..Len(p)
  OBVIOUS
<1> DEFINE f == V2!Frames(a, b, p)
<1>2. /\ V2!Frame(a, b, p) = f[Len(p)] /\ f[0] = <<a, b>>
      /\ \A n \in 0..Len(p) : f[n] \in Bytes
  BY FramesGrow
<1> HIDE DEF f
<1>3. QED
  BY <1>1, <1>2

\* Nothing more is taken when something could not be.
LEMMA RefusedStays ==
    ASSUME NEW s \in Bytes, NEW b, TakenFrom(b, s), b.ok = FALSE, NEW size
    PROVE  /\ TakenFrom(V2!TakeSerialized(b), s) /\ V2!TakeSerialized(b).ok = FALSE
           /\ TakenFrom(V2!TakeFixed(b, size), s) /\ V2!TakeFixed(b, size).ok = FALSE
<1>1. V2!TakeSerialized(b) = [b EXCEPT !.ok = FALSE]
  BY DEF V2!TakeSerialized
<1>2. V2!TakeFixed(b, size) = [b EXCEPT !.ok = FALSE]
  BY DEF V2!TakeFixed
<1>3. QED
  BY <1>1, <1>2 DEF TakenFrom

\* The header of the response.
LEMMA HeaderTaken ==
    ASSUME NEW s \in Bytes
    PROVE  LET header == V2!consume_bytes(V2!Buffer(s), Align) IN
           /\ TakenFrom(header, s) /\ header.out = <<>>
           /\ IF 2 <= Len(s) THEN header.ok = TRUE /\ header.consumed = 2
              ELSE header.ok = FALSE
<1> DEFINE b == V2!Buffer(s)
           header == V2!consume_bytes(b, Align)
<1>1. /\ TakenFrom(b, s) /\ b.ok = TRUE /\ b.consumed = 0 /\ b.out = <<>>
  <2>1. Len(s) \in Nat /\ <<>> \in Seq(Bytes)
    BY DEF Bytes
  <2>2. QED
    BY <2>1 DEF V2!Buffer, TakenFrom
<1> HIDE DEF b
<1>2. PICK n \in Nat : n = 2
  OBVIOUS
<1> DEFINE h == V2!consume_bytes(b, n)
<1>3. /\ TakenFrom(h, s) /\ h.out = b.out
      /\ IF b.consumed + n <= Len(s) THEN h.ok = TRUE ELSE h.ok = FALSE
      /\ b.consumed + n <= Len(s) => h.consumed = b.consumed + n
  BY <1>1, ConsumeFacts
<1>4. header = h
  BY <1>2, V2Constants
<1> HIDE DEF h, header
<1>5. QED
  BY <1>1, <1>2, <1>3, <1>4 DEF header, b

\* What has been taken so far, i parameters, is the frame up to there.
FramedUpTo(b, s, count, i) ==
    /\ TakenFrom(b, s)
    /\ b.ok => /\ Len(b.out) = i
               /\ Lies(s, 0, V2!Frame(count, 0, b.out))
               /\ b.consumed = Len(V2!Frame(count, 0, b.out))

LEMMA SerializedStages ==
    ASSUME NEW s \in Bytes, NEW count \in Nat, NEW header, TakenFrom(header, s),
           header.ok = TRUE, header.consumed = 2, header.out = <<>>,
           Lies(s, 0, <<count, 0>>)
    PROVE  \A i \in 0..count :
              FramedUpTo(V2!TakingSerialized(header, count)[i], s, count, i)
<1> DEFINE sr == V2!TakingSerialized(header, count)
           Framed(b, i) == /\ TakenFrom(b, s)
                           /\ b.ok => /\ Len(b.out) = i
                                      /\ Lies(s, 0, V2!Frame(count, 0, b.out))
                                      /\ b.consumed = Len(V2!Frame(count, 0, b.out))
           T == {i \in 0..count : Framed(sr[i], i)}
<1>1. /\ sr[0] = header
      /\ \A i \in 1..count : sr[i] = V2!TakeSerialized(sr[i - 1])
  BY TakingSerializedIs
<1> HIDE DEF sr
<1>2. 0 \in T
  <2>1. <<>> \in Seq(Bytes) /\ Len(<<>>) = 0
    OBVIOUS
  <2>2. V2!Frame(count, 0, <<>>) = <<count, 0>>
    <3>1. \A p \in Seq(Bytes) : Len(p) = 0 => V2!Frame(count, 0, p) = <<count, 0>>
      BY FrameBytes
    <3>2. QED
      BY <2>1, <3>1
  <2>3. Len(<<count, 0>>) = 2
    OBVIOUS
  <2>4. Framed(header, 0)
    BY <2>1, <2>2, <2>3
  <2> HIDE DEF Framed
  <2>5. QED
    BY <1>1, <2>4
<1>3. ASSUME NEW i \in 0..(count - 1), i \in T PROVE i + 1 \in T
  <2> DEFINE b == sr[i]
             t == sr[i + 1]
  <2>1. i + 1 \in 1..count /\ i + 1 \in 0..count /\ (i + 1) - 1 = i
    OBVIOUS
  <2>2. t = V2!TakeSerialized(b)
    BY <1>1, <2>1
  <2>3. Framed(b, i)
    BY <1>3
  <2> HIDE DEF b, t
  <2>4. TakenFrom(b, s) /\ b.ok \in BOOLEAN /\ b.out \in Seq(Bytes)
    BY <2>3 DEF TakenFrom
  <2>5. CASE b.ok = FALSE
    <3>1. TakenFrom(t, s) /\ t.ok = FALSE
      BY <2>2, <2>4, <2>5, RefusedStays
    <3>2. QED
      BY <2>1, <3>1 DEF t
  <2>6. CASE b.ok = TRUE
    <3> DEFINE f == V2!Frame(count, 0, b.out)
    <3>1. /\ Len(b.out) = i /\ Lies(s, 0, f) /\ b.consumed = Len(f)
      BY <2>3, <2>6
    <3>2. /\ TakenFrom(t, s)
          /\ t.ok => \E v \in Bytes : Lies(s, b.consumed, V2!Encoded(v))
                                      /\ t = After(b, v)
      BY <2>2, <2>4, <2>6, SerializedTakes
    <3>3. ASSUME t.ok PROVE Framed(t, i + 1)
      <4>1. PICK v \in Bytes : Lies(s, b.consumed, V2!Encoded(v)) /\ t = After(b, v)
        BY <3>2, <3>3
      <4>2. f \in Bytes /\ V2!Encoded(v) \in Bytes
        BY <2>4, FrameBytes, EncodedFacts
      <4>3. t.out = Append(b.out, v)
            /\ t.consumed = b.consumed + Len(V2!Encoded(v))
        BY <4>1 DEF After
      <4>4. V2!Frame(count, 0, t.out) = f \o V2!Encoded(v)
        <5>1. \A z \in Nat : V2!Frame(count, z, Append(b.out, v))
                              = V2!Frame(count, z, b.out) \o V2!Encoded(v)
          BY <2>4, FrameAppend
        <5>2. QED
          BY <4>3, <5>1
      <4>5. Len(t.out) = i + 1
        BY <2>4, <3>1, <4>3
      <4> DEFINE e == V2!Encoded(v)
      <4> HIDE DEF f, e
      <4>6. /\ Len(f \o e) = Len(f) + Len(e)
            /\ Lies(s, 0, f \o e) <=> Lies(s, 0, f) /\ Lies(s, 0 + Len(f), e)
        BY <4>2, LiesBoth DEF e
      <4>7. 0 + Len(f) = Len(f)
        BY <4>2 DEF Bytes
      <4>8. Lies(s, 0, f \o e) /\ t.consumed = Len(f \o e)
        BY <3>1, <4>1, <4>3, <4>6, <4>7 DEF e
      <4>9. QED
        BY <3>2, <4>4, <4>5, <4>8 DEF e
    <3>4. Framed(t, i + 1)
      BY <3>2, <3>3
    <3> HIDE DEF Framed
    <3>5. QED
      BY <2>1, <3>4 DEF t
  <2>7. QED
    BY <2>4, <2>5, <2>6
<1>4. \A i \in 0..count : i \in T
  <2> HIDE DEF T
  <2> QED
    BY <1>2, <1>3, Counting
<1>5. QED
  BY <1>4 DEF sr, FramedUpTo

\* Every beginning of a frame lies where the frame lies.
LEMMA BeginningsLie ==
    ASSUME NEW s \in Bytes, NEW a \in Nat, NEW b \in Nat, NEW p \in Seq(Bytes),
           Lies(s, 0, V2!Frame(a, b, p))
    PROVE  LET f == V2!Frames(a, b, p) IN
           /\ Lies(s, 0, <<a, b>>)
           /\ \A n \in 1..Len(p) : Lies(s, Len(f[n - 1]), V2!Encoded(p[n]))
<1> DEFINE f == V2!Frames(a, b, p)
           T == {k \in 0..Len(p) : Lies(s, 0, f[Len(p) - k])}
<1>0. Len(p) \in Nat
  OBVIOUS
<1>1. /\ V2!Frame(a, b, p) = f[Len(p)] /\ f[0] = <<a, b>>
      /\ \A n \in 0..Len(p) : f[n] \in Bytes /\ Len(f[n]) \in Nat
      /\ \A n \in 1..Len(p) : /\ p[n] \in Bytes
                              /\ f[n] = f[n - 1] \o V2!Encoded(p[n])
  BY FramesGrow
<1> HIDE DEF f
<1>2. ASSUME NEW n \in 1..Len(p)
      PROVE  Lies(s, 0, f[n]) <=> /\ Lies(s, 0, f[n - 1])
                                  /\ Lies(s, Len(f[n - 1]), V2!Encoded(p[n]))
  <2>1. n - 1 \in 0..Len(p)
    BY <1>0
  <2> DEFINE g == f[n - 1]
             e == V2!Encoded(p[n])
  <2>2. g \in Bytes /\ Len(g) \in Nat /\ e \in Bytes /\ f[n] = g \o e
    BY <1>1, <2>1, EncodedFacts
  <2> HIDE DEF g, e
  <2>3. Lies(s, 0, g \o e) <=> Lies(s, 0, g) /\ Lies(s, 0 + Len(g), e)
    BY <2>2, LiesBoth
  <2>4. 0 + Len(g) = Len(g)
    BY <2>2
  <2>5. QED
    BY <2>2, <2>3, <2>4 DEF g, e
<1>3. 0 \in T
  <2>1. Len(p) - 0 = Len(p) /\ 0 \in 0..Len(p)
    BY <1>0
  <2>2. QED
    BY <1>1, <2>1
<1>4. ASSUME NEW k \in 0..(Len(p) - 1), k \in T PROVE k + 1 \in T
  <2>1. /\ Len(p) - k \in 1..Len(p) /\ k + 1 \in 0..Len(p)
        /\ (Len(p) - k) - 1 = Len(p) - (k + 1)
    BY <1>0
  <2>2. Lies(s, 0, f[Len(p) - k])
    BY <1>4
  <2>3. Lies(s, 0, f[Len(p) - (k + 1)])
    BY <1>2, <2>1, <2>2
  <2>4. QED
    BY <2>1, <2>3
<1>5. \A k \in 0..Len(p) : k \in T
  <2> HIDE DEF T
  <2> QED
    BY <1>0, <1>3, <1>4, Counting
<1>6. ASSUME NEW n \in 0..Len(p) PROVE Lies(s, 0, f[n])
  <2>1. Len(p) - n \in 0..Len(p) /\ Len(p) - (Len(p) - n) = n
    BY <1>0
  <2>2. Lies(s, 0, f[Len(p) - (Len(p) - n)])
    BY <1>5, <2>1
  <2>3. QED
    BY <2>1, <2>2
<1>7. ASSUME NEW n \in 1..Len(p) PROVE Lies(s, Len(f[n - 1]), V2!Encoded(p[n]))
  <2>1. n \in 0..Len(p)
    BY <1>0
  <2>2. QED
    BY <1>2, <1>6, <2>1
<1>8. Lies(s, 0, <<a, b>>)
  <2>1. 0 \in 0..Len(p)
    BY <1>0
  <2>2. QED
    BY <1>1, <1>6, <2>1
<1>9. QED
  BY <1>7, <1>8 DEF f

\* A frame that is there is taken.
LEMMA FrameIsTaken ==
    ASSUME NEW s \in Bytes, NEW count \in Nat, NEW header, TakenFrom(header, s),
           header.ok = TRUE, header.consumed = 2,
           NEW p \in Seq(Bytes), Len(p) = count, Lies(s, 0, V2!Frame(count, 0, p))
    PROVE  V2!TakingSerialized(header, count)[count].ok
<1> DEFINE sr == V2!TakingSerialized(header, count)
           f == V2!Frames(count, 0, p)
           Whole(i) == /\ TakenFrom(sr[i], s) /\ sr[i].ok = TRUE
                      /\ sr[i].consumed = Len(f[i])
           T == {i \in 0..count : Whole(i)}
<1>1. /\ sr[0] = header
      /\ \A i \in 1..count : sr[i] = V2!TakeSerialized(sr[i - 1])
  BY TakingSerializedIs
<1>2. /\ f[0] = <<count, 0>>
      /\ \A n \in 1..count : /\ p[n] \in Bytes
                             /\ Len(f[n]) = Len(f[n - 1]) + Len(V2!Encoded(p[n]))
  <2>1. \A z \in Nat :
          LET g == V2!Frames(count, z, p) IN
          /\ g[0] = <<count, z>>
          /\ \A n \in 1..Len(p) : /\ p[n] \in Bytes
                                  /\ Len(g[n]) = Len(g[n - 1]) + Len(V2!Encoded(p[n]))
    BY FramesGrow, ZenonT(40)
  <2>2. QED
    BY <2>1
<1>3. \A n \in 1..count : Lies(s, Len(f[n - 1]), V2!Encoded(p[n]))
  BY BeginningsLie
<1> HIDE DEF sr, f
<1>4. 0 \in T
  <2>1. Len(f[0]) = 2 /\ 0 \in 0..count
    BY <1>2
  <2>2. QED
    BY <1>1, <2>1
<1>5. ASSUME NEW i \in 0..(count - 1), i \in T PROVE i + 1 \in T
  <2>1. i + 1 \in 1..count /\ i + 1 \in 0..count /\ (i + 1) - 1 = i
    OBVIOUS
  <2> DEFINE b == sr[i]
             t == sr[i + 1]
             v == p[i + 1]
  <2>2. /\ t = V2!TakeSerialized(b) /\ v \in Bytes
        /\ Len(f[i + 1]) = Len(f[i]) + Len(V2!Encoded(v))
        /\ Lies(s, Len(f[i]), V2!Encoded(v))
    <3>1. t = V2!TakeSerialized(b)
      BY <1>1, <2>1
    <3>2. v \in Bytes /\ Len(f[i + 1]) = Len(f[i]) + Len(V2!Encoded(v))
      BY <1>2, <2>1
    <3>3. Lies(s, Len(f[i]), V2!Encoded(v))
      BY <1>3, <2>1
    <3>4. QED
      BY <3>1, <3>2, <3>3
  <2>3. TakenFrom(b, s) /\ b.ok = TRUE /\ b.consumed = Len(f[i])
    BY <1>5
  <2> HIDE DEF b, t, v
  <2>4. Lies(s, b.consumed, V2!Encoded(v))
    BY <2>2, <2>3
  <2>5. t.ok /\ t = After(b, v) /\ TakenFrom(t, s)
    BY <2>2, <2>3, <2>4, SerializedTakes
  <2>6. t.ok = TRUE /\ t.consumed = Len(f[i + 1])
    <3>1. t.ok = b.ok /\ t.consumed = b.consumed + Len(V2!Encoded(v))
      BY <2>5 DEF After
    <3>2. QED
      BY <2>2, <2>3, <3>1
  <2>7. QED
    BY <2>1, <2>5, <2>6 DEF t
<1>6. \A i \in 0..count : i \in T
  <2> HIDE DEF T
  <2> QED
    BY <1>4, <1>5, Counting
<1>7. count \in 0..count
  OBVIOUS
<1>8. QED
  BY <1>6, <1>7 DEF sr

\* Taking parameters of given sizes: where it stands, what it has taken, and that
\* it is what the serialized variant takes.
LEMMA FixedStages ==
    ASSUME NEW s \in Bytes, NEW sizes \in Seq(Nat), NEW header, TakenFrom(header, s),
           header.ok = TRUE, header.consumed = 2, header.out = <<>>
    PROVE  LET fx == V2!TakingFixed(header, sizes)
               sr == V2!TakingSerialized(header, Len(sizes))
               ext == V2!Extents(sizes)
           IN  \A i \in 0..Len(sizes) :
                 /\ TakenFrom(fx[i], s) /\ TakenFrom(sr[i], s)
                 /\ fx[i].ok => /\ fx[i].consumed = ext[i] /\ Len(fx[i].out) = i
                                /\ \A j \in 1..i : Len(fx[i].out[j]) = sizes[j]
                 /\ sr[i].ok => Len(sr[i].out) = i
                 /\ fx[i].ok /\ sr[i].ok => fx[i] = sr[i]
                 /\ sr[i].ok /\ (\A j \in 1..i : Len(sr[i].out[j]) = sizes[j]) => fx[i].ok
<1> DEFINE fx == V2!TakingFixed(header, sizes)
           sr == V2!TakingSerialized(header, Len(sizes))
           ext == V2!Extents(sizes)
           N == Len(sizes)
           OfSize(b, i) == Len(b.out) = i /\ \A j \in 1..i : Len(b.out[j]) = sizes[j]
           Agree(f, r, i) ==
               /\ TakenFrom(f, s) /\ TakenFrom(r, s)
               /\ f.ok => f.consumed = ext[i] /\ OfSize(f, i)
               /\ r.ok => Len(r.out) = i
               /\ f.ok /\ r.ok => f = r
               /\ r.ok /\ OfSize(r, i) => f.ok
           T == {i \in 0..N : Agree(fx[i], sr[i], i)}
<1>0. N \in Nat /\ \A i \in 1..N : sizes[i] \in Nat
  OBVIOUS
<1>1. fx[0] = header /\ \A i \in 1..N : fx[i] = V2!TakeFixed(fx[i - 1], sizes[i])
  BY TakingFixedIs
<1>2. sr[0] = header /\ \A i \in 1..N : sr[i] = V2!TakeSerialized(sr[i - 1])
  BY <1>0, TakingSerializedIs
<1>3. /\ ext[0] = 2
      /\ \A i \in 1..N : ext[i] = ext[i - 1] + 2 + sizes[i] + V2!padding_size(sizes[i])
  BY V2Constants, ExtentsAre
<1> HIDE DEF fx, sr, ext, N
<1>4. 0 \in T
  <2>1. Len(<<>>) = 0 /\ 0 \in 0..N
    BY <1>0
  <2>2. Agree(header, header, 0)
    BY <1>3, <2>1
  <2> HIDE DEF Agree
  <2>3. QED
    BY <1>1, <1>2, <2>1, <2>2
<1>5. ASSUME NEW i \in 0..(N - 1), i \in T PROVE i + 1 \in T
  <2>1. i + 1 \in 1..N /\ i + 1 \in 0..N /\ (i + 1) - 1 = i /\ i \in Nat
    BY <1>0
  <2> DEFINE f == fx[i]
             r == sr[i]
             size == sizes[i + 1]
             pad == V2!padding_size(size)
             tf == V2!TakeFixed(f, size)
             tr == V2!TakeSerialized(r)
  <2>2. fx[i + 1] = tf
    BY <1>1, <2>1
  <2>3. sr[i + 1] = tr
    BY <1>2, <2>1
  <2>4. ext[i + 1] = ext[i] + 2 + size + pad /\ size \in Nat
    BY <1>0, <1>3, <2>1
  <2>5. Agree(f, r, i)
    BY <1>5
  <2> HIDE DEF f, r, size
  <2>6. /\ TakenFrom(f, s) /\ TakenFrom(r, s) /\ f.ok \in BOOLEAN /\ r.ok \in BOOLEAN
        /\ f.out \in Seq(Bytes) /\ r.out \in Seq(Bytes) /\ f.consumed \in Nat
        /\ f.ok => f.consumed = ext[i] /\ OfSize(f, i)
        /\ r.ok => Len(r.out) = i
        /\ f.ok /\ r.ok => f = r
        /\ r.ok /\ OfSize(r, i) => f.ok
    BY <2>5 DEF TakenFrom
  <2>7. TakenFrom(tf, s) /\ TakenFrom(tr, s)
    <3>1. TakenFrom(tf, s)
      <4>1. f.ok = FALSE => TakenFrom(tf, s)
        BY <2>6, RefusedStays
      <4>2. f.ok = TRUE => TakenFrom(tf, s)
        BY <2>4, <2>6, FixedTakes
      <4>3. QED
        BY <2>6, <4>1, <4>2
    <3>2. TakenFrom(tr, s)
      <4>1. r.ok = FALSE => TakenFrom(tr, s)
        BY <2>6, RefusedStays
      <4>2. r.ok = TRUE => TakenFrom(tr, s)
        BY <2>6, SerializedTakes
      <4>3. QED
        BY <2>6, <4>1, <4>2
    <3>3. QED
      BY <3>1, <3>2
  \* One more parameter of the right size.
  <2>8. ASSUME NEW b, b.out \in Seq(Bytes), Len(b.out) = i, NEW v \in Bytes
        PROVE  /\ Len(After(b, v).out) = i + 1
               /\ OfSize(After(b, v), i + 1) <=> OfSize(b, i) /\ Len(v) = size
    <3>1. After(b, v).out = Append(b.out, v)
      BY DEF After
    <3> DEFINE o == Append(b.out, v)
    <3>2. /\ Len(o) = i + 1 /\ o[i + 1] = v
          /\ \A j \in 1..i : o[j] = b.out[j]
      BY <2>8, AppendProperties
    <3> HIDE DEF o
    <3>3. \A j \in 1..(i + 1) : j \in 1..i \/ j = i + 1
      BY <2>1
    <3>4. i + 1 \in 1..(i + 1) /\ \A j \in 1..i : j \in 1..(i + 1)
      BY <2>1
    <3>5. (\A j \in 1..(i + 1) : Len(o[j]) = sizes[j]) <=>
             (\A j \in 1..i : Len(b.out[j]) = sizes[j]) /\ Len(v) = size
      BY <3>2, <3>3, <3>4 DEF size
    <3>6. QED
      BY <2>8, <3>1, <3>2, <3>5 DEF o
  <2> HIDE DEF OfSize
  <2>9. ASSUME tf.ok PROVE tf.consumed = ext[i + 1] /\ OfSize(tf, i + 1) /\ f.ok = TRUE
    <3>1. f.ok = TRUE
      BY <2>6, <2>9, RefusedStays
    <3> DEFINE v == SubSeq(s, f.consumed + 2 + 1, f.consumed + 2 + size)
    <3>2. v \in Bytes /\ Len(v) = size /\ tf = After(f, v)
      BY <2>4, <2>6, <2>9, <3>1, FixedTakes
    <3> HIDE DEF v
    <3>3. OfSize(f, i) /\ f.consumed = ext[i]
      BY <2>6, <3>1
    <3>4. OfSize(tf, i + 1)
      <4>1. Len(f.out) = i
        BY <3>3 DEF OfSize
      <4>2. OfSize(After(f, v), i + 1)
        BY <2>6, <2>8, <3>2, <3>3, <4>1
      <4>3. QED
        BY <3>2, <4>2
    <3>5. Len(V2!Encoded(v)) = 2 + size + pad
      BY <3>2, EncodedFacts
    <3>6. tf.consumed = f.consumed + (2 + size + pad)
      BY <3>2, <3>5 DEF After
    <3>7. pad \in Nat
      BY <2>4, PaddingNatural
    <3>8. tf.consumed = ext[i + 1]
      <4> HIDE DEF pad, tf
      <4> QED
        BY <2>4, <2>6, <3>3, <3>6, <3>7
    <3>9. QED
      BY <3>1, <3>4, <3>8
  <2>10. ASSUME tr.ok
         PROVE  /\ Len(tr.out) = i + 1
                /\ tf.ok => tf = tr
                /\ OfSize(tr, i + 1) => tf.ok
    <3>1. r.ok = TRUE
      BY <2>6, <2>10, RefusedStays
    <3>2. PICK v \in Bytes :
             /\ tr = After(r, v)
             /\ Lies(s, r.consumed, V2!Encoded(v))
             /\ Len(v) = size => V2!TakeFixed(r, size) = tr
                                 /\ V2!TakeFixed(r, size).ok = TRUE
             /\ V2!TakeFixed(r, size).ok => Len(v) = size
      BY <2>4, <2>6, <2>10, <3>1, TakesAgree
    <3>3. Len(tr.out) = i + 1 /\ (OfSize(tr, i + 1) <=> OfSize(r, i) /\ Len(v) = size)
      <4>1. Len(r.out) = i /\ r.out \in Seq(Bytes)
        BY <2>6, <3>1
      <4>2. /\ Len(After(r, v).out) = i + 1
            /\ OfSize(After(r, v), i + 1) <=> OfSize(r, i) /\ Len(v) = size
        BY <2>8, <4>1
      <4>3. QED
        BY <3>2, <4>2
    <3>4. tf.ok => tf = tr
      <4> SUFFICES ASSUME tf.ok PROVE tf = tr
        OBVIOUS
      <4>1. f = r
        BY <2>6, <2>9, <3>1
      <4>2. QED
        BY <3>2, <4>1
    <3>5. OfSize(tr, i + 1) => tf.ok
      <4> SUFFICES ASSUME OfSize(tr, i + 1) PROVE tf.ok
        OBVIOUS
      <4>1. OfSize(r, i) /\ Len(v) = size
        BY <3>3
      <4>2. f = r
        BY <2>6, <3>1, <4>1
      <4>3. QED
        BY <3>2, <4>1, <4>2
    <3>6. QED
      BY <3>3, <3>4, <3>5
  <2> HIDE DEF tf, tr
  <2>11. Agree(tf, tr, i + 1)
    BY <2>7, <2>9, <2>10
  <2> HIDE DEF Agree
  <2>12. QED
    BY <2>1, <2>2, <2>3, <2>11
<1>6. \A i \in 0..N : i \in T
  <2> HIDE DEF T
  <2> QED
    BY <1>0, <1>4, <1>5, Counting
<1>7. QED
  BY <1>6 DEF fx, sr, ext, N

LEMMA HeaderMatches ==
    ASSUME NEW s \in Bytes, 2 <= Len(s), NEW n \in Nat
    PROVE  /\ V2!Region(V2!Buffer(s), 2) = <<n, 0>> <=> Lies(s, 0, <<n, 0>>)
           /\ V2!Region(V2!Buffer(s), 1) = <<n>> <=> s[1] = n
<1>1. /\ V2!Region(V2!Buffer(s), 2) = SubSeq(s, 0 + 1, 0 + 2)
      /\ V2!Region(V2!Buffer(s), 1) = SubSeq(s, 0 + 1, 0 + 1)
  BY DEF V2!Region, V2!Buffer
<1> DEFINE e == <<n, 0>>
<1>2. e \in Bytes /\ Len(e) = 2
  BY DEF Bytes
<1> HIDE DEF e
<1>3. PICK z \in Nat : z = 0
  OBVIOUS
<1>4. ASSUME Lies(s, z, e) PROVE SubSeq(s, z + 1, z + 2) = e
  <2>1. SubSeq(s, z + 1, z + Len(e)) = e
    BY <1>2, <1>4, LiesIsRegion
  <2>2. QED
    BY <1>2, <2>1
<1>5. Lies(s, z, SubSeq(s, z + 1, z + 2))
  <2>1. PICK m \in Nat : m = 2
    OBVIOUS
  <2>2. z + m <= Len(s)
    BY <1>3, <2>1
  <2>3. Lies(s, z, SubSeq(s, z + 1, z + m))
    BY <2>2, RegionLies
  <2>4. QED
    BY <2>1, <2>3
<1>6. V2!Region(V2!Buffer(s), 2) = e <=> Lies(s, 0, e)
  BY <1>1, <1>3, <1>4, <1>5
<1>7. SubSeq(s, z + 1, z + 1) = <<n>> <=> s[z + 1] = n
  <2>1. z + 1 <= Len(s)
    BY <1>3 DEF Bytes
  <2>2. QED
    BY <2>1, OneByte
<1>8. 0 + 1 = 1
  OBVIOUS
<1>9. V2!Region(V2!Buffer(s), 1) = <<n>> <=> s[1] = n
  BY <1>1, <1>3, <1>7, <1>8
<1>10. QED
  BY <1>6, <1>9 DEF e

\* htool_exec_security_v2_serialized_cmd() accepts just the frames.
LEMMA SerializedParses ==
    ASSUME NEW s \in Bytes, NEW n \in Nat
    PROVE  LET sr == V2!ParseSerialized(s, n) IN
           /\ sr.ok \in BOOLEAN
           /\ sr.ok => /\ sr.out \in Seq(Bytes) /\ Len(sr.out) = n
                       /\ V2!IsPrefix(V2!Frame(n, 0, sr.out), s)
           /\ ~sr.ok => \A p \in Seq(Bytes) :
                           Len(p) = n => ~V2!IsPrefix(V2!Frame(n, 0, p), s)
<1> DEFINE sr == V2!ParseSerialized(s, n)
           header == V2!consume_bytes(V2!Buffer(s), Align)
           match == V2!Region(V2!Buffer(s), 2) = <<n, 0>>
           taking == V2!TakingSerialized(header, n)
<1>1. /\ TakenFrom(header, s) /\ header.out = <<>>
      /\ IF 2 <= Len(s) THEN header.ok = TRUE /\ header.consumed = 2
         ELSE header.ok = FALSE
  BY HeaderTaken
<1>2. sr = IF ~header.ok THEN header
           ELSE IF ~match THEN [header EXCEPT !.ok = FALSE] ELSE taking[n]
  BY DEF V2!ParseSerialized
<1>3. ASSUME NEW p \in Seq(Bytes)
      PROVE  /\ V2!Frame(n, 0, p) \in Bytes
             /\ V2!IsPrefix(V2!Frame(n, 0, p), s) <=> Lies(s, 0, V2!Frame(n, 0, p))
             /\ Lies(s, 0, V2!Frame(n, 0, p)) => Lies(s, 0, <<n, 0>>)
  <2>1. PICK z \in Nat : z = 0
    OBVIOUS
  <2>2. V2!Frame(n, z, p) \in Bytes
    BY FrameBytes
  <2>3. V2!IsPrefix(V2!Frame(n, z, p), s) <=> Lies(s, 0, V2!Frame(n, z, p))
    BY <2>2, LiesPrefix
  <2>4. Lies(s, 0, V2!Frame(n, z, p)) => Lies(s, 0, <<n, z>>)
    BY BeginningsLie
  <2>5. QED
    BY <2>1, <2>2, <2>3, <2>4
<1> HIDE DEF sr, header, match
<1>4. CASE ~(2 <= Len(s))
  <2>1. sr.ok = FALSE
    BY <1>1, <1>2, <1>4
  <2>2. ~Lies(s, 0, <<n, 0>>)
    <3>1. Len(<<n, 0>>) = 2 /\ 0 + 2 = 2
      OBVIOUS
    <3>2. QED
      BY <1>4, <3>1 DEF Lies
  <2>3. QED
    BY <1>3, <2>1, <2>2 DEF sr
<1>5. CASE 2 <= Len(s) /\ ~match
  <2>1. sr.ok = FALSE
    BY <1>1, <1>2, <1>5 DEF TakenFrom
  <2>2. ~Lies(s, 0, <<n, 0>>)
    BY <1>5, HeaderMatches DEF match
  <2>3. QED
    BY <1>3, <2>1, <2>2 DEF sr
<1>6. CASE 2 <= Len(s) /\ match
  <2>1. sr = taking[n]
    BY <1>1, <1>2, <1>6
  <2>2. Lies(s, 0, <<n, 0>>)
    BY <1>6, HeaderMatches DEF match
  <2>3. n \in 0..n
    OBVIOUS
  <2>4. \A i \in 0..n : FramedUpTo(taking[i], s, n, i)
    <3>1. header.ok = TRUE /\ header.consumed = 2 /\ header.out = <<>>
      BY <1>1, <1>6
    <3>2. TakenFrom(header, s)
      BY <1>1
    <3>3. QED
      BY <2>2, <3>1, <3>2, SerializedStages
  <2>5. /\ TakenFrom(sr, s)
        /\ sr.ok => Len(sr.out) = n /\ Lies(s, 0, V2!Frame(n, 0, sr.out))
    <3>1. FramedUpTo(sr, s, n, n)
      BY <2>1, <2>3, <2>4
    <3>2. QED
      BY <3>1 DEF FramedUpTo
  <2>6. sr.ok \in BOOLEAN /\ sr.out \in Seq(Bytes)
    BY <2>5 DEF TakenFrom
  <2>7. ASSUME NEW p \in Seq(Bytes), Len(p) = n, V2!IsPrefix(V2!Frame(n, 0, p), s)
        PROVE  sr.ok
    <3>1. Lies(s, 0, V2!Frame(n, 0, p))
      BY <1>3, <2>7
    <3>2. taking[n].ok
      BY <1>1, <1>6, <2>7, <3>1, FrameIsTaken
    <3>3. QED
      BY <2>1, <3>2
  <2>8. QED
    BY <1>3, <2>5, <2>6, <2>7 DEF sr
<1>7. QED
  BY <1>4, <1>5, <1>6

\* htool_exec_security_v2_cmd() hands out what the serialized variant does.
LEMMA FixedParses ==
    ASSUME NEW s \in Bytes, NEW sizes \in Seq(Nat), sizes # <<>>
    PROVE  LET fx == V2!ParseFixed(s, sizes)
               sr == V2!ParseSerialized(s, Len(sizes))
           IN  /\ fx.ok =>
                    /\ V2!Extents(sizes)[Len(sizes)] <= Len(s)
                    /\ [i \in DOMAIN fx.out |-> Len(fx.out[i])] = sizes
                    /\ sr.ok => fx.out = sr.out
               /\ sr.ok /\ [i \in DOMAIN sr.out |-> Len(sr.out[i])] = sizes => fx.ok
<1> DEFINE fx == V2!ParseFixed(s, sizes)
           n == Len(sizes)
           sr == V2!ParseSerialized(s, n)
           header == V2!consume_bytes(V2!Buffer(s), Align)
           both == V2!Region(V2!Buffer(s), 2) = <<n, 0>>
           first == V2!Region(V2!Buffer(s), 1) = <<n>>
           takingF == V2!TakingFixed(header, sizes)
           takingS == V2!TakingSerialized(header, n)
           ext == V2!Extents(sizes)
<1>0. n \in Nat /\ n \in 0..n
  OBVIOUS
<1>1. /\ TakenFrom(header, s) /\ header.out = <<>>
      /\ IF 2 <= Len(s) THEN header.ok = TRUE /\ header.consumed = 2
         ELSE header.ok = FALSE
  BY HeaderTaken
<1>2. sr = IF ~header.ok THEN header
           ELSE IF ~both THEN [header EXCEPT !.ok = FALSE] ELSE takingS[n]
  BY DEF V2!ParseSerialized
<1>3. fx = IF ~header.ok THEN header
           ELSE IF ~first THEN [header EXCEPT !.ok = FALSE] ELSE takingF[n]
  BY DEF V2!ParseFixed
<1> HIDE DEF fx, sr, header, both, first, n
<1>4. CASE ~(2 <= Len(s))
  <2>1. fx.ok = FALSE /\ sr.ok = FALSE
    BY <1>1, <1>2, <1>3, <1>4
  <2>2. QED
    BY <2>1 DEF fx, sr, n
<1>5. CASE 2 <= Len(s)
  <2>1. both => first
    <3>1. /\ both <=> Lies(s, 0, <<n, 0>>)
          /\ first <=> s[1] = n
      BY <1>0, <1>5, HeaderMatches DEF both, first
    <3>2. Lies(s, 0, <<n, 0>>) => s[1] = n
      <4>1. Len(<<n, 0>>) = 2 /\ 1 \in 1..2 /\ 0 + 1 = 1 /\ <<n, 0>>[1] = n
        OBVIOUS
      <4>2. QED
        BY <4>1 DEF Lies
    <3>3. QED
      BY <3>1, <3>2
  <2>2. \A i \in 0..n :
                 /\ TakenFrom(takingF[i], s) /\ TakenFrom(takingS[i], s)
                 /\ takingF[i].ok =>
                      /\ takingF[i].consumed = ext[i] /\ Len(takingF[i].out) = i
                      /\ \A j \in 1..i : Len(takingF[i].out[j]) = sizes[j]
                 /\ takingS[i].ok => Len(takingS[i].out) = i
                 /\ takingF[i].ok /\ takingS[i].ok => takingF[i] = takingS[i]
                 /\ takingS[i].ok
                    /\ (\A j \in 1..i : Len(takingS[i].out[j]) = sizes[j])
                       => takingF[i].ok
    BY <1>1, <1>5, FixedStages DEF n
  <2> DEFINE f == takingF[n]
             r == takingS[n]
  <2>3. /\ TakenFrom(f, s) /\ TakenFrom(r, s)
        /\ f.ok => /\ f.consumed = ext[n] /\ Len(f.out) = n
                   /\ \A j \in 1..n : Len(f.out[j]) = sizes[j]
        /\ r.ok => Len(r.out) = n
        /\ f.ok /\ r.ok => f = r
        /\ r.ok /\ (\A j \in 1..n : Len(r.out[j]) = sizes[j]) => f.ok
    BY <1>0, <2>2
  <2>4. /\ f.consumed <= Len(s) /\ f.out \in Seq(Bytes) /\ r.out \in Seq(Bytes)
    BY <2>3 DEF TakenFrom
  <2>5. sr.ok => both /\ sr = r
    BY <1>1, <1>2, <1>5 DEF TakenFrom
  <2>6. fx.ok => first /\ fx = f
    BY <1>1, <1>3, <1>5 DEF TakenFrom
  <2>7. first => fx = f
    BY <1>1, <1>3, <1>5
  <2> HIDE DEF f, r
  <2>8. ASSUME fx.ok
        PROVE  /\ ext[n] <= Len(s)
               /\ [i \in DOMAIN fx.out |-> Len(fx.out[i])] = sizes
               /\ sr.ok => fx.out = sr.out
    <3>1. /\ fx = f /\ f.consumed = ext[n] /\ Len(f.out) = n
          /\ \A j \in 1..n : Len(f.out[j]) = sizes[j]
      BY <2>3, <2>6, <2>8
    <3>2. DOMAIN f.out = 1..n /\ sizes = [i \in 1..n |-> sizes[i]]
      BY <2>4, <3>1 DEF n
    <3>3. [i \in DOMAIN fx.out |-> Len(fx.out[i])] = sizes
      BY <3>1, <3>2
    <3>4. sr.ok => fx.out = sr.out
      BY <2>3, <2>5, <2>8, <3>1
    <3>5. QED
      BY <2>4, <3>1, <3>3, <3>4
  <2>9. ASSUME sr.ok, [i \in DOMAIN sr.out |-> Len(sr.out[i])] = sizes PROVE fx.ok
    <3>1. sr = r /\ first /\ fx = f /\ Len(r.out) = n
      BY <2>1, <2>3, <2>5, <2>7, <2>9
    <3>2. DOMAIN r.out = 1..n
      BY <2>4, <3>1
    <3>3. \A j \in 1..n : Len(r.out[j]) = sizes[j]
      BY <2>9, <3>1, <3>2
    <3>4. QED
      BY <2>3, <2>9, <3>1, <3>3
  <2>10. QED
    BY <2>8, <2>9 DEF fx, sr, n
<1>6. QED
  BY <1>4, <1>5

LEMMA ShortSequences ==
    ASSUME NEW S, NEW m \in Nat
    PROVE  (UNION {[1 .. n -> S] : n \in 0 .. m}) \subseteq Seq(S)
<1> SUFFICES ASSUME NEW n \in 0 .. m, NEW f \in [1 .. n -> S] PROVE f \in Seq(S)
  OBVIOUS
<1>1. n \in Nat
  OBVIOUS
<1>2. QED
  BY <1>1, SeqDef

LEMMA SequencesGrow ==
    ASSUME NEW S, NEW U, S \subseteq U
    PROVE  Seq(S) \subseteq Seq(U)
OBVIOUS

LEMMA FramedTypes ==
    /\ V2!Byte \subseteq Nat
    /\ V2!Value \subseteq Bytes
    /\ V2!Params \subseteq Seq(Bytes)
    /\ V2!Sizes \subseteq Seq(Nat)
    /\ StorageSizes \subseteq Nat /\ Align \in Nat
    /\ \A n \in Nat : [1 .. n -> V2!Value] \subseteq Seq(Bytes)
<1>1. /\ ByteMax \in Nat /\ MaxParams \in Nat /\ MaxParamSize \in Nat
      /\ Align = 2 /\ StorageSizes \subseteq Nat
  BY WidthsAssumption DEF V2!V2Assumption
<1>2. V2!Byte \subseteq Nat
  BY <1>1 DEF V2!Byte
<1>3. V2!Value \subseteq Bytes
  <2>1. V2!Value \subseteq Seq(V2!Byte)
    BY <1>1, ShortSequences DEF V2!Value
  <2>2. Seq(V2!Byte) \subseteq Seq(Nat)
    BY <1>2, SequencesGrow
  <2>3. QED
    BY <2>1, <2>2 DEF Bytes
<1>4. Seq(V2!Value) \subseteq Seq(Bytes)
  BY <1>3, SequencesGrow
<1>5. V2!Params \subseteq Seq(Bytes)
  <2>1. V2!Params \subseteq Seq(V2!Value)
    BY <1>1, ShortSequences DEF V2!Params
  <2>2. QED
    BY <1>4, <2>1
<1>6. V2!Sizes \subseteq Seq(Nat)
  <2>1. V2!Sizes \subseteq Seq(0 .. MaxParamSize)
    BY <1>1, ShortSequences DEF V2!Sizes
  <2>2. Seq(0 .. MaxParamSize) \subseteq Seq(Nat)
    <3>1. 0 .. MaxParamSize \subseteq Nat
      BY <1>1
    <3>2. QED
      BY <3>1, SequencesGrow
  <2>3. QED
    BY <2>1, <2>2
<1>7. ASSUME NEW n \in Nat PROVE [1 .. n -> V2!Value] \subseteq Seq(Bytes)
  <2>1. [1 .. n -> V2!Value] \subseteq Seq(V2!Value)
    BY SeqDef
  <2>2. QED
    BY <1>4, <2>1
<1>8. QED
  BY <1>1, <1>2, <1>3, <1>5, <1>6, <1>7

\* Whatever arrives is a sequence of bytes.
LEMMA NearBytes ==
    ASSUME NEW f \in Bytes
    PROVE  V2!Near(f) \subseteq Bytes
<1>0. Len(f) \in Nat /\ f \in Seq(Nat) /\ DOMAIN f = 1 .. Len(f)
  BY DEF Bytes
<1>1. ASSUME NEW n \in 0 .. Len(f) PROVE SubSeq(f, 1, n) \in Bytes
  BY <1>0 DEF Bytes
<1>2. ASSUME NEW k \in DOMAIN f, NEW b \in V2!Byte
      PROVE  [f EXCEPT ![k] = b] \in Bytes
  <2>1. b \in Nat
    BY FramedTypes
  <2>2. QED
    BY <1>0, <2>1 DEF Bytes
<1>3. f \o V2!Zeros(1) \in Bytes
  <2>1. PICK n \in Nat : n = 1
    OBVIOUS
  <2>2. V2!Zeros(n) \in Bytes
    BY ZeroBytes
  <2>3. f \o V2!Zeros(n) \in Bytes
    BY <2>2 DEF Bytes
  <2>4. QED
    BY <2>1, <2>3
<1>4. SUFFICES ASSUME NEW s \in V2!Near(f) PROVE s \in Bytes
  OBVIOUS
<1>5. \/ s = f
      \/ \E n \in 0 .. Len(f) : s = SubSeq(f, 1, n)
      \/ \E k \in DOMAIN f, b \in V2!Byte : s = [f EXCEPT ![k] = b]
      \/ s = f \o V2!Zeros(1)
  BY <1>4 DEF V2!Near
<1>6. QED
  BY <1>1, <1>2, <1>3, <1>5

-----------------------------------------------------------------------------
(* A command of each kind                                                  *)

\* What the steps of a command keep: the arguments are the caller's, and each of
\* the three ways to look at the bytes is exact.
FramingInv ==
    /\ phase \in {"none", "sent", "received", "refused"}
    /\ phase # "none" => /\ v2_args.params \in Seq(Bytes)
                         /\ v2_args.storage \in Nat
                         /\ v2_args.expected \in Seq(Nat)
    /\ FramingIsExact

LEMMA SendIsExact ==
    ASSUME NEW params \in Seq(Bytes), NEW storage \in Nat, NEW expected \in Seq(Nat),
           V2!Send(params, storage, expected)
    PROVE  FramingInv'
<1> DEFINE b == V2!BuildRequest(V2!Code, params, storage)
           f == V2!Frame(V2!Code, Len(params), params)
<1>1. Filled(b, f, storage)
  <2>1. V2!Code \in Nat
    BY DEF V2!Code
  <2>2. QED
    BY <2>1, RequestFills
<1>2. /\ v2_args' = [params |-> params, storage |-> storage, expected |-> expected]
      /\ IF b.ok THEN phase' = "sent" /\ request' = b.data
                 ELSE phase' = "refused" /\ UNCHANGED request
  BY DEF V2!Send
<1>3. v2_args'.params = params /\ v2_args'.storage = storage
      /\ v2_args'.expected = expected
  BY <1>2
<1> HIDE DEF b
<1>4. V2!Frame(V2!Code, Len(v2_args'.params), v2_args'.params) = f
  BY <1>3
<1> HIDE DEF f
<1>5. V2!RequestIsFrame'
  <2>1. b.ok => request' = f \o V2!Zeros(v2_args'.storage - Len(f))
    BY <1>1, <1>2, <1>3 DEF Filled
  <2>2. ~b.ok => Len(f) > v2_args'.storage
    BY <1>1, <1>3 DEF Filled
  <2>3. QED
    BY <1>2, <1>4, <2>1, <2>2 DEF V2!RequestIsFrame
<1>6. V2!SerializedIsExact' /\ V2!FixedIsExact'
  BY <1>2 DEF V2!SerializedIsExact, V2!FixedIsExact
<1>7. QED
  BY <1>2, <1>3, <1>5, <1>6 DEF FramingInv, FramingIsExact, V2!FramingIsExact

LEMMA ReceiveIsExact ==
    ASSUME FramingInv, NEW bytes \in Bytes, V2!Receive(bytes)
    PROVE  FramingInv'
<1> DEFINE sizes == v2_args.expected
           n == Len(sizes)
           fx == V2!ParseFixed(bytes, sizes)
           sr == V2!ParseSerialized(bytes, n)
<1>1. /\ phase = "sent" /\ phase' = "received" /\ received' = bytes
      /\ fixed' = fx /\ serialized' = sr
      /\ v2_args' = v2_args /\ request' = request
  BY DEF V2!Receive
<1>2. /\ v2_args.params \in Seq(Bytes) /\ v2_args.storage \in Nat
      /\ sizes \in Seq(Nat) /\ n \in Nat
  BY <1>1 DEF FramingInv
<1>3. V2!RequestIsFrame
  BY DEF FramingInv, FramingIsExact, V2!FramingIsExact
<1>4. V2!RequestIsFrame'
  BY <1>1, <1>3 DEF V2!RequestIsFrame
<1>5. V2!SerializedIsExact'
  <2>1. /\ sr.ok \in BOOLEAN
        /\ sr.ok => /\ sr.out \in Seq(Bytes) /\ Len(sr.out) = n
                    /\ V2!IsPrefix(V2!Frame(n, 0, sr.out), bytes)
        /\ ~sr.ok => \A p \in Seq(Bytes) :
                        Len(p) = n => ~V2!IsPrefix(V2!Frame(n, 0, p), bytes)
    BY <1>2, SerializedParses
  <2>2. \A p \in [1 .. n -> V2!Value] : p \in Seq(Bytes) /\ Len(p) = n
    <3> HIDE DEF n
    <3>1. [1 .. n -> V2!Value] \subseteq Seq(Bytes)
      BY <1>2, FramedTypes
    <3>2. QED
      BY <1>2, <3>1
  <2> HIDE DEF sr, n
  <2>3. ~sr.ok => \A p \in [1 .. n -> V2!Value] :
                     ~V2!IsPrefix(V2!Frame(n, 0, p), bytes)
    BY <2>1, <2>2
  <2>4. IF sr.ok THEN /\ Len(sr.out) = n
                      /\ V2!IsPrefix(V2!Frame(n, 0, sr.out), bytes)
        ELSE \A params \in [1 .. n -> V2!Value] :
                ~V2!IsPrefix(V2!Frame(n, 0, params), bytes)
    BY <2>1, <2>3
  <2>5. Len(v2_args'.expected) = n
    BY <1>1 DEF n
  <2>6. QED
    BY <1>1, <2>4, <2>5 DEF V2!SerializedIsExact
<1>6. V2!FixedIsExact'
  <2>1. ASSUME sizes # <<>>
        PROVE  /\ fx.ok =>
                    /\ V2!Extents(sizes)[Len(sizes)] <= Len(bytes)
                    /\ [i \in DOMAIN fx.out |-> Len(fx.out[i])] = sizes
                    /\ sr.ok => fx.out = sr.out
               /\ sr.ok /\ [i \in DOMAIN sr.out |-> Len(sr.out[i])] = sizes => fx.ok
    BY <1>2, <2>1, FixedParses
  <2> HIDE DEF fx, sr
  <2>2. QED
    BY <1>1, <2>1 DEF V2!FixedIsExact
<1>7. QED
  BY <1>1, <1>2, <1>4, <1>5, <1>6 DEF FramingInv, FramingIsExact, V2!FramingIsExact

LEMMA FramingStep ==
    ASSUME FramingInv, [MCNext]_<<vars, numberVars, v2Vars>>
    PROVE  FramingInv'
<1>1. CASE UNCHANGED v2Vars
  BY <1>1 DEF v2Vars, FramingInv, FramingIsExact, V2!FramingIsExact,
              V2!RequestIsFrame, V2!SerializedIsExact, V2!FixedIsExact
<1>2. CASE V2!Next
  <2>1. ASSUME NEW params \in V2!Params, NEW n \in StorageSizes,
               V2!Send(params, n, <<>>)
        PROVE  FramingInv'
    <3>1. params \in Seq(Bytes) /\ n \in Nat
      BY FramedTypes
    <3>2. PICK none \in Seq(Nat) : none = <<>>
      BY EmptySeq
    <3>3. V2!Send(params, n, none)
      BY <2>1, <3>2
    <3>4. QED
      BY <3>1, <3>3, SendIsExact
  <2>2. ASSUME NEW sizes \in V2!Sizes, V2!Send(<<>>, Align, sizes)
        PROVE  FramingInv'
    <3>1. sizes \in Seq(Nat) /\ Align \in Nat
      BY FramedTypes
    <3>2. PICK none \in Seq(Bytes) : none = <<>>
      BY EmptySeq
    <3>3. V2!Send(none, Align, sizes)
      BY <2>2, <3>2
    <3>4. QED
      BY <3>1, <3>3, SendIsExact
  <2>3. ASSUME NEW answer \in V2!Params,
               NEW bytes \in V2!Near(V2!Frame(Len(answer), 0, answer)),
               V2!Receive(bytes)
        PROVE  FramingInv'
    <3>1. answer \in Seq(Bytes) /\ Len(answer) \in Nat
      BY FramedTypes
    <3>2. PICK z \in Nat : z = 0
      OBVIOUS
    <3>3. V2!Frame(Len(answer), z, answer) \in Bytes
      BY <3>1, FrameBytes
    <3>4. bytes \in Bytes
      BY <3>2, <3>3, NearBytes
    <3>5. QED
      BY <2>3, <3>4, ReceiveIsExact
  <2>4. QED
    BY <1>2, <2>1, <2>2, <2>3 DEF V2!Next
<1>3. QED
  BY <1>1, <1>2 DEF MCNext

\* Of every command the RoT is sent the frame of its parameters and nothing else,
\* or nothing; and of every response near a frame, each of the two ways to take it
\* apart hands out the parameters that lie in it, or refuses it because there are
\* no such parameters (htool_exec_security_v2_cmd() and
\* htool_exec_security_v2_serialized_cmd()): for every byte, every number and
\* size of parameters and every storage.
THEOREM FramingStaysExact == MCSpec => []FramingIsExact
<1>1. MCInit => FramingInv
  BY DEF MCInit, V2!Init, FramingInv, FramingIsExact, V2!FramingIsExact,
         V2!RequestIsFrame, V2!SerializedIsExact, V2!FixedIsExact
<1>2. FramingInv /\ [MCNext]_<<vars, numberVars, v2Vars>> => FramingInv'
  BY FramingStep
<1>3. FramingInv => FramingIsExact
  BY DEF FramingInv
<1>4. QED
  BY <1>1, <1>2, <1>3, PTL DEF MCSpec

-----------------------------------------------------------------------------
(* What was typed: the words of a line                                     *)

Text == STRING \cup {NULL, "", "?", "1", "unknown", "help"}

Word == [dash : 0..2, ch : Text, text : Text, no : BOOLEAN, name : Text, value : Text]

LEMMA WordTypes ==
    ASSUME NEW n \in Text, NEW v \in Text
    PROVE  Long(n, v) \in Word /\ Short(n, v) \in Word /\ No(n) \in Word
           /\ Plain(v) \in Word
<1> HIDE DEF Text
<1>1. PICK null \in Text : null = NULL
  BY DEF Text
<1>2. PICK none \in Text : none = ""
  BY DEF Text
<1>3. Long(n, v) \in Word
  <2>1. [dash |-> 2, ch |-> none, text |-> null, no |-> FALSE, name |-> n,
         value |-> v] \in Word
    BY DEF Word
  <2>2. QED
    BY <1>1, <1>2, <2>1 DEF Long
<1>4. Short(n, v) \in Word
  <2>1. [dash |-> 1, ch |-> n, text |-> v, no |-> FALSE, name |-> v,
         value |-> null] \in Word
    BY DEF Word
  <2>2. QED
    BY <1>1, <2>1 DEF Short
<1>5. Plain(v) \in Word
  <2>1. [dash |-> 0, ch |-> none, text |-> v, no |-> FALSE, name |-> v,
         value |-> null] \in Word
    BY DEF Word
  <2>2. QED
    BY <1>1, <1>2, <2>1 DEF Plain
<1>6. No(n) \in Word
  <2>1. [dash |-> 2, ch |-> none, text |-> null, no |-> TRUE, name |-> n,
         value |-> null] \in Word
    BY DEF Word
  <2>2. QED
    BY <1>1, <1>2, <2>1 DEF No
<1>7. QED
  BY <1>3, <1>4, <1>5, <1>6

\* A value as a word of its own.
LEMMA ValueIsWord ==
    ASSUME NEW v \in STRING
    PROVE  /\ ValueWord(v) \in Word
           /\ v = "-1" => ValueWord(v).dash # 0
           /\ v # "-1" => ValueWord(v).dash = 0 /\ ValueWord(v).text = v
<1>1. NULL \in Text /\ "1" \in Text /\ v \in Text
  BY DEF Text
<1>2. Plain(v) \in Word /\ Short("1", NULL) \in Word
  BY <1>1, WordTypes
<1>3. Plain(v).dash = 0 /\ Plain(v).text = v
  BY DEF Plain
<1>4. Short("1", NULL).dash # 0
  BY DEF Short
<1>5. QED
  BY <1>1, <1>2, <1>3, <1>4 DEF ValueWord

\* An item is one word, or two when its value is one.
LEMMA RenderedAs ==
    ASSUME NEW x, Spelled(x)
    PROVE  \E a \in Word :
             \/ Render(x) = <<a>>
             \/ /\ x.form \in {"long next", "short next"}
                /\ Render(x) = <<a, ValueWord(x.value)>>
<1> DEFINE p == x.param
           v == x.value
<1>1. p.name \in STRING /\ p.ch \in STRING /\ v \in STRING
  BY DEF Spelled
<1>2. /\ Long(p.name, v) \in Word /\ Long(p.name, NULL) \in Word
      /\ Short(p.ch, v) \in Word /\ Short(p.ch, NULL) \in Word
      /\ No(p.name) \in Word /\ Short("?", p.name) \in Word
      /\ ValueWord(v) \in Word /\ Long("unknown", NULL) \in Word
      /\ Short("", NULL) \in Word /\ Long("help", NULL) \in Word
  <2>1. \A n, u \in Text :
           Long(n, u) \in Word /\ Short(n, u) \in Word /\ No(n) \in Word
    BY WordTypes
  <2>2. {p.name, p.ch, v, NULL, "?", "", "unknown", "help"} \subseteq Text
    BY <1>1 DEF Text
  <2>3. QED
    BY <1>1, <2>1, <2>2, ValueIsWord
<1>3. x.form \in {"long", "long next", "short", "short next", "plain", "bare",
                  "short bare", "letter", "unknown", "dash", "help", "no"}
  BY DEF Spelled, ValueForms, BareForms, Slips
<1>4. QED
  BY <1>2, <1>3 DEF Render

LEMMA RenderIsWords ==
    ASSUME NEW x, Spelled(x)
    PROVE  Render(x) \in Seq(Word) /\ Len(Render(x)) \in Nat \ {0}
<1>1. ValueWord(x.value) \in Word
  BY ValueIsWord DEF Spelled
<1>2. PICK a \in Word : \/ Render(x) = <<a>>
                        \/ Render(x) = <<a, ValueWord(x.value)>>
  BY RenderedAs
<1> DEFINE b == ValueWord(x.value)
<1> HIDE DEF b
<1>3. <<a>> \in Seq(Word) /\ Len(<<a>>) = 1
  OBVIOUS
<1>4. <<a, b>> \in Seq(Word) /\ Len(<<a, b>>) = 2
  BY <1>1 DEF b
<1>5. PICK r : r = Render(x)
  OBVIOUS
<1>6. r = <<a>> \/ r = <<a, b>>
  BY <1>2, <1>5 DEF b
<1>7. Len(r) = 1 \/ Len(r) = 2
  BY <1>3, <1>4, <1>6
<1>8. r \in Seq(Word)
  BY <1>3, <1>4, <1>6
<1>9. Len(r) \in Nat \ {0}
  BY <1>7
<1>10. QED
  BY <1>5, <1>8, <1>9

\* The words item by item, from the last on.
LEMMA LastWordsAre ==
    ASSUME NEW items, Len(items) \in Nat
    PROVE  LET f == LastWords(items) IN
           /\ f[0] = <<>>
           /\ \A n \in 1..Len(items) :
                 f[n] = Render(items[Len(items) - (n - 1)]) \o f[n - 1]
<1> DEFINE R(n) == Render(items[Len(items) - (n - 1)])
           Fits(f, k) == f = [n \in 0..k |-> IF n = 0 THEN <<>> ELSE R(n) \o f[n - 1]]
           T == {k \in 0..Len(items) : \E f : Fits(f, k)}
<1>1. 0 \in T
  <2>1. Fits([n \in {0} |-> <<>>], 0)
    OBVIOUS
  <2> HIDE DEF Fits
  <2>2. QED
    BY <2>1
<1>2. ASSUME NEW k \in 0..(Len(items) - 1), k \in T PROVE k + 1 \in T
  <2> HIDE DEF R
  <2>1. PICK f : Fits(f, k)
    BY <1>2
  <2> DEFINE last == R(k + 1) \o f[k]
             g == [n \in 0..(k + 1) |-> IF n = k + 1 THEN last ELSE f[n]]
  <2>2. \A n \in 0..k : f[n] = IF n = 0 THEN <<>> ELSE R(n) \o f[n - 1]
    BY <2>1
  <2>3. ASSUME NEW n \in 0..(k + 1)
        PROVE  g[n] = IF n = 0 THEN <<>> ELSE R(n) \o g[n - 1]
    <3>1. CASE n = k + 1
      <4>1. n - 1 = k /\ g[n - 1] = f[k] /\ n # 0
        BY <3>1
      <4>2. QED
        BY <3>1, <4>1
    <3>2. CASE n # k + 1
      <4>1. n \in 0..k /\ g[n] = f[n]
        BY <3>2
      <4>2. n # 0 => g[n - 1] = f[n - 1]
        BY <3>2
      <4> HIDE DEF g
      <4>3. QED
        BY <2>2, <4>1, <4>2
    <3>3. QED
      BY <3>1, <3>2
  <2>4. Fits(g, k + 1)
    <3> HIDE DEF last
    <3>1. g = [n \in 0..(k + 1) |-> g[n]]
      OBVIOUS
    <3> HIDE DEF g
    <3>2. QED
      BY <2>3, <3>1
  <2> HIDE DEF Fits, g
  <2>5. QED
    BY <2>4
<1>3. \E f : Fits(f, Len(items))
  <2> HIDE DEF Fits
  <2>1. Len(items) \in T
    <3> HIDE DEF T
    <3>1. \A n \in 0..Len(items) : n \in T
      BY <1>1, <1>2, Counting
    <3>2. QED
      BY <3>1
  <2>2. QED
    BY <2>1
<1>4. Fits(LastWords(items), Len(items))
  BY <1>3 DEF LastWords
<1> DEFINE f == LastWords(items)
<1> HIDE DEF f, R
<1>5. \A n \in 0..Len(items) : f[n] = IF n = 0 THEN <<>> ELSE R(n) \o f[n - 1]
  BY <1>4 DEF f
<1>6. 0 \in 0..Len(items) /\ \A n \in 1..Len(items) : n \in 0..Len(items) /\ n # 0
  OBVIOUS
<1>7. f[0] = <<>> /\ \A n \in 1..Len(items) : f[n] = R(n) \o f[n - 1]
  BY <1>5, <1>6
<1>8. QED
  BY <1>7 DEF f, R

\* The items of a part of a line.
Items(items) == /\ items \in Seq(ToSet(items))
                /\ \A x \in ToSet(items) : Spelled(x)

LEMMA ItemsFacts ==
    ASSUME NEW items, Items(items)
    PROVE  /\ Len(items) \in Nat /\ DOMAIN items = 1..Len(items)
           /\ \A k \in 1..Len(items) : Spelled(items[k])
<1>1. Len(items) \in Nat /\ DOMAIN items = 1..Len(items)
  BY DEF Items
<1>2. \A k \in 1..Len(items) : items[k] \in ToSet(items)
  BY <1>1 DEF ToSet
<1>3. QED
  BY <1>1, <1>2 DEF Items

LEMMA LastWordsFacts ==
    ASSUME NEW items, Items(items)
    PROVE  /\ LastWords(items)[0] = <<>>
           /\ \A n \in 0..Len(items) : LastWords(items)[n] \in Seq(Word)
           /\ \A n \in 1..Len(items) :
                 /\ LastWords(items)[n] = Render(items[Len(items) - (n - 1)])
                                            \o LastWords(items)[n - 1]
                 /\ LastWords(items)[n] # <<>>
<1> DEFINE f == LastWords(items)
           T == {n \in 0..Len(items) : f[n] \in Seq(Word)}
<1>1. Len(items) \in Nat
  BY ItemsFacts
<1>2. /\ f[0] = <<>>
      /\ \A n \in 1..Len(items) :
            f[n] = Render(items[Len(items) - (n - 1)]) \o f[n - 1]
  BY <1>1, LastWordsAre
<1>3. \A n \in 1..Len(items) :
         /\ Render(items[Len(items) - (n - 1)]) \in Seq(Word)
         /\ Len(Render(items[Len(items) - (n - 1)])) \in Nat \ {0}
  <2> SUFFICES ASSUME NEW n \in 1..Len(items)
               PROVE  LET r == Render(items[Len(items) - (n - 1)])
                      IN  r \in Seq(Word) /\ Len(r) \in Nat \ {0}
    OBVIOUS
  <2>1. Len(items) - (n - 1) \in 1..Len(items)
    BY <1>1
  <2>2. Spelled(items[Len(items) - (n - 1)])
    BY <2>1, ItemsFacts
  <2>3. QED
    BY <2>2, RenderIsWords
<1> HIDE DEF f
<1>4. 0 \in T
  <2>1. <<>> \in Seq(Word)
    BY EmptySeq
  <2>2. f[0] \in Seq(Word) /\ 0 \in 0..Len(items)
    BY <1>1, <1>2, <2>1
  <2>3. QED
    BY <2>2
<1>5. ASSUME NEW n \in 0..(Len(items) - 1), n \in T PROVE n + 1 \in T
  <2>1. n + 1 \in 1..Len(items) /\ n + 1 \in 0..Len(items) /\ (n + 1) - 1 = n
    BY <1>1
  <2>2. PICK m \in 1..Len(items) : m = n + 1
    BY <2>1
  <2>3. f[m] = Render(items[Len(items) - (m - 1)]) \o f[n]
    BY <1>2, <2>1, <2>2
  <2>4. Render(items[Len(items) - (m - 1)]) \in Seq(Word)
    BY <1>3
  <2>5. f[m] \in Seq(Word)
    BY <1>5, <2>3, <2>4
  <2>6. QED
    BY <2>1, <2>2, <2>5
<1>6. \A n \in 0..Len(items) : n \in T
  <2> HIDE DEF T
  <2> QED
    BY <1>1, <1>4, <1>5, Counting
<1>7. ASSUME NEW n \in 1..Len(items) PROVE f[n] # <<>>
  <2>1. PICK r \in Seq(Word) : f[n] = r \o f[n - 1] /\ Len(r) \in Nat \ {0}
    BY <1>2, <1>3
  <2>2. n - 1 \in 0..Len(items)
    BY <1>1
  <2>3. f[n - 1] \in Seq(Word)
    BY <1>6, <2>2
  <2>4. Len(f[n]) = Len(r) + Len(f[n - 1]) /\ Len(f[n - 1]) \in Nat
    BY <2>1, <2>3
  <2>5. Len(f[n]) # 0
    BY <2>1, <2>4
  <2>6. QED
    BY <2>5
<1>8. QED
  BY <1>2, <1>6, <1>7 DEF f


-----------------------------------------------------------------------------
(* The parameter that a word is for                                        *)

LEMMA LeastOfOne ==
    ASSUME NEW i \in Nat
    PROVE  Min({i}) = i
<1>1. {i} \subseteq Nat /\ {i} # {}
  OBVIOUS
<1>2. Min({i}) \in {i}
  BY <1>1, LeastOf
<1>3. QED
  BY <1>2

\* The parameters that have the letter, or the name, of a word.
ByLetter(params, w) ==
    {i \in DOMAIN params : /\ w.dash = 1 /\ IsFlag(params[i])
                           /\ params[i].ch = w.ch /\ w.ch # ""}
ByName(params, w) ==
    {i \in DOMAIN params : /\ ~(w.dash = 1 /\ w.ch = "")
                           /\ params[i].name = w.name
                           /\ IF w.no THEN params[i].type = "bool" ELSE IsFlag(params[i])}

\* The value of a flag without one.
OrTrue(p, v) == IF v = NULL /\ p.type = "bool" THEN "true" ELSE v

LEMMA FlagFound ==
    ASSUME NEW params, NEW w, NEW i \in Nat
    PROVE  /\ ByLetter(params, w) = {i} =>
                find_flag(params, w) = [param |-> i, value |-> OrTrue(params[i], w.text)]
           /\ ByLetter(params, w) = {} /\ ByName(params, w) = {i} =>
                find_flag(params, w) =
                  [param |-> i,
                   value |-> IF w.no THEN "false" ELSE OrTrue(params[i], w.value)]
           /\ ByLetter(params, w) = {} /\ ByName(params, w) = {} =>
                find_flag(params, w) = [param |-> 0, value |-> NULL]
<1> DEFINE letter == ByLetter(params, w)
           name == ByName(params, w)
<1>1. find_flag(params, w) =
        CASE letter # {} -> [param |-> Min(letter),
                             value |-> OrTrue(params[Min(letter)], w.text)]
          [] letter = {} /\ name # {} ->
               [param |-> Min(name),
                value |-> IF w.no THEN "false" ELSE OrTrue(params[Min(name)], w.value)]
          [] OTHER -> [param |-> 0, value |-> NULL]
  BY DEF find_flag, ByLetter, ByName, OrTrue
<1> HIDE DEF letter, name
<1>2. Min({i}) = i
  BY LeastOfOne
<1>3. letter = {i} =>
         find_flag(params, w) = [param |-> i, value |-> OrTrue(params[i], w.text)]
  BY <1>1, <1>2
<1>4. letter = {} /\ name = {i} =>
         find_flag(params, w) =
           [param |-> i, value |-> IF w.no THEN "false" ELSE OrTrue(params[i], w.value)]
  BY <1>1, <1>2
<1>5. letter = {} /\ name = {} => find_flag(params, w) = [param |-> 0, value |-> NULL]
  BY <1>1
<1>6. QED
  BY <1>3, <1>4, <1>5 DEF letter, name

LEMMA FlagByLetter ==
    ASSUME NEW params, ParamsDistinct(params), DOMAIN params \subseteq Nat,
           NEW i \in DOMAIN params, IsFlag(params[i]), params[i].ch # "", NEW t
    PROVE  find_flag(params, Short(params[i].ch, t))
             = [param |-> i, value |-> OrTrue(params[i], t)]
<1> DEFINE w == Short(params[i].ch, t)
<1>1. w.dash = 1 /\ w.ch = params[i].ch /\ w.text = t
  BY DEF Short
<1> HIDE DEF w
<1>2. ByLetter(params, w) = {i}
  BY <1>1 DEF ByLetter, ParamsDistinct
<1>3. QED
  BY <1>1, <1>2, FlagFound DEF w

LEMMA FlagByName ==
    ASSUME NEW params, ParamsDistinct(params), DOMAIN params \subseteq Nat,
           NEW i \in DOMAIN params, IsFlag(params[i]), NEW v
    PROVE  /\ find_flag(params, Long(params[i].name, v))
                = [param |-> i, value |-> OrTrue(params[i], v)]
           /\ find_flag(params, Short("?", params[i].name))
                = [param |-> i, value |-> OrTrue(params[i], NULL)]
<1> DEFINE w == Long(params[i].name, v)
           u == Short("?", params[i].name)
<1>1. w.dash = 2 /\ w.name = params[i].name /\ w.value = v /\ w.no = FALSE
  BY DEF Long
<1>2. /\ u.dash = 1 /\ u.ch = "?" /\ u.name = params[i].name /\ u.value = NULL
      /\ u.no = FALSE
  BY DEF Short
<1> HIDE DEF w, u
<1>3. ByLetter(params, w) = {} /\ ByName(params, w) = {i}
  <2>1. w.dash # 1 /\ ~w.no
    BY <1>1
  <2>2. ByLetter(params, w) = {}
    BY <2>1 DEF ByLetter
  <2>3. \A j \in DOMAIN params : params[j].name = w.name <=> j = i
    BY <1>1 DEF ParamsDistinct
  <2>4. ByName(params, w) = {i}
    BY <2>1, <2>3 DEF ByName
  <2>5. QED
    BY <2>2, <2>4
<1>4. ByLetter(params, u) = {} /\ ByName(params, u) = {i}
  BY <1>2 DEF ByLetter, ByName, ParamsDistinct
<1>5. find_flag(params, w) = [param |-> i, value |-> OrTrue(params[i], v)]
  BY <1>1, <1>3, FlagFound
<1>6. find_flag(params, u) = [param |-> i, value |-> OrTrue(params[i], NULL)]
  BY <1>2, <1>4, FlagFound
<1>7. QED
  BY <1>5, <1>6 DEF w, u

LEMMA FlagByNo ==
    ASSUME NEW params, ParamsDistinct(params), DOMAIN params \subseteq Nat,
           NEW i \in DOMAIN params
    PROVE  find_flag(params, No(params[i].name))
             = IF params[i].type = "bool" THEN [param |-> i, value |-> "false"]
               ELSE [param |-> 0, value |-> NULL]
<1> DEFINE w == No(params[i].name)
<1>1. w.dash = 2 /\ w.name = params[i].name /\ w.no = TRUE
  BY DEF No
<1> HIDE DEF w
<1>2. ByLetter(params, w) = {}
  BY <1>1 DEF ByLetter
<1>3. ByName(params, w) = IF params[i].type = "bool" THEN {i} ELSE {}
  <2>1. w.dash # 1 /\ w.no
    BY <1>1
  <2>2. \A j \in DOMAIN params : params[j].name = w.name <=> j = i
    BY <1>1 DEF ParamsDistinct
  <2>3. QED
    BY <2>1, <2>2 DEF ByName
<1>4. CASE params[i].type = "bool"
  BY <1>1, <1>2, <1>3, <1>4, FlagFound DEF w
<1>5. CASE params[i].type # "bool"
  BY <1>1, <1>2, <1>3, <1>5, FlagFound DEF w
<1>6. QED
  BY <1>4, <1>5

LEMMA FlagNotFound ==
    ASSUME NEW params, NEW w, ByLetter(params, w) = {}, ByName(params, w) = {}
    PROVE  find_flag(params, w).param = 0
<1>1. PICK i \in Nat : i = 0
  OBVIOUS
<1>2. find_flag(params, w) = [param |-> 0, value |-> NULL]
  BY FlagFound
<1>3. QED
  BY <1>2

LEMMA NoFlag ==
    ASSUME NEW params, ParamsDistinct(params), NEW w, w.dash # 0, w.no = FALSE,
           \/ w.dash # 1 /\ (w.name = "unknown" \/ w.name = "help")
           \/ w.dash = 1 /\ w.ch = ""
           \/ w.dash = 1 /\ w.ch = "1" /\ w.name = NULL
    PROVE  find_flag(params, w).param = 0
<1>1. \A j \in DOMAIN params :
         /\ params[j].name # "unknown" /\ params[j].name # "help"
         /\ params[j].name # NULL /\ params[j].ch # "1"
  BY DEF ParamsDistinct
<1>2. ByLetter(params, w) = {}
  BY <1>1 DEF ByLetter
<1>3. ByName(params, w) = {}
  BY <1>1 DEF ByName
<1>4. QED
  BY <1>2, <1>3, FlagNotFound

\* Slips are for no parameter, nor is a negative number.
LEMMA SlipsAreNoFlags ==
    ASSUME NEW params, ParamsDistinct(params)
    PROVE  /\ find_flag(params, Long("unknown", NULL)).param = 0
           /\ find_flag(params, Long("help", NULL)).param = 0
           /\ find_flag(params, Short("", NULL)).param = 0
           /\ find_flag(params, Short("1", NULL)).param = 0
<1>1. find_flag(params, Long("unknown", NULL)).param = 0
  <2> DEFINE w == Long("unknown", NULL)
  <2>1. w.dash # 0 /\ w.dash # 1 /\ w.no = FALSE /\ w.name = "unknown"
    BY DEF Long
  <2> HIDE DEF w
  <2>2. find_flag(params, w).param = 0
    BY <2>1, NoFlag
  <2>3. QED
    BY <2>2 DEF w
<1>2. find_flag(params, Long("help", NULL)).param = 0
  <2> DEFINE w == Long("help", NULL)
  <2>1. w.dash # 0 /\ w.dash # 1 /\ w.no = FALSE /\ w.name = "help"
    BY DEF Long
  <2> HIDE DEF w
  <2>2. find_flag(params, w).param = 0
    BY <2>1, NoFlag
  <2>3. QED
    BY <2>2 DEF w
<1>3. find_flag(params, Short("", NULL)).param = 0
  <2> DEFINE w == Short("", NULL)
  <2>1. w.dash # 0 /\ w.dash = 1 /\ w.no = FALSE /\ w.ch = ""
    BY DEF Short
  <2> HIDE DEF w
  <2>2. find_flag(params, w).param = 0
    BY <2>1, NoFlag
  <2>3. QED
    BY <2>2 DEF w
<1>4. find_flag(params, Short("1", NULL)).param = 0
  <2> DEFINE w == Short("1", NULL)
  <2>1. w.dash # 0 /\ w.dash = 1 /\ w.no = FALSE /\ w.ch = "1" /\ w.name = NULL
    BY DEF Short
  <2> HIDE DEF w
  <2>2. find_flag(params, w).param = 0
    BY <2>1, NoFlag
  <2>3. QED
    BY <2>2 DEF w
<1>5. QED
  BY <1>1, <1>2, <1>3, <1>4


\* A word in front of others.
LEMMA WordInFront ==
    ASSUME NEW a \in Word, NEW rest \in Seq(Word)
    PROVE  LET argv == <<a>> \o rest IN
           /\ argv \in Seq(Word) /\ argv # <<>> /\ Len(argv) = Len(rest) + 1
           /\ Head(argv) = a /\ Tail(argv) = rest
           /\ SubSeq(argv, 2, Len(argv)) = rest
           /\ rest # <<>> => /\ argv[2] = Head(rest)
                             /\ SubSeq(argv, 3, Len(argv)) = Tail(rest)
<1> DEFINE argv == <<a>> \o rest
<1>1. Len(rest) \in Nat
  OBVIOUS
<1>2. /\ argv \in Seq(Word) /\ Len(argv) = Len(rest) + 1 /\ argv[1] = a
      /\ \A k \in 1..Len(rest) : argv[k + 1] = rest[k]
  OBVIOUS
<1> HIDE DEF argv
<1>3. argv # <<>> /\ Head(argv) = a
  BY <1>1, <1>2
<1>4. /\ SubSeq(argv, 2, Len(argv)) \in Seq(Word)
      /\ Len(SubSeq(argv, 2, Len(argv))) = Len(rest)
      /\ \A k \in 1..Len(rest) : SubSeq(argv, 2, Len(argv))[k] = argv[k + 1]
  BY <1>1, <1>2
<1>5. SubSeq(argv, 2, Len(argv)) = rest
  <2> DEFINE s == SubSeq(argv, 2, Len(argv))
  <2>1. s \in Seq(Word) /\ Len(s) = Len(rest) /\ \A k \in 1..Len(rest) : s[k] = rest[k]
    BY <1>2, <1>4
  <2> HIDE DEF s
  <2>2. s = rest
    BY <2>1
  <2>3. QED
    BY <2>2 DEF s
<1>6. Tail(argv) = rest
  BY <1>1, <1>2, <1>3, <1>5
<1>7. ASSUME rest # <<>>
      PROVE  argv[2] = Head(rest) /\ SubSeq(argv, 3, Len(argv)) = Tail(rest)
  <2>1. Len(rest) >= 1 /\ 1 + 1 = 2 /\ 1 \in 1..Len(rest)
    BY <1>1, <1>7
  <2>2. argv[2] = rest[1] /\ Head(rest) = rest[1]
    BY <1>2, <1>7, <2>1
  <2> DEFINE s == SubSeq(argv, 3, Len(argv))
             t == Tail(rest)
  <2>3. /\ s \in Seq(Word) /\ Len(s) = Len(rest) - 1
        /\ \A k \in 1..(Len(rest) - 1) : s[k] = argv[k + 2]
    <3>1. 3 \in 1..(Len(argv) + 1) /\ Len(argv) \in Nat
      BY <1>1, <1>2, <2>1
    <3>2. s \in Seq(Word)
      BY <1>2, <3>1
    <3>3. Len(s) = Len(rest) - 1
      <4>1. Len(s) = IF 3 <= Len(argv) THEN Len(argv) - 3 + 1 ELSE 0
        <5>1. \A k \in 3..Len(argv) : argv[k] \in Word
          BY <1>2
        <5>2. QED
          BY <3>1, <5>1, SubSeqProperties
      <4> HIDE DEF s
      <4>2. PICK n \in Nat : n = Len(rest)
        BY <1>1
      <4>3. n >= 1 /\ Len(argv) = n + 1
        BY <1>2, <2>1, <4>2
      <4>4. Len(s) = IF 3 <= n + 1 THEN (n + 1) - 3 + 1 ELSE 0
        BY <4>1, <4>3
      <4>5. Len(s) = n - 1
        BY <4>3, <4>4
      <4>6. QED
        BY <4>2, <4>5
    <3>4. \A k \in 1..(Len(rest) - 1) : s[k] = argv[k + 2]
      BY <1>1, <1>2, <2>1, <3>1
    <3>5. QED
      BY <3>2, <3>3, <3>4
  <2>4. /\ t \in Seq(Word) /\ Len(t) = Len(rest) - 1
        /\ \A k \in 1..(Len(rest) - 1) : t[k] = rest[k + 1]
    BY <1>7, <2>1
  <2>5. \A k \in 1..(Len(rest) - 1) : argv[k + 2] = rest[k + 1]
    <3> TAKE k \in 1..(Len(rest) - 1)
    <3>1. k + 1 \in 1..Len(rest) /\ (k + 1) + 1 = k + 2
      BY <1>1
    <3>2. QED
      BY <1>2, <3>1
  <2> HIDE DEF s, t
  <2>6. s = t
    BY <2>3, <2>4, <2>5
  <2>7. QED
    BY <2>2, <2>6 DEF s, t
<1>8. QED
  BY <1>2, <1>3, <1>5, <1>6, <1>7 DEF argv

\* What one turn of the loop does with a flag: it is not known, it has its value,
\* it takes the next word for it, or it lacks one.
LEMMA FlagUnknown ==
    ASSUME NEW params, NEW values, NEW a \in Word, NEW rest \in Seq(Word),
           find_flag(params, a).param = 0
    PROVE  FillFlag(params, values, <<a>> \o rest).ok = FALSE
<1>1. Head(<<a>> \o rest) = a
  BY WordInFront
<1>2. QED
  BY <1>1 DEF FillFlag

Fills(params, values, argv, rest, i, v) ==
    LET fill == FillFlag(params, values, argv) IN
    /\ fill.ok = TRUE /\ fill.words = rest
    /\ fill.values = [j \in DOMAIN values |-> IF j = i THEN v ELSE values[j]]

LEMMA FlagWithValue ==
    ASSUME NEW params, NEW values, NEW a \in Word, NEW rest \in Seq(Word),
           NEW i \in Nat \ {0}, NEW v, v # NULL,
           find_flag(params, a) = [param |-> i, value |-> v]
    PROVE  Fills(params, values, <<a>> \o rest, rest, i, v)
<1> DEFINE argv == <<a>> \o rest
           found == find_flag(params, a)
<1>1. Head(argv) = a /\ SubSeq(argv, 2, Len(argv)) = rest
  BY WordInFront
<1>2. found.param = i /\ found.value = v /\ i # 0
  OBVIOUS
<1> HIDE DEF argv, found
<1>3. find_flag(params, Head(argv)) = found
  BY <1>1 DEF found
<1>4. /\ FillFlag(params, values, argv).ok = TRUE
      /\ FillFlag(params, values, argv).words = SubSeq(argv, 2, Len(argv))
      /\ FillFlag(params, values, argv).values
           = [j \in DOMAIN values |-> IF j = i THEN v ELSE values[j]]
  BY <1>2, <1>3 DEF FillFlag
<1>5. QED
  BY <1>1, <1>4 DEF argv, Fills

LEMMA FlagWithNext ==
    ASSUME NEW params, NEW values, NEW a \in Word, NEW rest \in Seq(Word),
           rest # <<>>, Head(rest).dash = 0, NEW i \in Nat \ {0},
           find_flag(params, a) = [param |-> i, value |-> NULL]
    PROVE  Fills(params, values, <<a>> \o rest, Tail(rest), i, Head(rest).text)
<1> DEFINE argv == <<a>> \o rest
           found == find_flag(params, a)
<1>1. /\ Head(argv) = a /\ SubSeq(argv, 3, Len(argv)) = Tail(rest)
      /\ argv[2] = Head(rest) /\ Len(argv) = Len(rest) + 1
  BY WordInFront
<1>2. Len(argv) # 1
  BY <1>1
<1>3. found.param = i /\ found.value = NULL /\ i # 0
  OBVIOUS
<1> HIDE DEF argv, found
<1>4. find_flag(params, Head(argv)) = found
  BY <1>1 DEF found
<1>5. argv[2].dash = 0
  BY <1>1
<1>6. /\ FillFlag(params, values, argv).ok = TRUE
      /\ FillFlag(params, values, argv).words = SubSeq(argv, 3, Len(argv))
      /\ FillFlag(params, values, argv).values
           = [j \in DOMAIN values |-> IF j = i THEN argv[2].text ELSE values[j]]
  BY <1>2, <1>3, <1>4, <1>5 DEF FillFlag
<1>7. QED
  BY <1>1, <1>6, ZenonT(40) DEF argv, Fills

LEMMA FlagLacking ==
    ASSUME NEW params, NEW values, NEW a \in Word, NEW rest \in Seq(Word),
           rest = <<>> \/ Head(rest).dash # 0, NEW i \in Nat \ {0},
           find_flag(params, a) = [param |-> i, value |-> NULL]
    PROVE  FillFlag(params, values, <<a>> \o rest).ok = FALSE
<1> DEFINE argv == <<a>> \o rest
           found == find_flag(params, a)
<1>1. /\ Head(argv) = a /\ Len(argv) = Len(rest) + 1
      /\ rest # <<>> => argv[2] = Head(rest)
  BY WordInFront
<1>2. rest = <<>> => Len(argv) = 1
  BY <1>1
<1>3. found.param = i /\ found.value = NULL /\ i # 0
  OBVIOUS
<1> HIDE DEF argv, found
<1>4. find_flag(params, Head(argv)) = found
  BY <1>1 DEF found
<1>5. Len(argv) = 1 \/ argv[2].dash # 0
  BY <1>1, <1>2
<1>6. FillFlag(params, values, argv).ok = FALSE
  BY <1>3, <1>4, <1>5 DEF FillFlag
<1>7. QED
  BY <1>6 DEF argv


-----------------------------------------------------------------------------
(* One item of a line                                                      *)

\* What an item means for its parameter.
MeantValue(x) == IF x.form \in BareForms THEN "true"
                 ELSE IF x.form = "no" THEN "false" ELSE x.value

\* The turn of the loop takes the item x from the words and gives its value to
\* parameter i.
Taking(params, values, x, rest, i) ==
    Fills(params, values, Render(x) \o rest, rest, i, MeantValue(x))

\* Words as an item writes them.
LEMMA RenderedForms ==
    ASSUME NEW x, Spelled(x)
    PROVE  LET p == x.param v == x.value IN
           /\ x.form = "long" => Render(x) = <<Long(p.name, v)>>
           /\ x.form = "long next" => Render(x) = <<Long(p.name, NULL), ValueWord(v)>>
           /\ x.form = "short" => Render(x) = <<Short(p.ch, v)>>
           /\ x.form = "short next" => Render(x) = <<Short(p.ch, NULL), ValueWord(v)>>
           /\ x.form = "bare" => Render(x) = <<Long(p.name, NULL)>>
           /\ x.form = "short bare" => Render(x) = <<Short(p.ch, NULL)>>
           /\ x.form = "no" => Render(x) = <<No(p.name)>>
           /\ x.form = "letter" => Render(x) = <<Short("?", p.name)>>
           /\ x.form = "plain" => Render(x) = <<ValueWord(v)>>
           /\ x.form = "unknown" => Render(x) = <<Long("unknown", NULL)>>
           /\ x.form = "dash" => Render(x) = <<Short("", NULL)>>
           /\ x.form = "help" => Render(x) = <<Long("help", NULL)>>
BY DEF Render

LEMMA FormsAre ==
    ASSUME NEW x, Spelled(x)
    PROVE  \/ x.form = "long" \/ x.form = "long next" \/ x.form = "short"
           \/ x.form = "short next" \/ x.form = "plain" \/ x.form = "bare"
           \/ x.form = "short bare" \/ x.form = "letter" \/ x.form = "unknown"
           \/ x.form = "dash" \/ x.form = "help" \/ x.form = "no"
BY DEF Spelled, ValueForms, BareForms, Slips

\* The words that items begin with: flags, but for a plain value.
LEMMA WordFacts ==
    ASSUME NEW x, Spelled(x)
    PROVE  LET p == x.param v == x.value IN
           /\ Long(p.name, v) \in Word /\ Long(p.name, v).dash # 0
           /\ Long(p.name, NULL) \in Word /\ Long(p.name, NULL).dash # 0
           /\ Short(p.ch, v) \in Word /\ Short(p.ch, v).dash # 0
           /\ Short(p.ch, NULL) \in Word /\ Short(p.ch, NULL).dash # 0
           /\ No(p.name) \in Word /\ No(p.name).dash # 0
           /\ Short("?", p.name) \in Word /\ Short("?", p.name).dash # 0
           /\ Long("unknown", NULL) \in Word /\ Long("unknown", NULL).dash # 0
           /\ Short("", NULL) \in Word /\ Short("", NULL).dash # 0
           /\ Long("help", NULL) \in Word /\ Long("help", NULL).dash # 0
<1> DEFINE p == x.param
           v == x.value
<1>1. {p.name, p.ch, v, NULL, "?", "", "unknown", "help"} \subseteq Text
  BY DEF Spelled, Text
<1>2. \A n, u : Long(n, u).dash # 0 /\ Short(n, u).dash # 0 /\ No(n).dash # 0
  BY DEF Long, Short, No
<1>3. \A n, u \in Text :
           Long(n, u) \in Word /\ Short(n, u) \in Word /\ No(n) \in Word
  BY WordTypes
<1> HIDE DEF p, v
<1>4. QED
  BY <1>1, <1>2, <1>3 DEF p, v

\* The only word that asks for help.
LEMMA NotHelp ==
    ASSUME NEW n, NEW v
    PROVE  /\ n # "help" => Long(n, v) # Long("help", NULL)
           /\ Short(n, v) # Long("help", NULL)
           /\ No(n) # Long("help", NULL)
<1> DEFINE h == Long("help", NULL)
<1>1. h.dash = 2 /\ h.name = "help" /\ h.no = FALSE
  BY DEF Long
<1>2. Long(n, v).name = n /\ Short(n, v).dash = 1 /\ No(n).no = TRUE
  BY DEF Long, Short, No
<1> HIDE DEF h
<1>3. Long(n, v) = h => n = "help"
  BY <1>1, <1>2
<1>4. Short(n, v) # h
  BY <1>1, <1>2
<1>5. No(n) # h
  BY <1>1, <1>2
<1>6. QED
  BY <1>3, <1>4, <1>5 DEF h

LEMMA TakesWord ==
    ASSUME NEW params, NEW values, NEW x, NEW rest \in Seq(Word),
           NEW a \in Word, Render(x) = <<a>>, NEW i \in Nat \ {0},
           MeantValue(x) # NULL,
           find_flag(params, a) = [param |-> i, value |-> MeantValue(x)]
    PROVE  Taking(params, values, x, rest, i)
BY FlagWithValue DEF Taking

LEMMA TwoWords ==
    ASSUME NEW a \in Word, NEW b \in Word, NEW rest \in Seq(Word)
    PROVE  /\ <<a, b>> \o rest = <<a>> \o (<<b>> \o rest)
           /\ <<b>> \o rest \in Seq(Word)
<1> DEFINE s == <<a, b>> \o rest
           r == <<b>> \o rest
           t == <<a>> \o r
<1>1. r \in Seq(Word) /\ Len(r) = Len(rest) + 1 /\ r[1] = b
      /\ \A k \in 1..Len(rest) : r[k + 1] = rest[k]
  OBVIOUS
<1>2. s \in Seq(Word) /\ Len(s) = Len(rest) + 2 /\ s[1] = a /\ s[2] = b
      /\ \A k \in 1..Len(rest) : s[k + 2] = rest[k]
  OBVIOUS
<1>3. Len(rest) \in Nat
  OBVIOUS
<1> HIDE DEF s, r
<1>4. t \in Seq(Word) /\ Len(t) = Len(r) + 1 /\ t[1] = a
      /\ \A k \in 1..Len(r) : t[k + 1] = r[k]
  BY <1>1
<1> HIDE DEF t
<1>5. ASSUME NEW k \in 1..Len(s) PROVE s[k] = t[k]
  <2>1. CASE k = 1
    BY <1>2, <1>4, <2>1
  <2>2. CASE k = 2
    <3>1. 1 \in 1..Len(r) /\ 1 + 1 = 2
      BY <1>1, <1>3
    <3>2. QED
      BY <1>1, <1>2, <1>4, <2>2, <3>1
  <2>3. CASE k # 1 /\ k # 2
    <3>1. /\ k - 2 \in 1..Len(rest) /\ (k - 2) + 2 = k /\ (k - 2) + 1 = k - 1
          /\ k - 1 \in 1..Len(r) /\ (k - 1) + 1 = k
      BY <1>1, <1>2, <1>3, <2>3
    <3>2. PICK m \in 1..Len(rest) : m = k - 2
      BY <3>1
    <3>3. s[k] = rest[m]
      BY <1>2, <3>1, <3>2
    <3>4. t[k] = r[k - 1]
      BY <1>4, <3>1
    <3>5. r[k - 1] = rest[m]
      BY <1>1, <3>1, <3>2
    <3>6. QED
      BY <3>3, <3>4, <3>5
  <2>4. QED
    BY <2>1, <2>2, <2>3
<1>6. s = t
  BY <1>1, <1>2, <1>3, <1>4, <1>5
<1>7. QED
  BY <1>1, <1>6 DEF s, r, t

LEMMA TakesTwoWords ==
    ASSUME NEW params, NEW values, NEW x, NEW rest \in Seq(Word),
           NEW a \in Word, x.value \in STRING, x.value # "-1",
           Render(x) = <<a, ValueWord(x.value)>>, NEW i \in Nat \ {0},
           MeantValue(x) = x.value,
           find_flag(params, a) = [param |-> i, value |-> NULL]
    PROVE  Taking(params, values, x, rest, i)
<1> DEFINE b == ValueWord(x.value)
           r == <<b>> \o rest
<1>1. b \in Word /\ b.dash = 0 /\ b.text = x.value
  BY ValueIsWord
<1> HIDE DEF b
<1>2. Render(x) \o rest = <<a>> \o r /\ r \in Seq(Word)
  BY <1>1, TwoWords DEF b
<1>3. r # <<>> /\ Head(r) = b /\ Tail(r) = rest
  BY <1>1, WordInFront
<1> HIDE DEF r
<1>4. Head(r).dash = 0 /\ Head(r).text = MeantValue(x)
  BY <1>1, <1>3
<1>5. Fills(params, values, <<a>> \o r, Tail(r), i, Head(r).text)
  BY <1>2, <1>3, <1>4, FlagWithNext
<1>6. QED
  BY <1>2, <1>3, <1>4, <1>5 DEF Taking


LEMMA BeginsWithFlag ==
    ASSUME NEW x, Spelled(x), x.form # "plain", NEW rest \in Seq(Word)
    PROVE  LET argv == Render(x) \o rest IN
           /\ argv # <<>> /\ Head(argv).dash # 0
           /\ x.form # "help" /\ x.param.name # "help" => Head(argv) # Long("help", NULL)
<1> DEFINE p == x.param
           v == x.value
           Fine(a) == /\ a \in Word /\ a.dash # 0
                      /\ x.form # "help" /\ p.name # "help" => a # Long("help", NULL)
<1>1. /\ Fine(Long(p.name, v)) /\ Fine(Long(p.name, NULL)) /\ Fine(Short(p.ch, v))
      /\ Fine(Short(p.ch, NULL)) /\ Fine(No(p.name)) /\ Fine(Short("?", p.name))
      /\ Fine(Long("unknown", NULL)) /\ Fine(Short("", NULL))
      /\ x.form = "help" => Fine(Long("help", NULL))
  <2>1. /\ \A n, u : /\ n # "help" => Long(n, u) # Long("help", NULL)
                     /\ Short(n, u) # Long("help", NULL)
                     /\ No(n) # Long("help", NULL)
        /\ "unknown" # "help"
    BY NotHelp
  <2>2. QED
    BY <2>1, WordFacts
<1> HIDE DEF Fine
<1>2. PICK a : /\ Fine(a)
               /\ Render(x) = <<a>> \/ Render(x) = <<a, ValueWord(v)>>
  <2> HIDE DEF p, v
  <2>1. CASE x.form = "long" \/ x.form = "bare"
    BY <1>1, <2>1, RenderedForms DEF p, v
  <2>2. CASE x.form = "long next" \/ x.form = "short next"
    BY <1>1, <2>2, RenderedForms DEF p, v
  <2>3. CASE x.form = "short" \/ x.form = "short bare"
    BY <1>1, <2>3, RenderedForms DEF p, v
  <2>4. CASE x.form = "letter" \/ x.form = "no"
    BY <1>1, <2>4, RenderedForms DEF p, v
  <2>5. CASE x.form = "unknown" \/ x.form = "dash" \/ x.form = "help"
    BY <1>1, <2>5, RenderedForms DEF p, v
  <2>6. QED
    BY <2>1, <2>2, <2>3, <2>4, <2>5, FormsAre
<1>3. PICK r \in Seq(Word) : Render(x) \o rest = <<a>> \o r
  <2>1. a \in Word /\ ValueWord(v) \in Word
    BY <1>2, ValueIsWord DEF Fine, Spelled
  <2>2. <<a, ValueWord(v)>> \o rest = <<a>> \o (<<ValueWord(v)>> \o rest)
        /\ <<ValueWord(v)>> \o rest \in Seq(Word)
    BY <2>1, TwoWords
  <2>3. QED
    BY <1>2, <2>2
<1>4. a \in Word /\ <<a>> \o r # <<>> /\ Head(<<a>> \o r) = a
  <2>1. a \in Word
    BY <1>2 DEF Fine
  <2>2. QED
    BY <2>1, WordInFront
<1>5. QED
  BY <1>2, <1>3, <1>4 DEF Fine

\* The parameter of an item that is neither a slip nor a word too many.
LEMMA ItemsParam ==
    ASSUME NEW params, NEW x, Spelled(x), Writable(params, x), x.form \notin Slips,
           x.form = "plain" => find_positional_param(params) # {}
    PROVE  /\ \E i \in DOMAIN params : x.param = params[i]
           /\ (x.form = "plain") = ~IsFlag(x.param)
           /\ x.form \in ValueForms => x.value # NULL
           /\ x.form \in {"long next", "short next"} => x.param.type = "value"
           /\ x.form \in {"short", "short next", "short bare"} => x.param.ch # ""
BY DEF Writable, ToSet

\* An item that is not wrong gives its value to its parameter.
LEMMA ItemFilled ==
    ASSUME NEW params, ParamsDistinct(params), DOMAIN params \subseteq Nat \ {0},
           NEW values, NEW x, Spelled(x), Writable(params, x), ~Wrong(params, x),
           x.form # "plain", NEW rest \in Seq(Word)
    PROVE  \E i \in DOMAIN params :
              x.param = params[i] /\ Taking(params, values, x, rest, i)
<1>1. /\ x.form # "unknown" /\ x.form # "dash" /\ x.form # "help"
      /\ x.form = "bare" \/ x.form = "short bare" \/ x.form = "letter" =>
           x.param.type # "value"
      /\ x.form = "no" => x.param.type = "bool"
      /\ x.form = "long next" \/ x.form = "short next" => x.value # "-1"
  BY DEF Wrong
<1>2. /\ \E i \in DOMAIN params : x.param = params[i]
      /\ (x.form = "plain") = ~IsFlag(x.param)
      /\ x.form \in ValueForms => x.value # NULL
      /\ x.form \in {"long next", "short next"} => x.param.type = "value"
      /\ x.form \in {"short", "short next", "short bare"} => x.param.ch # ""
  <2>1. x.form \notin Slips
    BY <1>1 DEF Slips
  <2>2. QED
    BY <2>1, ItemsParam
<1>3. PICK i \in DOMAIN params : x.param = params[i]
  BY <1>2
<1>4. /\ i \in Nat \ {0} /\ DOMAIN params \subseteq Nat /\ IsFlag(params[i])
      /\ params[i].type = "value" \/ params[i].type = "bool"
  BY <1>2, <1>3 DEF ParamsDistinct, IsFlag
<1> DEFINE p == params[i]
           v == x.value
<1>5. v \in STRING /\ p = x.param
  BY <1>3 DEF Spelled
<1> HIDE DEF p
<1>6. SUFFICES Taking(params, values, x, rest, i)
  BY <1>3
<1>7. CASE x.form = "long" \/ x.form = "short"
  <2>1. v # NULL /\ MeantValue(x) = v
    BY <1>2, <1>7 DEF MeantValue, ValueForms, BareForms
  <2>2. OrTrue(p, v) = v
    BY <2>1 DEF OrTrue
  <2>3. CASE x.form = "long"
    <3>1. Render(x) = <<Long(p.name, v)>> /\ Long(p.name, v) \in Word
      BY <1>5, <2>3, RenderedForms, WordFacts
    <3>2. find_flag(params, Long(p.name, v)) = [param |-> i, value |-> v]
      BY <1>4, <2>2, FlagByName, ZenonT(40) DEF p
    <3>3. QED
      BY <1>4, <2>1, <3>1, <3>2, TakesWord
  <2>4. CASE x.form = "short"
    <3>1. Render(x) = <<Short(p.ch, v)>> /\ Short(p.ch, v) \in Word
      BY <1>5, <2>4, RenderedForms, WordFacts
    <3>2. find_flag(params, Short(p.ch, v)) = [param |-> i, value |-> v]
      BY <1>2, <1>4, <1>5, <2>2, <2>4, FlagByLetter, ZenonT(40) DEF p
    <3>3. QED
      BY <1>4, <2>1, <3>1, <3>2, TakesWord
  <2>5. QED
    BY <1>7, <2>3, <2>4
<1>8. CASE x.form = "bare" \/ x.form = "short bare" \/ x.form = "letter"
  <2>1. p.type = "bool" /\ MeantValue(x) = "true" /\ "true" # NULL
    BY <1>1, <1>4, <1>5, <1>8 DEF MeantValue, BareForms, NULL, p
  <2>2. OrTrue(p, NULL) = "true"
    BY <2>1 DEF OrTrue
  <2>3. CASE x.form = "bare"
    <3>1. Render(x) = <<Long(p.name, NULL)>> /\ Long(p.name, NULL) \in Word
      BY <1>5, <2>3, RenderedForms, WordFacts
    <3>2. find_flag(params, Long(p.name, NULL)) = [param |-> i, value |-> "true"]
      BY <1>4, <2>2, FlagByName DEF p
    <3>3. QED
      BY <1>4, <2>1, <3>1, <3>2, TakesWord
  <2>4. CASE x.form = "short bare"
    <3>1. Render(x) = <<Short(p.ch, NULL)>> /\ Short(p.ch, NULL) \in Word
      BY <1>5, <2>4, RenderedForms, WordFacts
    <3>2. find_flag(params, Short(p.ch, NULL)) = [param |-> i, value |-> "true"]
      BY <1>2, <1>4, <1>5, <2>2, <2>4, FlagByLetter DEF p
    <3>3. QED
      BY <1>4, <2>1, <3>1, <3>2, TakesWord
  <2>5. CASE x.form = "letter"
    <3>1. Render(x) = <<Short("?", p.name)>> /\ Short("?", p.name) \in Word
      BY <1>5, <2>5, RenderedForms, WordFacts
    <3>2. find_flag(params, Short("?", p.name)) = [param |-> i, value |-> "true"]
      BY <1>4, <2>2, FlagByName DEF p
    <3>3. QED
      BY <1>4, <2>1, <3>1, <3>2, TakesWord
  <2>6. QED
    BY <1>8, <2>3, <2>4, <2>5
<1>9. CASE x.form = "no"
  <2>1. p.type = "bool" /\ MeantValue(x) = "false" /\ "false" # NULL
    BY <1>1, <1>5, <1>9 DEF MeantValue, BareForms, NULL
  <2>2. Render(x) = <<No(p.name)>> /\ No(p.name) \in Word
    BY <1>5, <1>9, RenderedForms, WordFacts
  <2>3. find_flag(params, No(p.name)) = [param |-> i, value |-> "false"]
    BY <1>4, <2>1, FlagByNo DEF p
  <2>4. QED
    BY <1>4, <2>1, <2>2, <2>3, TakesWord
<1>10. CASE x.form = "long next" \/ x.form = "short next"
  <2>1. /\ v # "-1" /\ MeantValue(x) = v /\ p.type = "value"
    BY <1>1, <1>2, <1>5, <1>10 DEF MeantValue, BareForms
  <2>2. OrTrue(p, NULL) = NULL
    BY <2>1 DEF OrTrue
  <2>3. CASE x.form = "long next"
    <3>1. /\ Render(x) = <<Long(p.name, NULL), ValueWord(v)>>
          /\ Long(p.name, NULL) \in Word
      BY <1>5, <2>3, RenderedForms, WordFacts
    <3>2. find_flag(params, Long(p.name, NULL)) = [param |-> i, value |-> NULL]
      BY <1>4, <2>2, FlagByName DEF p
    <3>3. QED
      BY <1>4, <1>5, <2>1, <3>1, <3>2, TakesTwoWords
  <2>4. CASE x.form = "short next"
    <3>1. /\ Render(x) = <<Short(p.ch, NULL), ValueWord(v)>>
          /\ Short(p.ch, NULL) \in Word
      BY <1>5, <2>4, RenderedForms, WordFacts
    <3>2. find_flag(params, Short(p.ch, NULL)) = [param |-> i, value |-> NULL]
      BY <1>2, <1>4, <1>5, <2>2, <2>4, FlagByLetter DEF p
    <3>3. QED
      BY <1>4, <1>5, <2>1, <3>1, <3>2, TakesTwoWords
  <2>5. QED
    BY <1>10, <2>3, <2>4
<1>11. QED
  BY <1>1, <1>7, <1>8, <1>9, <1>10, FormsAre


LEMMA LackingFound ==
    ASSUME NEW params, ParamsDistinct(params), DOMAIN params \subseteq Nat \ {0},
           NEW x, Spelled(x), Writable(params, x), Lacking(x)
    PROVE  \E i \in DOMAIN params, a \in Word :
              Render(x) = <<a>> /\ find_flag(params, a) = [param |-> i, value |-> NULL]
<1>1. x.param.type = "value"
      /\ (x.form = "bare" \/ x.form = "short bare" \/ x.form = "letter")
  BY DEF Lacking, BareForms
<1>2. /\ \E i \in DOMAIN params : x.param = params[i]
      /\ x.form \in {"short", "short next", "short bare"} => x.param.ch # ""
  <2>1. x.form \notin Slips /\ x.form # "plain"
    BY <1>1 DEF Slips
  <2>2. QED
    BY <2>1, ItemsParam
<1>3. PICK i \in DOMAIN params : x.param = params[i]
  BY <1>2
<1> DEFINE p == params[i]
<1>4. /\ i \in Nat \ {0} /\ DOMAIN params \subseteq Nat /\ IsFlag(params[i])
      /\ p = x.param
  BY <1>1, <1>3 DEF IsFlag
<1>5. OrTrue(p, NULL) = NULL
  BY <1>1, <1>3 DEF OrTrue
<1> HIDE DEF p
<1>6. CASE x.form = "bare"
  <2>1. Render(x) = <<Long(p.name, NULL)>> /\ Long(p.name, NULL) \in Word
    BY <1>4, <1>6, RenderedForms, WordFacts
  <2>2. find_flag(params, Long(p.name, NULL)) = [param |-> i, value |-> NULL]
    BY <1>4, <1>5, FlagByName DEF p
  <2>3. QED
    BY <2>1, <2>2
<1>7. CASE x.form = "short bare"
  <2>1. Render(x) = <<Short(p.ch, NULL)>> /\ Short(p.ch, NULL) \in Word
    BY <1>4, <1>7, RenderedForms, WordFacts
  <2>2. find_flag(params, Short(p.ch, NULL)) = [param |-> i, value |-> NULL]
    BY <1>2, <1>4, <1>5, <1>7, FlagByLetter DEF p
  <2>3. QED
    BY <2>1, <2>2
<1>8. CASE x.form = "letter"
  <2>1. Render(x) = <<Short("?", p.name)>> /\ Short("?", p.name) \in Word
    BY <1>4, <1>8, RenderedForms, WordFacts
  <2>2. find_flag(params, Short("?", p.name)) = [param |-> i, value |-> NULL]
    BY <1>4, <1>5, FlagByName DEF p
  <2>3. QED
    BY <2>1, <2>2
<1>9. QED
  BY <1>1, <1>6, <1>7, <1>8

\* A flag that lacks its value takes the next word, if that is none itself.
LEMMA LackingEats ==
    ASSUME NEW params, ParamsDistinct(params), DOMAIN params \subseteq Nat \ {0},
           NEW values, NEW x, Spelled(x), Writable(params, x), Lacking(x),
           NEW rest \in Seq(Word)
    PROVE  /\ rest = <<>> \/ Head(rest).dash # 0 =>
                FillFlag(params, values, Render(x) \o rest).ok = FALSE
           /\ rest # <<>> /\ Head(rest).dash = 0 =>
                \E i \in DOMAIN params :
                   Fills(params, values, Render(x) \o rest, Tail(rest), i,
                         Head(rest).text)
<1>1. PICK i \in DOMAIN params, a \in Word :
         Render(x) = <<a>> /\ find_flag(params, a) = [param |-> i, value |-> NULL]
  BY LackingFound
<1>2. i \in Nat \ {0}
  OBVIOUS
<1>3. ASSUME rest = <<>> \/ Head(rest).dash # 0
      PROVE  FillFlag(params, values, <<a>> \o rest).ok = FALSE
  BY <1>1, <1>2, <1>3, FlagLacking
<1>4. ASSUME rest # <<>>, Head(rest).dash = 0
      PROVE  Fills(params, values, <<a>> \o rest, Tail(rest), i, Head(rest).text)
  BY <1>1, <1>2, <1>4, FlagWithNext
<1>5. QED
  BY <1>1, <1>3, <1>4

\* A wrong item is refused.
LEMMA ItemRefused ==
    ASSUME NEW params, ParamsDistinct(params), DOMAIN params \subseteq Nat \ {0},
           NEW values, NEW x, Spelled(x), Writable(params, x), Wrong(params, x),
           x.form # "plain", NEW rest \in Seq(Word),
           Lacking(x) => rest = <<>> \/ Head(rest).dash # 0
    PROVE  FillFlag(params, values, Render(x) \o rest).ok = FALSE
<1> DEFINE p == x.param
           v == x.value
<1>1. CASE x.form = "unknown" \/ x.form = "dash" \/ x.form = "help"
  <2>1. PICK a \in Word : Render(x) = <<a>> /\ find_flag(params, a).param = 0
    BY <1>1, RenderedForms, WordFacts, SlipsAreNoFlags
  <2>2. QED
    BY <2>1, FlagUnknown
<1>2. CASE Lacking(x)
  BY <1>2, LackingEats
<1>3. CASE x.form = "no" /\ p.type # "bool"
  <2>1. x.form \notin Slips /\ x.form # "plain"
    BY <1>3 DEF Slips
  <2>2. PICK i \in DOMAIN params : p = params[i]
    BY <2>1, ItemsParam
  <2>3. Render(x) = <<No(params[i].name)>> /\ No(params[i].name) \in Word
    BY <1>3, <2>2, RenderedForms, WordFacts
  <2>4. DOMAIN params \subseteq Nat /\ params[i].type # "bool"
    BY <1>3, <2>2
  <2>5. find_flag(params, No(params[i].name)) = [param |-> 0, value |-> NULL]
    BY <2>4, FlagByNo
  <2>6. find_flag(params, No(params[i].name)).param = 0
    BY <2>5
  <2>7. QED
    BY <2>3, <2>6, FlagUnknown
<1>4. CASE (x.form = "long next" \/ x.form = "short next") /\ v = "-1"
  <2>1. /\ \E i \in DOMAIN params : p = params[i]
        /\ (x.form = "plain") = ~IsFlag(p)
        /\ x.form \in {"long next", "short next"} => p.type = "value"
        /\ x.form \in {"short", "short next", "short bare"} => p.ch # ""
    <3>1. x.form \notin Slips /\ x.form # "plain"
      BY <1>4 DEF Slips
    <3>2. QED
      BY <3>1, ItemsParam
  <2>2. PICK i \in DOMAIN params : p = params[i]
    BY <2>1
  <2>3. /\ i \in Nat \ {0} /\ DOMAIN params \subseteq Nat /\ IsFlag(params[i])
        /\ params[i].type = "value"
    BY <1>4, <2>1, <2>2
  <2>4. OrTrue(params[i], NULL) = NULL
    BY <2>3 DEF OrTrue
  <2>5. PICK a \in Word : /\ Render(x) = <<a, ValueWord(v)>>
                          /\ find_flag(params, a) = [param |-> i, value |-> NULL]
    <3>1. CASE x.form = "long next"
      <4>1. /\ Render(x) = <<Long(params[i].name, NULL), ValueWord(v)>>
            /\ Long(params[i].name, NULL) \in Word
        BY <2>2, <3>1, RenderedForms, WordFacts
      <4>2. find_flag(params, Long(params[i].name, NULL))
              = [param |-> i, value |-> NULL]
        BY <2>3, <2>4, FlagByName
      <4>3. QED
        BY <4>1, <4>2
    <3>2. CASE x.form = "short next"
      <4>1. /\ Render(x) = <<Short(params[i].ch, NULL), ValueWord(v)>>
            /\ Short(params[i].ch, NULL) \in Word
        BY <2>2, <3>2, RenderedForms, WordFacts
      <4>2. find_flag(params, Short(params[i].ch, NULL))
              = [param |-> i, value |-> NULL]
        BY <2>1, <2>2, <2>3, <2>4, <3>2, FlagByLetter
      <4>3. QED
        BY <4>1, <4>2
    <3>3. QED
      BY <1>4, <3>1, <3>2
  <2> DEFINE b == ValueWord(v)
             r == <<b>> \o rest
  <2>6. b \in Word /\ b.dash # 0
    <3>1. v \in STRING
      BY DEF Spelled
    <3>2. QED
      BY <1>4, <3>1, ValueIsWord
  <2> HIDE DEF b
  <2>7. Render(x) \o rest = <<a>> \o r /\ r \in Seq(Word)
    BY <2>5, <2>6, TwoWords, SMTT(30) DEF b
  <2>8. Head(r).dash # 0
    BY <2>6, WordInFront
  <2> HIDE DEF r
  <2>9. FillFlag(params, values, <<a>> \o r).ok = FALSE
    BY <2>3, <2>5, <2>7, <2>8, FlagLacking
  <2>10. QED
    BY <2>7, <2>9
<1>5. QED
  BY <1>1, <1>2, <1>3, <1>4 DEF Wrong, Lacking, BareForms

\* A word that is no flag, or looks like one.
LEMMA PlainWord ==
    ASSUME NEW x, Spelled(x), x.form = "plain", x.value # "-1", NEW rest \in Seq(Word)
    PROVE  LET argv == Render(x) \o rest IN
           /\ argv # <<>> /\ Tail(argv) = rest
           /\ Head(argv).dash = 0 /\ Head(argv).text = x.value
<1> DEFINE b == ValueWord(x.value)
<1>1. b \in Word /\ b.dash = 0 /\ b.text = x.value
  <2>1. x.value \in STRING
    BY DEF Spelled
  <2>2. QED
    BY <2>1, ValueIsWord
<1>2. Render(x) = <<b>>
  BY RenderedForms
<1> HIDE DEF b
<1>3. <<b>> \o rest # <<>> /\ Head(<<b>> \o rest) = b /\ Tail(<<b>> \o rest) = rest
  BY <1>1, WordInFront
<1>4. QED
  BY <1>1, <1>2, <1>3

LEMMA DashedWord ==
    ASSUME NEW params, ParamsDistinct(params), NEW values, NEW x, Spelled(x),
           x.form = "plain", x.value = "-1", NEW rest \in Seq(Word)
    PROVE  LET argv == Render(x) \o rest IN
           Head(argv).dash # 0 /\ FillFlag(params, values, argv).ok = FALSE
<1> DEFINE b == ValueWord(x.value)
<1>1. b \in Word /\ b.dash # 0
  <2>1. x.value \in STRING
    BY DEF Spelled
  <2>2. QED
    BY <2>1, ValueIsWord
<1>2. Render(x) = <<b>>
  BY RenderedForms
<1>3. find_flag(params, b).param = 0
  BY SlipsAreNoFlags DEF ValueWord
<1> HIDE DEF b
<1>4. Head(<<b>> \o rest) = b
  BY <1>1, WordInFront
<1>5. FillFlag(params, values, <<b>> \o rest).ok = FALSE
  BY <1>1, <1>3, FlagUnknown
<1>6. QED
  BY <1>1, <1>2, <1>4, <1>5


-----------------------------------------------------------------------------
(* What is left of a part of the line, and what the rest of it means       *)

\* The words behind the first k items, and the values that those give.
Rest(items, k) == LastWords(items)[Len(items) - k]

MeantUpTo(params, items, k) ==
    [i \in DOMAIN params |->
       LET mine == {j \in 1..k : items[j].param = params[i]}
       IN  IF mine = {} THEN NULL ELSE MeantValue(items[Max(mine)])]

Clean(params, items, k) == \A j \in 1..k : ~Wrong(params, items[j])

LEMMA RestFacts ==
    ASSUME NEW items, Items(items)
    PROVE  /\ Rest(items, 0) = Words(items) /\ Rest(items, Len(items)) = <<>>
           /\ Words(items) \in Seq(Word)
           /\ \A k \in 0..Len(items) : Rest(items, k) \in Seq(Word)
           /\ \A k \in 0..(Len(items) - 1) :
                 /\ Rest(items, k) = Render(items[k + 1]) \o Rest(items, k + 1)
                 /\ Rest(items, k) # <<>>
<1> DEFINE f == LastWords(items)
           n == Len(items)
<1>1. n \in Nat
  BY ItemsFacts
<1>2. /\ f[0] = <<>> /\ \A m \in 0..n : f[m] \in Seq(Word)
      /\ \A m \in 1..n : f[m] = Render(items[n - (m - 1)]) \o f[m - 1] /\ f[m] # <<>>
  BY LastWordsFacts
<1>3. Words(items) = f[n] /\ \A k : Rest(items, k) = f[n - k]
  BY DEF Words, Rest
<1> HIDE DEF f, n
<1>4. n - n = 0 /\ n - 0 = n /\ n \in 0..n
  BY <1>1
<1>5. \A k \in 0..n : f[n - k] \in Seq(Word)
  BY <1>1, <1>2
<1>6. ASSUME NEW k \in 0..(n - 1)
      PROVE  f[n - k] = Render(items[k + 1]) \o f[n - (k + 1)] /\ f[n - k] # <<>>
  <2>1. /\ n - k \in 1..n /\ n - ((n - k) - 1) = k + 1
        /\ (n - k) - 1 = n - (k + 1)
    BY <1>1
  <2>2. PICK m \in 1..n : m = n - k
    BY <2>1
  <2>3. f[m] = Render(items[n - (m - 1)]) \o f[m - 1] /\ f[m] # <<>>
    BY <1>2
  <2>4. n - (m - 1) = k + 1 /\ m - 1 = n - (k + 1)
    BY <2>1, <2>2
  <2>5. QED
    BY <2>2, <2>3, <2>4
<1>7. /\ Rest(items, 0) = Words(items) /\ Rest(items, n) = <<>>
      /\ Words(items) \in Seq(Word)
  BY <1>2, <1>3, <1>4
<1>8. \A k \in 0..n : Rest(items, k) \in Seq(Word)
  BY <1>3, <1>5
<1>9. \A k \in 0..(n - 1) :
         /\ Rest(items, k) = Render(items[k + 1]) \o Rest(items, k + 1)
         /\ Rest(items, k) # <<>>
  BY <1>3, <1>6
<1>10. QED
  BY <1>7, <1>8, <1>9 DEF n

LEMMA MeantWhole ==
    ASSUME NEW params, NEW items, Items(items)
    PROVE  /\ Meant(params, items) = MeantUpTo(params, items, Len(items))
           /\ Clean(params, items, Len(items)) <=> ~AnyWrong(params, items)
<1>1. DOMAIN items = 1..Len(items)
  BY ItemsFacts
<1>2. \A x : MeantValue(x) =
        CASE x.form \in {"bare", "short bare", "letter"} -> "true"
          [] x.form = "no" -> "false"
          [] OTHER -> x.value
  BY DEF MeantValue, BareForms
<1>3. ASSUME NEW i \in DOMAIN params
      PROVE  Meant(params, items)[i] = MeantUpTo(params, items, Len(items))[i]
  <2> DEFINE mine == {k \in DOMAIN items : items[k].param = params[i]}
             last == items[Max(mine)]
  <2>1. Meant(params, items)[i] =
          CASE mine = {} -> NULL
            [] mine # {} /\ last.form \in {"bare", "short bare", "letter"} -> "true"
            [] mine # {} /\ last.form = "no" -> "false"
            [] OTHER -> last.value
    BY DEF Meant
  <2>2. mine = {j \in 1..Len(items) : items[j].param = params[i]}
    BY <1>1
  <2>3. MeantUpTo(params, items, Len(items))[i]
          = IF mine = {} THEN NULL ELSE MeantValue(last)
    BY <2>2 DEF MeantUpTo
  <2> HIDE DEF mine, last
  <2>4. CASE mine = {}
    BY <2>1, <2>3, <2>4
  <2>5. CASE mine # {}
    BY <2>1, <2>3, <2>5 DEF MeantValue, BareForms
  <2>6. QED
    BY <2>4, <2>5
<1>4. Meant(params, items) = MeantUpTo(params, items, Len(items))
  <2>1. /\ Meant(params, items) = [i \in DOMAIN params |-> Meant(params, items)[i]]
        /\ MeantUpTo(params, items, Len(items))
             = [i \in DOMAIN params |-> MeantUpTo(params, items, Len(items))[i]]
    BY DEF Meant, MeantUpTo
  <2>2. QED
    BY <1>3, <2>1
<1>5. QED
  BY <1>1, <1>4 DEF Clean, AnyWrong

LEMMA MeantNone ==
    ASSUME NEW params, NEW items
    PROVE  /\ MeantUpTo(params, items, 0) = [i \in DOMAIN params |-> NULL]
           /\ Clean(params, items, 0)
<1>1. 1..0 = {}
  OBVIOUS
<1>2. QED
  BY <1>1 DEF MeantUpTo, Clean

\* The last mention of a parameter decides.
LEMMA MeantNext ==
    ASSUME NEW params, ParamsDistinct(params), NEW items, NEW k \in Nat,
           NEW i \in DOMAIN params, items[k + 1].param = params[i]
    PROVE  MeantUpTo(params, items, k + 1)
             = [j \in DOMAIN params |-> IF j = i THEN MeantValue(items[k + 1])
                                        ELSE MeantUpTo(params, items, k)[j]]
<1> DEFINE Mine(j, m) == {l \in 1..m : items[l].param = params[j]}
<1>1. \A m : \A j \in DOMAIN params :
         MeantUpTo(params, items, m)[j]
           = IF Mine(j, m) = {} THEN NULL ELSE MeantValue(items[Max(Mine(j, m))])
  BY DEF MeantUpTo
<1>2. MeantUpTo(params, items, k + 1)
        = [j \in DOMAIN params |-> MeantUpTo(params, items, k + 1)[j]]
  BY DEF MeantUpTo
<1>3. ASSUME NEW j \in DOMAIN params, j # i PROVE Mine(j, k + 1) = Mine(j, k)
  <2>1. items[k + 1].param # params[j]
    <3>1. params[i].name # params[j].name
      BY <1>3 DEF ParamsDistinct
    <3>2. QED
      BY <3>1
  <2>2. 1..(k + 1) = (1..k) \cup {k + 1}
    OBVIOUS
  <2>3. QED
    BY <2>1, <2>2
<1>4. Mine(i, k + 1) # {} /\ Max(Mine(i, k + 1)) = k + 1
  <2>1. k + 1 \in Mine(i, k + 1) /\ Mine(i, k + 1) \subseteq 1..(k + 1)
    OBVIOUS
  <2> DEFINE S == Mine(i, k + 1)
  <2> HIDE DEF S
  <2>2. k + 1 \in S /\ \A y \in S : y \in Nat /\ k + 1 >= y
    BY <2>1 DEF S
  <2>3. Max(S) \in S /\ \A y \in S : Max(S) >= y
    BY <2>2 DEF Max
  <2>4. Max(S) = k + 1
    BY <2>2, <2>3
  <2>5. QED
    BY <2>2, <2>4 DEF S
<1> HIDE DEF Mine
<1>5. ASSUME NEW j \in DOMAIN params
      PROVE  MeantUpTo(params, items, k + 1)[j]
               = IF j = i THEN MeantValue(items[k + 1])
                 ELSE MeantUpTo(params, items, k)[j]
  <2>1. CASE j = i
    BY <1>1, <1>4, <2>1
  <2>2. CASE j # i
    BY <1>1, <1>3, <2>2
  <2>3. QED
    BY <2>1, <2>2
<1>6. QED
  BY <1>2, <1>5

LEMMA CleanNext ==
    ASSUME NEW params, NEW items, NEW k \in Nat
    PROVE  Clean(params, items, k + 1)
             <=> Clean(params, items, k) /\ ~Wrong(params, items[k + 1])
<1>1. 1..(k + 1) = (1..k) \cup {k + 1}
  OBVIOUS
<1>2. QED
  BY <1>1 DEF Clean


-----------------------------------------------------------------------------
(* The words of a line                                                     *)

VerbWords(l) == [i \in DOMAIN l.verbs |-> Plain(l.verbs[i])]
BehindGlobals(l) == VerbWords(l) \o Words(l.items)

LEMMA LineFacts ==
    ASSUME NEW l \in Lines
    PROVE  /\ Clear(l) /\ Items(l.globals) /\ Items(l.items)
           /\ l.verbs \in Seq(STRING)
           /\ VerbWords(l) \in Seq(Word) /\ Len(VerbWords(l)) = Len(l.verbs)
           /\ \A i \in 1..Len(l.verbs) : /\ VerbWords(l)[i].dash = 0
                                         /\ VerbWords(l)[i].text = l.verbs[i]
           /\ Words(l.items) \in Seq(Word) /\ BehindGlobals(l) \in Seq(Word)
<1>1. Clear(l)
  BY LinesAssumption
<1>2. Items(l.globals) /\ Items(l.items) /\ l.verbs \in Seq(STRING)
  BY <1>1 DEF Clear, Items
<1>3. \A i \in 1..Len(l.verbs) : l.verbs[i] \in Text
  <2>1. \A i \in 1..Len(l.verbs) : l.verbs[i] \in STRING
    BY <1>2, ElementOfSeq
  <2>2. STRING \subseteq Text
    BY DEF Text
  <2>3. QED
    BY <2>1, <2>2
<1>4. \A v \in Text : Plain(v) \in Word /\ Plain(v).dash = 0 /\ Plain(v).text = v
  <2>1. \A v \in Text : Plain(v) \in Word
    BY WordTypes
  <2>2. \A v : Plain(v).dash = 0 /\ Plain(v).text = v
    BY DEF Plain
  <2>3. QED
    BY <2>1, <2>2
<1>5. /\ Len(l.verbs) \in Nat /\ DOMAIN l.verbs = 1..Len(l.verbs)
  BY <1>2
<1>6. VerbWords(l) \in [1..Len(l.verbs) -> Word]
  BY <1>3, <1>4, <1>5 DEF VerbWords
<1>7. VerbWords(l) \in Seq(Word) /\ Len(VerbWords(l)) = Len(l.verbs)
  BY <1>5, <1>6
<1>8. \A i \in 1..Len(l.verbs) : /\ VerbWords(l)[i].dash = 0
                                 /\ VerbWords(l)[i].text = l.verbs[i]
  BY <1>3, <1>4, <1>5 DEF VerbWords
<1>9. Words(l.items) \in Seq(Word)
  BY <1>2, RestFacts
<1>10. BehindGlobals(l) \in Seq(Word)
  BY <1>7, <1>9, ConcatProperties DEF BehindGlobals
<1>11. QED
  BY <1>1, <1>2, <1>7, <1>8, <1>9, <1>10

\* What stands behind the global flags begins with a verb, if there is anything.
LEMMA BehindFacts ==
    ASSUME NEW l \in Lines
    PROVE  LET w == BehindGlobals(l) n == Len(l.verbs) IN
           /\ l.verbs = <<>> => w = <<>>
           /\ l.verbs # <<>> => w # <<>> /\ Head(w).dash = 0
           /\ n <= Len(w) /\ Len(w) = n + Len(Words(l.items))
           /\ \A i \in 1..n : w[i].dash = 0 /\ w[i].text = l.verbs[i]
           /\ \A i \in 1..Len(Words(l.items)) : w[n + i] = Words(l.items)[i]
           /\ SubSeq(w, n + 1, Len(w)) = Words(l.items)
<1> DEFINE w == BehindGlobals(l)
           s == VerbWords(l)
           t == Words(l.items)
           n == Len(l.verbs)
<1>1. /\ s \in Seq(Word) /\ t \in Seq(Word) /\ w \in Seq(Word) /\ w = s \o t
      /\ n = Len(s) /\ \A i \in 1..n : s[i].dash = 0 /\ s[i].text = l.verbs[i]
  BY LineFacts DEF BehindGlobals
<1>2. n \in Nat /\ Len(t) \in Nat /\ Len(w) \in Nat
  BY <1>1
<1>3. l.verbs = <<>> => t = <<>> /\ s = <<>>
  <2>1. l.verbs = <<>> => l.items = <<>>
    BY LineFacts DEF Clear
  <2>2. l.items = <<>> => Len(l.items) = 0
    OBVIOUS
  <2>3. l.items = <<>> => t = <<>>
    BY <2>2, LineFacts, RestFacts
  <2>4. l.verbs = <<>> => n = 0
    OBVIOUS
  <2>5. n = 0 => s = <<>>
    <3> HIDE DEF s, n
    <3> QED
      BY <1>1, EmptySeq
  <2>6. QED
    BY <2>1, <2>3, <2>4, <2>5
<1>4. l.verbs # <<>> => n > 0
  BY LineFacts
<1> HIDE DEF w, s, t, n
<1>5. /\ Len(w) = n + Len(t)
      /\ \A i \in 1..(n + Len(t)) : w[i] = IF i <= n THEN s[i] ELSE t[i - n]
  BY <1>1, ConcatProperties
<1>6. \A i \in 1..n : w[i].dash = 0 /\ w[i].text = l.verbs[i]
  BY <1>1, <1>2, <1>5
<1>7. ASSUME NEW i \in 1..Len(t) PROVE w[n + i] = t[i]
  <2>1. n + i \in 1..(n + Len(t)) /\ ~(n + i <= n) /\ (n + i) - n = i
    BY <1>2
  <2>2. QED
    BY <1>5, <2>1
<1>8. l.verbs = <<>> => w = <<>>
  BY <1>1, <1>3
<1>9. l.verbs # <<>> => w # <<>> /\ Head(w).dash = 0
  <2>1. n > 0 => 1 \in 1..n /\ Len(w) > 0
    BY <1>2, <1>5
  <2>2. QED
    BY <1>1, <1>4, <1>6, <2>1
<1>10. SubSeq(w, n + 1, Len(w)) = t
  <2>1. /\ SubSeq(w, n + 1, Len(w)) \in Seq(Word)
        /\ Len(SubSeq(w, n + 1, Len(w))) = Len(t)
        /\ \A i \in 1..Len(t) : SubSeq(w, n + 1, Len(w))[i] = w[n + i]
    <3>1. n + 1 \in 1..(Len(w) + 1) /\ Len(w) \in n..Len(w)
      BY <1>2, <1>5
    <3>2. Len(w) - (n + 1) + 1 = Len(t)
      BY <1>2, <1>5
    <3>3. /\ SubSeq(w, n + 1, Len(w)) \in Seq(Word)
          /\ Len(SubSeq(w, n + 1, Len(w))) = Len(t)
          /\ \A i \in 1..Len(t) : SubSeq(w, n + 1, Len(w))[i] = w[(n + 1) + i - 1]
      BY <1>1, <3>1, <3>2, <1>2, SubSeqProperties
    <3>4. \A i \in 1..Len(t) : (n + 1) + i - 1 = n + i
      BY <1>2
    <3>5. QED
      BY <3>3, <3>4
  <2> DEFINE u == SubSeq(w, n + 1, Len(w))
  <2> HIDE DEF u
  <2>2. u \in Seq(Word) /\ Len(u) = Len(t) /\ \A i \in 1..Len(t) : u[i] = t[i]
    BY <1>7, <2>1 DEF u
  <2>3. u = t
    BY <1>1, <2>2, SeqEqual
  <2>4. QED
    BY <2>3 DEF u
<1>11. n <= Len(w)
  BY <1>2, <1>5
<1>12. QED
  BY <1>5, <1>6, <1>7, <1>8, <1>9, <1>10, <1>11 DEF w, s, t, n


-----------------------------------------------------------------------------
(* The command found                                                       *)

LEMMA VerbsMatch ==
    ASSUME NEW v, v \in Seq(STRING), NEW w \in Seq(Word)
    PROVE  /\ matches_verbs(v, w) \in Nat
           /\ matches_verbs(v, w) > 0 <=>
                /\ v # <<>> /\ Len(v) <= Len(w)
                /\ \A i \in 1..Len(v) : w[i].dash = 0 /\ w[i].text = v[i]
           /\ matches_verbs(v, w) > 0 => matches_verbs(v, w) = Len(v)
<1>1. Len(v) \in Nat /\ DOMAIN v = 1..Len(v) /\ (v # <<>> => Len(v) > 0)
  OBVIOUS
<1>2. QED
  BY <1>1 DEF matches_verbs

\* The first word behind the verbs, if it is none of a flag.
LEMMA FirstItem ==
    ASSUME NEW l \in Lines, Len(Words(l.items)) > 0, Words(l.items)[1].dash = 0
    PROVE  /\ l.items # <<>> /\ l.items[1].form = "plain"
           /\ Words(l.items)[1].text = l.items[1].value
<1> DEFINE t == Words(l.items)
           x == l.items[1]
           rest == Rest(l.items, 1)
<1>1. Items(l.items) /\ Len(l.items) \in Nat
  BY LineFacts, ItemsFacts
<1>2. Len(l.items) > 0
  <2>1. Len(l.items) = 0 => t = <<>>
    BY <1>1, RestFacts
  <2>2. QED
    BY <1>1, <2>1
<1>3. t = Render(x) \o rest /\ rest \in Seq(Word)
  <2>1. 0 \in 0..(Len(l.items) - 1) /\ 1 \in 0..Len(l.items) /\ 0 + 1 = 1
    BY <1>1, <1>2
  <2>2. t = Rest(l.items, 0)
    BY <1>1, RestFacts
  <2>3. QED
    BY <1>1, <2>1, <2>2, RestFacts
<1>4. Spelled(x)
  BY <1>1, <1>2, ItemsFacts
<1>5. Head(t) = t[1] /\ t[1].dash = 0
  BY DEF Head
<1> HIDE DEF t, x, rest
<1>6. x.form = "plain"
  BY <1>3, <1>4, <1>5, BeginsWithFlag
<1>7. x.value # "-1"
  BY <1>3, <1>4, <1>5, <1>6, DashedWord, TableAssumption
<1>8. t[1].text = x.value
  BY <1>3, <1>4, <1>5, <1>6, <1>7, PlainWord
<1>9. QED
  BY <1>2, <1>6, <1>8 DEF t, x

\* Verbs that match are those typed, or begin them.
LEMMA MatchingVerbs ==
    ASSUME NEW l \in Lines, NEW c \in Commands, NEW v \in VerbsOf(c),
           matches_verbs(v, BehindGlobals(l)) > 0
    PROVE  v = l.verbs \/ Begins(v, l.verbs)
<1> DEFINE w == BehindGlobals(l)
           n == Len(l.verbs)
           t == Words(l.items)
<1>1. v \in Seq(STRING) /\ l.verbs \in Seq(STRING) /\ w \in Seq(Word) /\ t \in Seq(Word)
  BY LineFacts, TableAssumption DEF VerbsOf, VerbsOrdered
<1>2. /\ v # <<>> /\ Len(v) <= Len(w)
      /\ \A i \in 1..Len(v) : w[i].dash = 0 /\ w[i].text = v[i]
  BY <1>1, VerbsMatch
<1>3. /\ n <= Len(w) /\ Len(w) = n + Len(t)
      /\ \A i \in 1..n : w[i].text = l.verbs[i]
      /\ \A i \in 1..Len(t) : w[n + i] = t[i]
  BY BehindFacts
<1>4. /\ n \in Nat /\ Len(v) \in Nat /\ Len(t) \in Nat
      /\ DOMAIN v = 1..Len(v) /\ DOMAIN l.verbs = 1..n
  BY <1>1
<1> HIDE DEF w, n, t
<1>5. \A i \in 1..n : i <= Len(v) => v[i] = l.verbs[i]
  BY <1>2, <1>3, <1>4
<1>6. CASE Len(v) < n
  BY <1>4, <1>5, <1>6 DEF Begins, n
<1>7. CASE Len(v) = n
  <2>1. v = l.verbs
    BY <1>1, <1>4, <1>5, <1>7, SeqEqual DEF n
  <2>2. QED
    BY <2>1
<1>8. CASE Len(v) > n
  <2>1. Begins(l.verbs, v)
    BY <1>4, <1>5, <1>8 DEF Begins, n
  <2>2. n + 1 \in 1..Len(v) /\ 1 \in 1..Len(t) /\ Len(t) > 0
    BY <1>2, <1>3, <1>4, <1>8
  <2>3. w[n + 1] = t[1] /\ w[n + 1].dash = 0 /\ w[n + 1].text = v[n + 1]
    BY <1>2, <1>3, <2>2
  <2>4. /\ l.items # <<>> /\ l.items[1].form = "plain"
        /\ l.items[1].value = v[Len(l.verbs) + 1]
    BY <2>2, <2>3, FirstItem DEF t, n
  <2>5. VerbsEnd(l)
    BY LineFacts DEF Clear
  <2>6. QED
    BY <2>1, <2>4, <2>5 DEF VerbsEnd
<1>9. Len(v) < n \/ Len(v) = n \/ Len(v) > n
  <2>1. \A a, b \in Nat : a < b \/ a = b \/ a > b
    OBVIOUS
  <2>2. QED
    BY <1>4, <2>1, Zenon
<1>10. QED
  BY <1>6, <1>7, <1>8, <1>9

\* The verbs typed match.
LEMMA TypedVerbsMatch ==
    ASSUME NEW l \in Lines, NEW c \in Commands, l.verbs \in VerbsOf(c)
    PROVE  /\ matches_verbs(l.verbs, BehindGlobals(l)) > 0
           /\ Matches(c, BehindGlobals(l)) > 0
<1> DEFINE w == BehindGlobals(l)
<1>1. l.verbs \in Seq(STRING) /\ w \in Seq(Word) /\ l.verbs # <<>>
  BY LineFacts DEF VerbsOf
<1>2. matches_verbs(l.verbs, w) > 0
  BY <1>1, BehindFacts, VerbsMatch
<1>3. matches_verbs(c.verbs, w) \in Nat /\ matches_verbs(c.alias, w) \in Nat
  <2>1. c.verbs \in Seq(STRING) /\ c.alias \in Seq(STRING)
    BY TableAssumption DEF VerbsOrdered
  <2>2. QED
    BY <1>1, <2>1, VerbsMatch
<1>4. l.verbs = c.verbs \/ l.verbs = c.alias
  BY DEF VerbsOf
<1>5. QED
  BY <1>2, <1>3, <1>4 DEF Matches

\* find_command() finds the command typed, or none if there is no such command.
Found(l, c) ==
    /\ c \in Commands /\ c # NoCommand /\ l.verbs \in VerbsOf(c)
    /\ SubSeq(BehindGlobals(l), Matches(c, BehindGlobals(l)) + 1,
              Len(BehindGlobals(l))) = Words(l.items)

LEMMA FoundCommand ==
    ASSUME NEW l \in Lines
    PROVE  LET c == find_command(BehindGlobals(l)) IN
           \/ c = NoCommand /\ \A d \in Commands : l.verbs \notin VerbsOf(d)
           \/ Found(l, c)
<1> DEFINE w == BehindGlobals(l)
           matching == {i \in DOMAIN CMDS : Matches(CMDS[i], w) > 0}
           m == Min(matching)
<1>1. /\ DOMAIN CMDS \subseteq Nat /\ Len(CMDS) \in Nat
      /\ \A i \in DOMAIN CMDS : CMDS[i] \in Commands
      /\ \A d \in Commands : \E i \in DOMAIN CMDS : d = CMDS[i]
  BY TableAssumption DEF Commands, ToSet
<1>2. find_command(w) = IF matching = {} THEN NoCommand ELSE CMDS[m]
  BY DEF find_command
<1>3. \A i \in DOMAIN CMDS : l.verbs \in VerbsOf(CMDS[i]) => i \in matching
  BY <1>1, TypedVerbsMatch
<1>4. CASE matching = {}
  <2>1. \A d \in Commands : l.verbs \notin VerbsOf(d)
    BY <1>1, <1>3, <1>4
  <2>2. QED
    BY <1>2, <1>4, <2>1
<1>5. CASE matching # {}
  <2>1. m \in matching /\ \A j \in matching : m <= j
    <3>1. matching \subseteq Nat
      BY <1>1
    <3> HIDE DEF matching
    <3> QED
      BY <1>5, <3>1, LeastOf
  <2>2. m \in DOMAIN CMDS /\ Matches(CMDS[m], w) > 0
    BY <2>1
  <2> HIDE DEF m, matching
  <2>3. PICK c \in Commands : c = CMDS[m]
    BY <1>1, <2>2
  <2>4. /\ c.verbs \in Seq(STRING) /\ c.alias \in Seq(STRING) /\ w \in Seq(Word)
        /\ c.verbs # <<>> /\ c.verbs # c.alias
    BY LineFacts, TableAssumption DEF VerbsOrdered
  <2>5. ASSUME NEW v \in {c.verbs, c.alias}, matches_verbs(v, w) > 0
        PROVE  v = l.verbs
    <3>1. v \in VerbsOf(c)
      <4>1. v # <<>>
        BY <2>4, <2>5, VerbsMatch
      <4>2. QED
        BY <4>1 DEF VerbsOf
    <3>2. v = l.verbs \/ Begins(v, l.verbs)
      BY <2>5, <3>1, MatchingVerbs
    <3>3. ASSUME Begins(v, l.verbs) PROVE FALSE
      <4>1. VerbsEnd(l)
        BY LineFacts DEF Clear
      <4>2. PICK d \in Commands : l.verbs \in VerbsOf(d)
        BY <3>1, <3>3, <4>1 DEF VerbsEnd
      <4>3. PICK j \in DOMAIN CMDS : d = CMDS[j]
        BY <1>1
      <4>4. m <= j
        BY <1>3, <2>1, <4>2, <4>3
      <4>5. ~Begins(v, l.verbs)
        BY <2>2, <2>3, <3>1, <4>2, <4>3, <4>4, TableAssumption DEF VerbsOrdered
      <4>6. QED
        BY <3>3, <4>5
    <3>4. QED
      BY <3>2, <3>3
  <2> DEFINE a == matches_verbs(c.verbs, w)
             b == matches_verbs(c.alias, w)
  <2>6. /\ a \in Nat /\ b \in Nat /\ Matches(c, w) = a + b
        /\ a > 0 => a = Len(c.verbs) /\ c.verbs = l.verbs
        /\ b > 0 => b = Len(c.alias) /\ c.alias = l.verbs
    BY <2>4, <2>5, VerbsMatch DEF Matches
  <2>7. b > 0 => c.alias # <<>>
    BY <2>4, VerbsMatch
  <2>8. Matches(c, w) > 0
    BY <2>2, <2>3
  <2> HIDE DEF a, b
  <2>9. ~(a > 0 /\ b > 0)
    BY <2>4, <2>6
  <2>10. Matches(c, w) = Len(l.verbs) /\ l.verbs \in VerbsOf(c)
    <3>1. (a > 0 /\ b = 0) \/ (a = 0 /\ b > 0)
      BY <2>6, <2>8, <2>9
    <3>2. CASE a > 0 /\ b = 0
      <4>1. a = Len(l.verbs) /\ c.verbs = l.verbs
        BY <2>6, <3>2
      <4>2. Matches(c, w) = a
        BY <2>6, <3>2
      <4>3. QED
        BY <2>4, <4>1, <4>2 DEF VerbsOf
    <3>3. CASE a = 0 /\ b > 0
      <4>1. b = Len(l.verbs) /\ c.alias = l.verbs
        BY <2>6, <3>3
      <4>2. Matches(c, w) = b
        BY <2>6, <3>3
      <4>3. QED
        BY <2>7, <3>3, <4>1, <4>2 DEF VerbsOf
    <3>4. QED
      BY <3>1, <3>2, <3>3
  <2>11. SubSeq(w, Matches(c, w) + 1, Len(w)) = Words(l.items)
    BY <2>10, BehindFacts
  <2>12. c # NoCommand
    <3>1. NoCommand.verbs = <<>>
      BY DEF NoCommand, Cmd
    <3>2. QED
      BY <2>4, <3>1
  <2>13. Found(l, c)
    BY <2>10, <2>11, <2>12 DEF Found
  <2>14. find_command(w) = c
    BY <1>2, <1>5, <2>3
  <2>15. QED
    BY <2>13, <2>14
<1>6. QED
  BY <1>4, <1>5


-----------------------------------------------------------------------------
(* A turn of the loops over the words                                      *)

LEMMA TableParams ==
    /\ ParamsDistinct(GLOBAL_FLAGS) /\ DOMAIN GLOBAL_FLAGS \subseteq Nat \ {0}
    /\ \A c \in Commands : /\ ParamsDistinct(c.params)
                           /\ DOMAIN c.params \subseteq Nat \ {0}
<1>1. /\ Len(GLOBAL_FLAGS) \in Nat /\ DOMAIN GLOBAL_FLAGS = 1..Len(GLOBAL_FLAGS)
      /\ ParamsDistinct(GLOBAL_FLAGS)
      /\ \A c \in Commands : ParamsDistinct(c.params)
  BY TableAssumption
<1>2. QED
  BY <1>1, TableSequences

\* Behind a flag that lacks its value stands another, or nothing.
LEMMA BehindLacking ==
    ASSUME NEW params, NEW items, Items(items), Meaningful(params, items),
           NEW k \in 0..(Len(items) - 1), Lacking(items[k + 1])
    PROVE  \/ k + 1 = Len(items) /\ Rest(items, k + 1) = <<>>
           \/ Rest(items, k + 1) # <<>> /\ Head(Rest(items, k + 1)).dash # 0
<1>1. Len(items) \in Nat /\ DOMAIN items = 1..Len(items)
      /\ \A j \in 1..Len(items) : Spelled(items[j])
  BY ItemsFacts
<1>2. CASE k + 1 = Len(items)
  BY <1>2, RestFacts
<1>3. CASE k + 1 # Len(items)
  <2>1. /\ k + 1 \in 0..(Len(items) - 1) /\ k + 1 \in 1..Len(items) /\ k + 1 < Len(items)
        /\ (k + 1) + 1 \in 1..Len(items) /\ (k + 1) + 1 \in 0..Len(items)
    <3> DEFINE n == Len(items)
    <3>1. n \in Nat /\ k \in 0..(n - 1) /\ k + 1 # n
      BY <1>1, <1>3
    <3> HIDE DEF n
    <3>2. k \in Nat /\ k + 1 < n
      BY <3>1
    <3>3. /\ k + 1 \in 0..(n - 1) /\ k + 1 \in 1..n /\ k + 1 < n
          /\ (k + 1) + 1 \in 1..n /\ (k + 1) + 1 \in 0..n
      BY <3>1, <3>2
    <3>4. QED
      BY <3>3 DEF n
  <2> DEFINE x == items[(k + 1) + 1]
  <2>2. x.form # "plain" /\ Spelled(x)
    BY <1>1, <2>1 DEF Meaningful
  <2>3. /\ Rest(items, k + 1) = Render(x) \o Rest(items, (k + 1) + 1)
        /\ Rest(items, (k + 1) + 1) \in Seq(Word)
    BY <2>1, RestFacts
  <2> HIDE DEF x
  <2>4. QED
    BY <2>2, <2>3, BeginsWithFlag
<1>4. QED
  BY <1>2, <1>3

\* Words that are no command, and no flags.
NoCommandLeft(w) ==
    /\ w = <<>> \/ Head(w).dash = 0
    /\ \A c \in Commands : Matches(c, w) = 0

LEMMA NoneMatches ==
    ASSUME NEW w \in Seq(Word),
           \/ w = <<>>
           \/ Head(w).dash = 0 /\ \A c \in Commands : \A v \in VerbsOf(c) :
                                    v[1] # Head(w).text
    PROVE  NoCommandLeft(w)
<1>1. ASSUME NEW c \in Commands, NEW v \in {c.verbs, c.alias}
      PROVE  matches_verbs(v, w) = 0
  <2>1. v \in Seq(STRING)
    BY TableAssumption DEF VerbsOrdered
  <2>2. ASSUME matches_verbs(v, w) > 0 PROVE FALSE
    <3>1. /\ v # <<>> /\ Len(v) <= Len(w)
          /\ \A i \in 1..Len(v) : w[i].dash = 0 /\ w[i].text = v[i]
      BY <2>1, <2>2, VerbsMatch
    <3>2. 1 \in 1..Len(v) /\ Len(w) > 0
      BY <2>1, <3>1
    <3>3. w # <<>> /\ Head(w).text = v[1]
      BY <3>1, <3>2
    <3>4. v \in VerbsOf(c)
      BY <3>1 DEF VerbsOf
    <3>5. QED
      BY <3>3, <3>4
  <2>3. QED
    BY <2>1, <2>2, VerbsMatch
<1>2. \A c \in Commands : Matches(c, w) = 0
  BY <1>1 DEF Matches
<1>3. QED
  BY <1>2 DEF NoCommandLeft

LEMMA NoCommandFound ==
    ASSUME NEW w, NoCommandLeft(w)
    PROVE  find_command(w) = NoCommand
<1>1. \A i \in DOMAIN CMDS : CMDS[i] \in Commands
  BY DEF Commands, ToSet
<1>2. {i \in DOMAIN CMDS : Matches(CMDS[i], w) > 0} = {}
  BY <1>1 DEF NoCommandLeft
<1>3. QED
  BY <1>2 DEF find_command

\* The last global flag lacks its value and takes the first verb.
LEMMA VerbTaken ==
    ASSUME NEW l \in Lines, l.globals # <<>>, Lacking(l.globals[Len(l.globals)]),
           l.verbs # <<>>
    PROVE  NoCommandLeft(Tail(BehindGlobals(l)))
<1> DEFINE w == BehindGlobals(l)
           n == Len(l.verbs)
<1>1. NothingLeft(l) /\ w \in Seq(Word) /\ l.verbs \in Seq(STRING) /\ Items(l.items)
  BY LineFacts DEF Clear
<1>2. w # <<>> /\ Len(w) = n + Len(Words(l.items))
      /\ \A i \in 1..n : w[i].dash = 0 /\ w[i].text = l.verbs[i]
  BY BehindFacts
<1>3. n \in Nat /\ n > 0 /\ Len(w) \in Nat
  BY <1>1
<1>4. /\ Tail(w) \in Seq(Word) /\ Len(Tail(w)) = Len(w) - 1
      /\ \A i \in 1..Len(Tail(w)) : Tail(w)[i] = w[i + 1]
  BY <1>1, <1>2, HeadTailProperties
<1>5. CASE n = 1
  <2>1. l.items = <<>>
    BY <1>1, <1>5 DEF NothingLeft
  <2>2. Len(l.items) = 0
    BY <2>1
  <2>3. Words(l.items) = <<>>
    BY <1>1, <2>2, RestFacts
  <2>4. Len(Words(l.items)) = 0
    BY <2>3
  <2> HIDE DEF w, n
  <2>5. Len(Tail(w)) = 0
    BY <1>2, <1>3, <1>4, <1>5, <2>4
  <2>6. Tail(w) = <<>>
    BY <1>4, <2>5, EmptySeq
  <2>7. NoCommandLeft(Tail(w))
    BY <1>4, <2>6, NoneMatches
  <2>8. QED
    BY <2>7 DEF w
<1>6. CASE n > 1
  <2>1. \A c \in Commands : \A v \in VerbsOf(c) : v[1] # l.verbs[2]
    BY <1>1, <1>6 DEF NothingLeft
  <2>2. Len(Words(l.items)) \in Nat
    BY LineFacts
  <2> DEFINE t == Tail(w)
             r == Len(Words(l.items))
  <2> HIDE DEF w, n, t, r
  <2>3. 2 \in 1..n /\ 1 \in 1..Len(t) /\ 1 + 1 = 2
    <3>1. Len(t) = (n + r) - 1 /\ r \in Nat /\ n \in Nat /\ n > 1
      BY <1>2, <1>3, <1>4, <1>6, <2>2 DEF t, r
    <3>2. QED
      BY <3>1
  <2>4. t[1].dash = 0 /\ t[1].text = l.verbs[2]
    <3>1. t[1] = w[1 + 1]
      BY <1>4, <2>3 DEF t
    <3>2. QED
      BY <1>2, <2>3, <3>1
  <2>5. t \in Seq(Word)
    BY <1>4 DEF t
  <2>6. Head(t) = t[1]
    BY <2>3, <2>5
  <2>7. NoCommandLeft(t)
    BY <2>1, <2>4, <2>5, <2>6, NoneMatches
  <2>8. QED
    BY <2>7 DEF t, w
<1> HIDE DEF n
<1>7. n = 1 \/ n > 1
  BY <1>3
<1>8. QED
  BY <1>5, <1>6, <1>7


\* The global flags before and after a turn of fill_global_flags().
GlobalsAt(l, k, w, values) ==
    /\ k \in 0..Len(l.globals) /\ Clean(GLOBAL_FLAGS, l.globals, k)
    /\ w = Rest(l.globals, k) \o BehindGlobals(l)
    /\ values = MeantUpTo(GLOBAL_FLAGS, l.globals, k)

GlobalsTurn(l, k, fill) ==
    \/ fill.ok = FALSE /\ AnyWrong(GLOBAL_FLAGS, l.globals)
    \/ fill.ok = TRUE /\ GlobalsAt(l, k + 1, fill.words, fill.values)
    \/ /\ fill.ok = TRUE
       /\ AnyWrong(GLOBAL_FLAGS, l.globals) /\ NoCommandLeft(fill.words)

LEMMA ThreeParts ==
    ASSUME NEW s \in Seq(Word), NEW t \in Seq(Word), NEW u \in Seq(Word)
    PROVE  (s \o t) \o u = s \o (t \o u) /\ t \o u \in Seq(Word)
<1> HIDE DEF Word
<1>1. (s \o t) \o u = s \o (t \o u)
  BY ConcatAssociative
<1>2. t \o u \in Seq(Word)
  BY ConcatProperties
<1>3. QED
  BY <1>1, <1>2

\* As long as flags are left the next word is one, and then it is not.
LEMMA GlobalsLeft ==
    ASSUME NEW l \in Lines, NEW k, NEW w, NEW values, GlobalsAt(l, k, w, values)
    PROVE  /\ k = Len(l.globals) => /\ w = BehindGlobals(l)
                                    /\ ~(w # <<>> /\ Head(w).dash # 0)
           /\ k # Len(l.globals) => w # <<>> /\ Head(w).dash # 0
<1> DEFINE items == l.globals
           n == Len(items)
           b == BehindGlobals(l)
<1>1. /\ Items(items) /\ b \in Seq(Word) /\ n \in Nat
      /\ \A j \in 1..n : Spelled(items[j]) /\ items[j].form # "plain"
  <2>1. Items(items) /\ b \in Seq(Word) /\ Clear(l)
    BY LineFacts
  <2>2. n \in Nat /\ \A j \in 1..n : Spelled(items[j]) /\ j \in DOMAIN items
    BY <2>1, ItemsFacts
  <2>3. \A j \in DOMAIN items : items[j].form # "plain"
    BY <2>1 DEF Clear, ToSet
  <2>4. QED
    BY <2>1, <2>2, <2>3
<1>2. k \in 0..n /\ w = Rest(items, k) \o b
  BY DEF GlobalsAt
<1>3. CASE k = n
  <2>1. Rest(items, k) = <<>>
    BY <1>1, <1>3, RestFacts
  <2>2. w = b
    BY <1>1, <1>2, <2>1, ConcatEmptySeq
  <2>3. b = <<>> \/ Head(b).dash = 0
    BY BehindFacts
  <2>4. QED
    BY <1>3, <2>2, <2>3
<1>4. CASE k # n
  <2> DEFINE x == items[k + 1]
             r == Rest(items, k + 1)
  <2>1. k \in 0..(n - 1) /\ k + 1 \in 0..n /\ k + 1 \in 1..n
    BY <1>1, <1>2, <1>4
  <2>2. Rest(items, k) = Render(x) \o r /\ r \in Seq(Word)
    BY <1>1, <2>1, RestFacts
  <2>3. Render(x) \in Seq(Word)
    BY <1>1, <2>1, RenderIsWords
  <2> HIDE DEF r, b, x, items
  <2>4. w = Render(x) \o (r \o b) /\ r \o b \in Seq(Word)
    BY <1>1, <1>2, <2>2, <2>3, ThreeParts, SMTT(30)
  <2>5. Spelled(x) /\ x.form # "plain"
    BY <1>1, <2>1 DEF x, items
  <2>6. w # <<>> /\ Head(w).dash # 0
    BY <2>4, <2>5, BeginsWithFlag
  <2>7. QED
    BY <1>4, <2>6 DEF items
<1>5. QED
  BY <1>3, <1>4

LEMMA GlobalsFilled ==
    ASSUME NEW l \in Lines, NEW k, NEW w, NEW values, GlobalsAt(l, k, w, values),
           k # Len(l.globals)
    PROVE  GlobalsTurn(l, k, FillFlag(GLOBAL_FLAGS, values, w))
<1> DEFINE params == GLOBAL_FLAGS
           items == l.globals
           n == Len(items)
           b == BehindGlobals(l)
           x == items[k + 1]
           r == Rest(items, k + 1)
           fill == FillFlag(params, values, w)
<1>1. /\ Items(items) /\ b \in Seq(Word) /\ n \in Nat /\ DOMAIN items = 1..n
      /\ Meaningful(params, items)
      /\ \A j \in 1..n : Spelled(items[j]) /\ items[j].form # "plain"
  <2>1. Items(items) /\ b \in Seq(Word) /\ Clear(l)
    BY LineFacts
  <2>2. /\ n \in Nat /\ DOMAIN items = 1..n
        /\ \A j \in 1..n : Spelled(items[j]) /\ j \in DOMAIN items
    BY <2>1, ItemsFacts
  <2>3. \A j \in DOMAIN items : items[j].form # "plain"
    BY <2>1 DEF Clear, ToSet
  <2>4. Meaningful(params, items)
    BY <2>1 DEF Clear
  <2>5. QED
    BY <2>1, <2>2, <2>3, <2>4
<1>2. /\ k \in 0..n /\ w = Rest(items, k) \o b /\ Clean(params, items, k)
      /\ values = MeantUpTo(params, items, k)
  BY DEF GlobalsAt
<1>3. /\ k \in 0..(n - 1) /\ k + 1 \in 0..n /\ k + 1 \in 1..n /\ k \in Nat
  BY <1>1, <1>2
<1>4. Rest(items, k) = Render(x) \o r /\ r \in Seq(Word)
  BY <1>1, <1>3, RestFacts
<1>5. Render(x) \in Seq(Word)
  BY <1>1, <1>3, RenderIsWords
<1>6. Spelled(x) /\ x.form # "plain" /\ Writable(params, x)
  BY <1>1, <1>3 DEF Meaningful
<1>7. Wrong(params, x) => AnyWrong(params, items)
  BY <1>1, <1>3 DEF AnyWrong
<1>8. w = Render(x) \o (r \o b) /\ r \o b \in Seq(Word)
  <2> HIDE DEF x, r, b, items
  <2> QED
    BY <1>1, <1>2, <1>4, <1>5, ThreeParts, SMTT(30)
<1>9. ParamsDistinct(params) /\ DOMAIN params \subseteq Nat \ {0}
  BY TableParams
<1> HIDE DEF params
<1>10. CASE ~Wrong(params, x)
  <2>1. PICK i \in DOMAIN params :
           x.param = params[i] /\ Taking(params, values, x, r \o b, i)
    <3> HIDE DEF x, r, b
    <3> QED
      BY <1>6, <1>8, <1>9, <1>10, ItemFilled
  <2>2. /\ fill.ok = TRUE /\ fill.words = r \o b
        /\ fill.values = [j \in DOMAIN values |-> IF j = i THEN MeantValue(x)
                                                  ELSE values[j]]
    <3> HIDE DEF x, r, b
    <3> QED
      BY <1>8, <2>1 DEF Taking, Fills
  <2>3. DOMAIN values = DOMAIN params
    BY <1>2 DEF MeantUpTo
  <2>4. fill.values = MeantUpTo(params, items, k + 1)
    BY <1>2, <1>3, <1>9, <2>1, <2>2, <2>3, MeantNext, SMTT(30)
  <2>5. Clean(params, items, k + 1)
    BY <1>2, <1>3, <1>10, CleanNext
  <2>6. GlobalsAt(l, k + 1, fill.words, fill.values)
    BY <1>3, <2>2, <2>4, <2>5 DEF GlobalsAt, params
  <2>7. QED
    BY <2>2, <2>6 DEF GlobalsTurn, params
<1>11. CASE Wrong(params, x) /\ (Lacking(x) => r \o b = <<>> \/ Head(r \o b).dash # 0)
  <2>1. fill.ok = FALSE
    <3> HIDE DEF x, r, b
    <3> QED
      BY <1>6, <1>8, <1>9, <1>11, ItemRefused
  <2>2. QED
    BY <1>7, <1>11, <2>1 DEF GlobalsTurn, params
<1>12. CASE Wrong(params, x) /\ Lacking(x) /\ r \o b # <<>> /\ Head(r \o b).dash = 0
  <2>1. k + 1 = n /\ r = <<>>
    <3>1. \/ k + 1 = n /\ r = <<>>
          \/ r # <<>> /\ Head(r).dash # 0
      BY <1>1, <1>3, <1>12, BehindLacking
    <3>2. r # <<>> => Head(r \o b) = Head(r)
      <4> HIDE DEF r, b
      <4> QED
        BY <1>1, <1>4, <1>8
    <3>3. QED
      BY <1>12, <3>1, <3>2
  <2>2. r \o b = b
    BY <1>1, <2>1, ConcatEmptySeq
  <2>3. PICK i \in DOMAIN params :
           Fills(params, values, Render(x) \o b, Tail(b), i, Head(b).text)
    <3>1. b # <<>> /\ Head(b).dash = 0
      BY <1>12, <2>2
    <3> HIDE DEF x, r, b
    <3> QED
      BY <1>1, <1>6, <1>9, <1>12, <3>1, LackingEats
  <2>4. fill.ok = TRUE /\ fill.words = Tail(b)
    BY <1>8, <2>2, <2>3 DEF Fills
  <2>5. items # <<>> /\ Lacking(items[Len(items)]) /\ l.verbs # <<>>
    <3>1. b # <<>>
      BY <1>12, <2>2
    <3>2. l.verbs # <<>>
      BY <3>1, BehindFacts
    <3>3. items # <<>>
      <4>1. items = <<>> => n = 0
        OBVIOUS
      <4>2. QED
        BY <1>3, <2>1, <4>1
    <3>4. QED
      BY <1>12, <2>1, <3>2, <3>3
  <2>6. NoCommandLeft(Tail(b))
    BY <2>5, VerbTaken
  <2>7. QED
    BY <1>7, <1>12, <2>4, <2>6 DEF GlobalsTurn, params
<1>13. QED
  BY <1>10, <1>11, <1>12


\* The parameters before a turn of fill_cmd_invocation(), and what one does.
ParamsAt(l, c, k, w, values) ==
    /\ k \in 0..Len(l.items) /\ Clean(c.params, l.items, k)
    /\ w = Rest(l.items, k)
    /\ values = MeantUpTo(c.params, l.items, k)

TakesFlag(c, w, fill) == Head(w).dash # 0 /\ fill.ok /\ Head(w) # Long("help", NULL)
TakesWordOf(c, w) == Head(w).dash = 0 /\ find_positional_param(c.params) # {}

ParamsTurn(l, c, k, w, values) ==
    LET fill == FillFlag(c.params, values, w)
        i == Min(find_positional_param(c.params))
    IN
    \/ /\ ~TakesFlag(c, w, fill) /\ ~TakesWordOf(c, w)
       /\ AnyWrong(c.params, l.items)
    \/ /\ TakesFlag(c, w, fill) /\ ~TakesWordOf(c, w)
       /\ ParamsAt(l, c, k + 1, fill.words, fill.values)
    \/ /\ ~TakesFlag(c, w, fill) /\ TakesWordOf(c, w)
       /\ ParamsAt(l, c, k + 1, Tail(w), [values EXCEPT ![i] = Head(w).text])

LEMMA ParamsFilled ==
    ASSUME NEW l \in Lines, NEW c \in Commands, l.verbs \in VerbsOf(c),
           NEW k, NEW w, NEW values, ParamsAt(l, c, k, w, values), w # <<>>
    PROVE  ParamsTurn(l, c, k, w, values)
<1> DEFINE params == c.params
           items == l.items
           n == Len(items)
           x == items[k + 1]
           r == Rest(items, k + 1)
           fill == FillFlag(params, values, w)
           p == find_positional_param(params)
<1>1. /\ Items(items) /\ n \in Nat /\ DOMAIN items = 1..n /\ Meaningful(params, items)
      /\ \A j \in 1..n : Spelled(items[j])
  <2>1. Items(items) /\ Clear(l)
    BY LineFacts
  <2>2. Meaningful(params, items)
    BY <2>1 DEF Clear
  <2>3. QED
    BY <2>1, <2>2, ItemsFacts
<1>2. /\ k \in 0..n /\ w = Rest(items, k) /\ Clean(params, items, k)
      /\ values = MeantUpTo(params, items, k)
  BY DEF ParamsAt
<1>3. k \in 0..(n - 1) /\ k + 1 \in 0..n /\ k + 1 \in 1..n /\ k \in Nat
  <2>1. k # n
    BY <1>1, <1>2, RestFacts
  <2>2. QED
    BY <1>1, <1>2, <2>1
<1>4. w = Render(x) \o r /\ r \in Seq(Word)
  BY <1>1, <1>2, <1>3, RestFacts
<1>5. Spelled(x) /\ Writable(params, x)
  BY <1>1, <1>3 DEF Meaningful
<1>6. Wrong(params, x) => AnyWrong(params, items)
  BY <1>1, <1>3 DEF AnyWrong
<1>7. ParamsDistinct(params) /\ DOMAIN params \subseteq Nat \ {0}
  BY TableParams
<1>8. DOMAIN values = DOMAIN params
  BY <1>2 DEF MeantUpTo
<1>9. ~Wrong(params, x) => Clean(params, items, k + 1)
  BY <1>2, <1>3, CleanNext
<1> HIDE DEF params, x, r
<1>10. CASE x.form # "plain" /\ ~Wrong(params, x)
  <2>1. PICK i \in DOMAIN params :
           x.param = params[i] /\ Taking(params, values, x, r, i)
    BY <1>4, <1>5, <1>7, <1>10, ItemFilled
  <2>2. /\ fill.ok = TRUE /\ fill.words = r
        /\ fill.values = [j \in DOMAIN values |-> IF j = i THEN MeantValue(x)
                                                  ELSE values[j]]
    BY <1>4, <2>1 DEF Taking, Fills
  <2>3. fill.values = MeantUpTo(params, items, k + 1)
    BY <1>2, <1>3, <1>7, <1>8, <2>1, <2>2, MeantNext DEF x
  <2>4. ParamsAt(l, c, k + 1, fill.words, fill.values)
    BY <1>3, <1>9, <1>10, <2>2, <2>3 DEF ParamsAt, params, r
  <2>5. x.form # "help" /\ x.param.name # "help"
    <3>1. x.form # "help"
      BY <1>10 DEF Wrong
    <3>2. params[i].name # "help"
      BY <1>7 DEF ParamsDistinct
    <3>3. QED
      BY <2>1, <3>1, <3>2
  <2>6. Head(w).dash # 0 /\ Head(w) # Long("help", NULL)
    BY <1>4, <1>5, <1>10, <2>5, BeginsWithFlag
  <2>7. QED
    BY <2>2, <2>4, <2>6 DEF ParamsTurn, TakesFlag, TakesWordOf, params
<1>11. CASE x.form # "plain" /\ Wrong(params, x)
  <2>1. Lacking(x) => r = <<>> \/ Head(r).dash # 0
    BY <1>1, <1>3, BehindLacking DEF x, r
  <2>2. fill.ok = FALSE
    BY <1>4, <1>5, <1>7, <1>11, <2>1, ItemRefused
  <2>3. Head(w).dash # 0
    BY <1>4, <1>5, <1>11, BeginsWithFlag
  <2>4. QED
    BY <1>6, <1>11, <2>2, <2>3 DEF ParamsTurn, TakesFlag, TakesWordOf, params
<1>12. CASE x.form = "plain" /\ ~Wrong(params, x)
  <2>1. x.value # "-1" /\ p # {}
    BY <1>12 DEF Wrong
  <2>2. Head(w).dash = 0 /\ Head(w).text = x.value /\ Tail(w) = r
    BY <1>4, <1>5, <1>7, <1>12, <2>1, PlainWord
  <2>3. PICK i \in DOMAIN params : x.param = params[i] /\ ~IsFlag(params[i])
    <3>1. x.form \notin Slips
      BY <1>12 DEF Slips
    <3>2. QED
      BY <1>5, <1>12, <2>1, <3>1, ItemsParam, ZenonT(40)
  <2>4. p = {i}
    BY <1>7, <2>3 DEF find_positional_param, ParamsDistinct
  <2>5. Min(p) = i
    <3>1. p \subseteq Nat /\ p # {} /\ \A j \in p : j = i
      BY <1>7, <2>3, <2>4
    <3> HIDE DEF p
    <3>2. QED
      BY <3>1, LeastOf
  <2>6. MeantValue(x) = x.value
    BY <1>12 DEF MeantValue, BareForms
  <2> DEFINE next == [values EXCEPT ![i] = Head(w).text]
  <2>7. next = [j \in DOMAIN params |-> IF j = i THEN MeantValue(x) ELSE values[j]]
    <3>1. values = [j \in DOMAIN params |-> values[j]]
      BY <1>2 DEF MeantUpTo
    <3>2. QED
      BY <1>8, <2>2, <2>3, <2>6, <3>1
  <2>8. next = MeantUpTo(params, items, k + 1)
    BY <1>2, <1>3, <1>7, <2>3, <2>7, MeantNext DEF x
  <2>9. ParamsAt(l, c, k + 1, Tail(w), next)
    BY <1>3, <1>9, <1>12, <2>2, <2>8 DEF ParamsAt, params, r
  <2>10. QED
    BY <2>1, <2>2, <2>5, <2>9 DEF ParamsTurn, TakesFlag, TakesWordOf, params
<1>13. CASE x.form = "plain" /\ Wrong(params, x)
  <2>1. CASE x.value = "-1"
    <3>1. Head(w).dash # 0 /\ fill.ok = FALSE
      <4>1. /\ Head(Render(x) \o r).dash # 0
            /\ FillFlag(params, values, Render(x) \o r).ok = FALSE
        BY <1>4, <1>5, <1>7, <1>13, <2>1, DashedWord
      <4>2. QED
        BY <1>4, <4>1
    <3>2. QED
      BY <1>6, <1>13, <3>1 DEF ParamsTurn, TakesFlag, TakesWordOf, params
  <2>2. CASE x.value # "-1"
    <3>1. p = {}
      BY <1>13, <2>2 DEF Wrong
    <3>2. Head(w).dash = 0
      BY <1>4, <1>5, <1>7, <1>13, <2>2, PlainWord
    <3>3. QED
      BY <1>6, <1>13, <3>1, <3>2 DEF ParamsTurn, TakesFlag, TakesWordOf, params
  <2>3. QED
    BY <2>1, <2>2
<1>14. QED
  BY <1>10, <1>11, <1>12, <1>13


-----------------------------------------------------------------------------
(* htool carries out what was typed                                        *)

\* The global flags are read, and are what was typed.
GlobalsRead ==
    /\ ~AnyWrong(GLOBAL_FLAGS, line.globals)
    /\ global = Meant(GLOBAL_FLAGS, line.globals)

\* A global flag that lacked its value took the first verb.
VerbLost == AnyWrong(GLOBAL_FLAGS, line.globals) /\ NoCommandLeft(words)

TypedInv ==
    /\ line \in Lines
    /\ pc = "globals" =>
         /\ cmd = NoCommand
         /\ VerbLost \/ \E k : GlobalsAt(line, k, words, global)
    /\ pc = "verbs" =>
         /\ cmd = NoCommand
         /\ VerbLost \/ (GlobalsRead /\ words = BehindGlobals(line))
    /\ pc = "params" =>
         /\ GlobalsRead
         /\ \E k : ParamsAt(line, cmd, k, words, args)
    /\ at > 0 =>
         /\ GlobalsRead
         /\ ~AnyWrong(Params, line.items) /\ args = Meant(Params, line.items)
    /\ cmd # NoCommand => line.verbs \in VerbsOf(cmd)
    /\ pc = "done" /\ cmd = NoCommand =>
         \/ \A c \in Commands : line.verbs \notin VerbsOf(c)
         \/ AnyWrong(GLOBAL_FLAGS, line.globals)
         \/ Meant(GLOBAL_FLAGS, line.globals)[Len(GLOBAL_FLAGS)] # NULL
    /\ pc = "done" /\ cmd # NoCommand /\ at = 0 => AnyWrong(Params, line.items)

LEMMA TypedInit ==
    ASSUME Init
    PROVE  TypedInv
<1>1. line \in Lines /\ pc = "globals" /\ cmd = NoCommand /\ at = 0
  BY DEF Init
<1>2. GlobalsAt(line, 0, words, global)
  <2> DEFINE g == Words(line.globals)
             v == VerbWords(line)
             t == Words(line.items)
  <2>1. /\ Items(line.globals) /\ v \in Seq(Word) /\ t \in Seq(Word)
        /\ g \in Seq(Word) /\ Rest(line.globals, 0) = g /\ Len(line.globals) \in Nat
    BY <1>1, LineFacts, RestFacts, ItemsFacts
  <2>2. words = (g \o v) \o t
    BY DEF Init, VerbWords
  <2> HIDE DEF g, v, t
  <2>3. words = g \o (v \o t)
    BY <2>1, <2>2, ThreeParts
  <2>4. /\ global = MeantUpTo(GLOBAL_FLAGS, line.globals, 0)
        /\ Clean(GLOBAL_FLAGS, line.globals, 0)
    BY MeantNone DEF Init
  <2>5. 0 \in 0..Len(line.globals)
    BY <2>1
  <2>6. QED
    BY <2>1, <2>3, <2>4, <2>5 DEF GlobalsAt, BehindGlobals, v, t
<1>3. QED
  BY <1>1, <1>2 DEF TypedInv

LEMMA TypedParseGlobal ==
    ASSUME PlaceInv, TypedInv, ParseGlobal
    PROVE  TypedInv'
<1> DEFINE fill == FillFlag(GLOBAL_FLAGS, global, words)
<1>1. /\ pc = "globals" /\ words # <<>> /\ Head(words).dash # 0
      /\ line' = line /\ cmd' = cmd /\ args' = args /\ at' = at
      /\ \/ fill.ok /\ global' = fill.values /\ words' = fill.words /\ pc' = pc
         \/ ~fill.ok /\ pc' = "done"
  BY DEF ParseGlobal, handler, Return
<1>2. line \in Lines /\ cmd = NoCommand /\ at = 0
  BY <1>1 DEF TypedInv, PlaceInv
<1>3. PICK k : GlobalsAt(line, k, words, global)
  BY <1>1 DEF TypedInv, VerbLost, NoCommandLeft
<1>4. GlobalsTurn(line, k, fill)
  <2>1. k # Len(line.globals)
    BY <1>1, <1>2, <1>3, GlobalsLeft
  <2>2. QED
    BY <1>2, <1>3, <2>1, GlobalsFilled
<1> HIDE DEF fill
<1>5. CASE fill.ok = FALSE /\ AnyWrong(GLOBAL_FLAGS, line.globals)
  BY <1>1, <1>2, <1>5 DEF TypedInv
<1>6. CASE fill.ok = TRUE /\ GlobalsAt(line, k + 1, fill.words, fill.values)
  <2>1. pc' = "globals" /\ GlobalsAt(line', k + 1, words', global')
    BY <1>1, <1>6
  <2>2. QED
    BY <1>1, <1>2, <2>1 DEF TypedInv
<1>7. CASE /\ fill.ok = TRUE
           /\ AnyWrong(GLOBAL_FLAGS, line.globals) /\ NoCommandLeft(fill.words)
  <2>1. pc' = "globals" /\ VerbLost'
    BY <1>1, <1>7 DEF VerbLost
  <2>2. QED
    BY <1>1, <1>2, <2>1 DEF TypedInv
<1>8. QED
  BY <1>4, <1>5, <1>6, <1>7 DEF GlobalsTurn

\* Without --version htool goes on.
LEMMA NoVersion ==
    ASSUME NEW values, values[Len(GLOBAL_FLAGS)] = NULL
    PROVE  LET version == get_param(GLOBAL_FLAGS, values, "version") IN
           Parses("bool", version) /\ version \notin TrueWords
<1> DEFINE n == Len(GLOBAL_FLAGS)
           found == find_param_by_name(GLOBAL_FLAGS, "version")
<1>1. n \in Nat /\ found = {n} /\ GLOBAL_FLAGS[n].default = "false"
  BY TableAssumption DEF VersionOff
<1> HIDE DEF n, found
<1>2. Min(found) = n
  <2>1. found \subseteq Nat /\ found # {} /\ \A j \in found : j = n
    BY <1>1
  <2>2. QED
    BY <2>1, LeastOf
<1>3. get_param(GLOBAL_FLAGS, values, "version") = "false"
  <2>1. values[n] = NULL
    BY DEF n
  <2>2. QED
    BY <1>1, <1>2, <2>1 DEF get_param, found
<1>4. Parses("bool", "false") /\ "false" \notin TrueWords
  BY DEF Parses, TrueWords, NULL
<1>5. QED
  BY <1>3, <1>4

LEMMA TypedVersion ==
    ASSUME PlaceInv, TypedInv, Version
    PROVE  TypedInv'
<1> DEFINE version == get_param(GLOBAL_FLAGS, global, "version")
<1>1. /\ pc = "globals" /\ ~(words # <<>> /\ Head(words).dash # 0)
      /\ line' = line /\ words' = words /\ global' = global /\ cmd' = cmd /\ at' = at
  BY DEF Version, handler
<1>2. /\ pc' = "verbs" \/ pc' = "done"
      /\ Parses("bool", version) /\ version \notin TrueWords => pc' = "verbs"
  <2>1. CASE ~Parses("bool", version)
    BY <2>1 DEF Version, Return
  <2>2. CASE Parses("bool", version) /\ version \in TrueWords
    BY <2>2 DEF Version, Return
  <2>3. CASE Parses("bool", version) /\ version \notin TrueWords
    BY <2>3 DEF Version
  <2>4. QED
    BY <2>1, <2>2, <2>3
<1>3. line \in Lines /\ cmd = NoCommand /\ at = 0
  BY <1>1 DEF TypedInv, PlaceInv
<1>4. VerbLost \/ \E k : GlobalsAt(line, k, words, global)
  BY <1>1 DEF TypedInv
<1>5. CASE VerbLost
  BY <1>1, <1>2, <1>3, <1>5 DEF TypedInv, VerbLost
<1>6. CASE \E k : GlobalsAt(line, k, words, global)
  <2>1. PICK k : GlobalsAt(line, k, words, global)
    BY <1>6
  <2>2. k = Len(line.globals) /\ words = BehindGlobals(line)
    BY <1>1, <1>3, <2>1, GlobalsLeft
  <2>3. GlobalsRead
    <3>1. Items(line.globals)
      BY <1>3, LineFacts
    <3>2. QED
      BY <2>1, <2>2, <3>1, MeantWhole DEF GlobalsAt, GlobalsRead
  <2>4. CASE pc' = "verbs"
    BY <1>1, <1>3, <2>2, <2>3, <2>4 DEF TypedInv, GlobalsRead
  <2>5. CASE pc' = "done"
    <3>1. global[Len(GLOBAL_FLAGS)] # NULL
      BY <1>2, <2>5, NoVersion
    <3>2. Meant(GLOBAL_FLAGS, line.globals)[Len(GLOBAL_FLAGS)] # NULL
      BY <2>3, <3>1 DEF GlobalsRead
    <3>3. QED
      BY <1>1, <1>3, <2>5, <3>2 DEF TypedInv
  <2>6. QED
    BY <1>2, <2>4, <2>5
<1>7. QED
  BY <1>4, <1>5, <1>6

LEMMA TypedFindCommand ==
    ASSUME PlaceInv, TypedInv, FindCommand
    PROVE  TypedInv'
<1>1. /\ pc = "verbs" /\ cmd' = find_command(words)
      /\ line' = line /\ global' = global /\ at' = at
      /\ \/ cmd' = NoCommand /\ pc' = "done"
         \/ /\ cmd' # NoCommand /\ pc' = "params"
            /\ words' = SubSeq(words, Matches(cmd', words) + 1, Len(words))
            /\ args' = [i \in DOMAIN cmd'.params |-> NULL]
  BY DEF FindCommand, handler, Return
<1>2. line \in Lines /\ at = 0
  BY <1>1 DEF TypedInv, PlaceInv
<1>3. CASE VerbLost
  <2>1. cmd' = NoCommand
    BY <1>1, <1>3, NoCommandFound DEF VerbLost
  <2>2. QED
    BY <1>1, <1>2, <1>3, <2>1 DEF TypedInv, VerbLost
<1>4. CASE GlobalsRead /\ words = BehindGlobals(line)
  <2>1. \/ cmd' = NoCommand /\ \A d \in Commands : line.verbs \notin VerbsOf(d)
        \/ Found(line, cmd')
    BY <1>1, <1>2, <1>4, FoundCommand
  <2>2. CASE cmd' = NoCommand /\ \A d \in Commands : line.verbs \notin VerbsOf(d)
    BY <1>1, <1>2, <2>2 DEF TypedInv
  <2>3. CASE Found(line, cmd')
    <3>1. /\ cmd' # NoCommand /\ line.verbs \in VerbsOf(cmd')
          /\ pc' = "params" /\ words' = Words(line.items)
          /\ args' = [i \in DOMAIN cmd'.params |-> NULL]
      BY <1>1, <1>4, <2>3 DEF Found
    <3>2. /\ Items(line.items) /\ Len(line.items) \in Nat
          /\ Rest(line.items, 0) = Words(line.items)
      BY <1>2, LineFacts, ItemsFacts, RestFacts
    <3>3. 0 \in 0..Len(line.items)
      BY <3>2
    <3>4. ParamsAt(line', cmd', 0, words', args')
      BY <1>1, <3>1, <3>2, <3>3, MeantNone DEF ParamsAt
    <3>5. GlobalsRead'
      BY <1>1, <1>4 DEF GlobalsRead
    <3>6. QED
      BY <1>1, <1>2, <3>1, <3>4, <3>5 DEF TypedInv
  <2>4. QED
    BY <2>1, <2>2, <2>3
<1>5. QED
  BY <1>1, <1>3, <1>4 DEF TypedInv

LEMMA CommandsAreSome ==
    \A c \in Commands : c # NoCommand
<1>1. NoCommand.verbs = <<>>
  BY DEF NoCommand, Cmd
<1>2. QED
  BY <1>1, TableAssumption DEF VerbsOrdered

LEMMA TypedParseParam ==
    ASSUME PlaceInv, TypedInv, ParseParam
    PROVE  TypedInv'
<1> DEFINE fill == FillFlag(cmd.params, args, words)
           i == Min(find_positional_param(cmd.params))
<1>1. /\ pc = "params" /\ words # <<>>
      /\ line' = line /\ global' = global /\ cmd' = cmd /\ at' = at
  BY DEF ParseParam, handler
<1>2. /\ TakesFlag(cmd, words, fill) =>
           args' = fill.values /\ words' = fill.words /\ pc' = pc
      /\ TakesWordOf(cmd, words) /\ ~TakesFlag(cmd, words, fill) =>
           /\ args' = [args EXCEPT ![i] = Head(words).text]
           /\ words' = Tail(words) /\ pc' = pc
      /\ ~TakesFlag(cmd, words, fill) /\ ~TakesWordOf(cmd, words) => pc' = "done"
  <2>1. CASE TakesFlag(cmd, words, fill)
    BY <2>1 DEF ParseParam, TakesFlag
  <2>2. CASE TakesWordOf(cmd, words) /\ ~TakesFlag(cmd, words, fill)
    BY <2>2 DEF ParseParam, TakesFlag, TakesWordOf
  <2>3. CASE ~TakesFlag(cmd, words, fill) /\ ~TakesWordOf(cmd, words)
    BY <2>3 DEF ParseParam, TakesFlag, TakesWordOf, Return
  <2>4. QED
    BY <2>1, <2>2, <2>3
<1>3. /\ line \in Lines /\ cmd \in Commands /\ cmd # NoCommand /\ at = 0
      /\ line.verbs \in VerbsOf(cmd) /\ GlobalsRead
  BY <1>1, CommandsAreSome DEF TypedInv, PlaceInv
<1>4. PICK k : ParamsAt(line, cmd, k, words, args)
  BY <1>1 DEF TypedInv
<1>5. ParamsTurn(line, cmd, k, words, args)
  BY <1>1, <1>3, <1>4, ParamsFilled
<1>6. GlobalsRead'
  BY <1>1, <1>3 DEF GlobalsRead
<1> DEFINE next == [args EXCEPT ![i] = Head(words).text]
<1>7. \/ /\ ~TakesFlag(cmd, words, fill) /\ ~TakesWordOf(cmd, words)
         /\ AnyWrong(cmd.params, line.items)
      \/ /\ TakesFlag(cmd, words, fill) /\ ~TakesWordOf(cmd, words)
         /\ ParamsAt(line, cmd, k + 1, fill.words, fill.values)
      \/ /\ ~TakesFlag(cmd, words, fill) /\ TakesWordOf(cmd, words)
         /\ ParamsAt(line, cmd, k + 1, Tail(words), next)
  BY <1>5 DEF ParamsTurn
<1> HIDE DEF fill, i, next
<1>8. CASE /\ ~TakesFlag(cmd, words, fill) /\ ~TakesWordOf(cmd, words)
           /\ AnyWrong(cmd.params, line.items)
  BY <1>1, <1>2, <1>3, <1>8 DEF TypedInv, Params
<1>9. ASSUME pc' = pc, ParamsAt(line, cmd, k + 1, words', args') PROVE TypedInv'
  <2>1. ParamsAt(line', cmd', k + 1, words', args')
    BY <1>1, <1>9
  <2>2. QED
    BY <1>1, <1>3, <1>6, <1>9, <2>1 DEF TypedInv
<1>10. CASE /\ TakesFlag(cmd, words, fill) /\ ~TakesWordOf(cmd, words)
            /\ ParamsAt(line, cmd, k + 1, fill.words, fill.values)
  BY <1>2, <1>9, <1>10
<1>11. CASE /\ ~TakesFlag(cmd, words, fill) /\ TakesWordOf(cmd, words)
            /\ ParamsAt(line, cmd, k + 1, Tail(words), next)
  BY <1>2, <1>9, <1>11 DEF next
<1>12. QED
  BY <1>7, <1>8, <1>10, <1>11

LEMMA TypedCall ==
    ASSUME PlaceInv, TypedInv, Call
    PROVE  TypedInv'
<1>1. /\ pc = "params" /\ words = <<>> /\ pc' = "run"
      /\ UNCHANGED <<line, global, cmd, args>>
  BY DEF Call
<1>2. /\ line \in Lines /\ GlobalsRead /\ Items(line.items)
      /\ cmd # NoCommand => line.verbs \in VerbsOf(cmd)
  BY <1>1, LineFacts DEF TypedInv
<1>3. PICK k : ParamsAt(line, cmd, k, words, args)
  BY <1>1 DEF TypedInv
<1>4. k = Len(line.items)
  <2>1. k \in 0..Len(line.items) /\ words = Rest(line.items, k)
    BY <1>3 DEF ParamsAt
  <2>2. Len(line.items) \in Nat
    BY <1>2, ItemsFacts
  <2>3. k \in 0..(Len(line.items) - 1) => words # <<>>
    BY <1>2, <2>1, RestFacts
  <2>4. QED
    BY <1>1, <2>1, <2>2, <2>3
<1>5. ~AnyWrong(cmd.params, line.items) /\ args = Meant(cmd.params, line.items)
  BY <1>2, <1>3, <1>4, MeantWhole DEF ParamsAt
<1>6. GlobalsRead'
  BY <1>1, <1>2 DEF GlobalsRead
<1>7. QED
  BY <1>1, <1>2, <1>5, <1>6 DEF TypedInv, Params

LEMMA TypedStep ==
    ASSUME PlaceInv, TypedInv, [Next]_vars
    PROVE  TypedInv'
<1>1. ASSUME UNCHANGED front, at > 0, cmd \in Commands, pc' \in {"run", "done"}, at' > 0,
             at' \in Nat
      PROVE  TypedInv'
  <2>1. /\ UNCHANGED <<line, words, global, cmd, args>> /\ cmd # NoCommand
    BY <1>1, CommandsAreSome DEF front
  <2>2. GlobalsRead' = GlobalsRead
    BY <2>1 DEF GlobalsRead
  <2>3. at' # 0
    BY <1>1
  <2>4. QED
    BY <1>1, <2>1, <2>2, <2>3 DEF TypedInv, Params
<1>2. CASE ParseGlobal
  BY <1>2, TypedParseGlobal
<1>3. CASE Version
  BY <1>3, TypedVersion
<1>4. CASE FindCommand
  BY <1>4, TypedFindCommand
<1>5. CASE ParseParam
  BY <1>5, TypedParseParam
<1>6. CASE Call
  BY <1>6, TypedCall
<1>7. CASE HandlerStep
  <2>1. /\ pc = "run" /\ cmd \in Commands /\ UNCHANGED front
        /\ GoesOn \/ FailsOut \/ StopsEarly
    BY <1>7, StepOutcome
  <2>2. pc' \in {"run", "done"}
    BY <2>1 DEF GoesOn, FailsOut, StopsEarly
  <2>3. at > 0 /\ Len(Script) \in Nat
    BY <2>1, TableSequences DEF PlaceInv, Script
  <2>4. PlaceInv'
    BY <1>7, StepKeepsPlace
  <2>5. at' > 0 /\ at' \in Nat
    <3>1. CASE GoesOn
      <4>1. pc' = "run" /\ Len(Script)' \in Nat
        <5>1. Script' = Script
          BY <2>1 DEF Script, front
        <5>2. QED
          BY <2>3, <3>1, <5>1 DEF GoesOn
      <4>2. QED
        BY <2>4, <4>1 DEF PlaceInv
    <3>2. CASE FailsOut \/ StopsEarly
      BY <2>3, <2>4, <3>2 DEF FailsOut, StopsEarly, PlaceInv
    <3>3. QED
      BY <2>1, <3>1, <3>2
  <2>6. QED
    BY <1>1, <2>1, <2>2, <2>3, <2>5
<1>8. CASE HandlerReturns
  <2>1. /\ pc = "run" /\ pc' = "done" /\ UNCHANGED front /\ at' = at
    BY <1>8 DEF HandlerReturns, Return, handler
  <2>2. cmd \in Commands /\ at \in Nat /\ at \in 1..(Len(Script) + 1)
    BY <2>1 DEF PlaceInv
  <2>3. Len(Script) \in Nat
    BY <2>2, TableSequences DEF Script
  <2>4. at > 0 /\ at' > 0 /\ at' \in Nat
    BY <2>1, <2>2, <2>3
  <2>5. QED
    BY <1>1, <2>1, <2>2, <2>4
<1>9. CASE UNCHANGED vars
  BY <1>9 DEF vars, TypedInv, VerbLost, GlobalsRead, Params
<1>10. QED
  BY <1>2, <1>3, <1>4, <1>5, <1>6, <1>7, <1>8, <1>9 DEF Next, Exited, HandlerStep

LEMMA TypedImplies ==
    ASSUME TypedInv
    PROVE  RunsWhatWasTyped
<1>1. RunsTypedCommand
  <2>1. cmd # NoCommand => line.verbs \in {cmd.verbs, cmd.alias}
    BY DEF TypedInv, VerbsOf
  <2>2. ASSUME pc = "done", cmd = NoCommand
        PROVE  \/ \A i \in DOMAIN CMDS : line.verbs \notin {CMDS[i].verbs, CMDS[i].alias}
               \/ line.verbs = <<>>
               \/ AnyWrong(GLOBAL_FLAGS, line.globals)
               \/ Meant(GLOBAL_FLAGS, line.globals)[Len(GLOBAL_FLAGS)] # NULL
    <3>1. \A i \in DOMAIN CMDS : CMDS[i] \in Commands
      BY DEF Commands, ToSet
    <3>2. (\A c \in Commands : line.verbs \notin VerbsOf(c)) =>
             \/ line.verbs = <<>>
             \/ \A i \in DOMAIN CMDS : line.verbs \notin {CMDS[i].verbs, CMDS[i].alias}
      BY <3>1 DEF VerbsOf
    <3>3. QED
      BY <2>2, <3>2 DEF TypedInv
  <2>3. QED
    BY <2>1, <2>2 DEF RunsTypedCommand
<1>2. ParserRoundTrip
  BY DEF TypedInv, GlobalsRead, ParserRoundTrip
<1>3. QED
  BY <1>1, <1>2 DEF RunsWhatWasTyped

\* Whatever clear line is typed, and whatever becomes of the handler's steps,
\* htool carries out the command whose verbs were typed, with the values that were
\* typed, and refuses a line before that only for what is wrong with it:
\* find_command(), find_flag(), fill_global_flags() and fill_cmd_invocation() in
\* htool_cmd.c, over the table of htool.c.
THEOREM TypedIsRun == Spec => []RunsWhatWasTyped
<1>1. Init => PlaceInv /\ TypedInv
  BY PlaceInit, TypedInit
<1>2. PlaceInv /\ TypedInv /\ [Next]_vars => (PlaceInv /\ TypedInv)'
  BY NextCases, TypedStep
<1>3. PlaceInv /\ TypedInv => RunsWhatWasTyped
  BY TypedImplies
<1>4. QED
  BY <1>1, <1>2, <1>3, PTL DEF Spec

=============================================================================
