---------------------------- MODULE SharedDevice ----------------------------
(***************************************************************************)
(* Several processes share one RoT.  Each opens a libhoth device, claims   *)
(* the transport's exclusive lock through libhoth_claim_device() (backing  *)
(* off exponentially while another process holds it), issues host commands *)
(* and, when it is an interactive console, releases the lock, yields and   *)
(* claims it again on every turn of htool_console_run().  Processes may    *)
(* die anywhere; the kernel then drops their lock.                         *)
(*                                                                         *)
(* Sources: transports/libhoth_device.c (claim, release, reconnect, close),*)
(* the claim/release/open/close/reconnect functions of the USB, SPI and    *)
(* MTD transports, and examples/htool_console.c (the console loop).        *)
(***************************************************************************)
EXTENDS Integers

CONSTANTS
    Procs,          \* the client processes
    None,           \* nobody holds the lock
    InitialWait,    \* INITIAL_WAIT_US
    MaxSleep,       \* MAX_SINGLE_SLEEP_US
    Uint32Max,      \* UINT32_MAX
    Timeouts        \* values callers pass as timeout_us

ASSUME DeviceAssumption ==
    /\ None \notin Procs
    /\ InitialWait \in Nat \ {0}
    /\ MaxSleep \in Nat
    /\ Uint32Max \in Nat
    /\ InitialWait <= MaxSleep
    /\ MaxSleep <= Uint32Max
    /\ Timeouts \subseteq 0 .. Uint32Max

VARIABLES
    transport,         \* how the RoT is attached: which functions dev points to
    lock,              \* the kernel's owner of the flock / USB interface claim
    pc,                \* where each process is
    caller,            \* who called libhoth_claim_device()
    handle,            \* TRUE while the process has an open fd / usb handle
    timeout_us,        \* libhoth_claim_device()'s argument and locals
    wait_us,
    total_waiting_us,
    slept,             \* history: the time really spent in usleep()
    result             \* what the last claim attempt of the process returned

vars == <<transport, lock, pc, caller, handle, timeout_us, wait_us,
          total_waiting_us, slept, result>>

claimVars == <<timeout_us, wait_us, total_waiting_us, slept>>

\* Places in which a process uses the interface: it sets it up or exchanges
\* host commands with the RoT.
Commanding == {"setup", "run", "read", "write"}

Places == {"closed", "claim", "sleep", "loop", "yield", "reconnect"}
              \union Commanding

Transports == {"usb", "spi", "mtd"}

Callers == {"open", "console", "reconnect"}

Results == {"none", "ok", "busy", "error"}

TypeOK ==
    /\ transport \in Transports
    /\ lock \in Procs \union {None}
    /\ pc \in [Procs -> Places]
    /\ caller \in [Procs -> Callers]
    /\ handle \in [Procs -> BOOLEAN]
    /\ timeout_us \in [Procs -> 0 .. Uint32Max]
    /\ wait_us \in [Procs -> 0 .. MaxSleep]
    /\ total_waiting_us \in [Procs -> 0 .. Uint32Max]
    /\ slept \in [Procs -> Nat]
    /\ result \in [Procs -> Results]

Init ==
    /\ transport \in Transports
    /\ lock = None
    /\ pc = [p \in Procs |-> "closed"]
    /\ caller = [p \in Procs |-> "open"]
    /\ handle = [p \in Procs |-> FALSE]
    /\ timeout_us = [p \in Procs |-> 0]
    /\ wait_us = [p \in Procs |-> InitialWait]
    /\ total_waiting_us = [p \in Procs |-> 0]
    /\ slept = [p \in Procs |-> 0]
    /\ result = [p \in Procs |-> "none"]

-----------------------------------------------------------------------------
(* The kernel's lock: flock(LOCK_EX|LOCK_NB) and libusb_claim_interface(). *)

\* Taking a lock one already holds succeeds in both.
Grantable(p) == lock \in {None, p}

\* Unlocking, or closing the descriptor, frees the lock of its holder only.
Unlocked(p) == IF lock = p THEN None ELSE lock

-----------------------------------------------------------------------------
(* libhoth_claim_device()                                                  *)

EnterClaim(p, who, t) ==
    /\ pc' = [pc EXCEPT ![p] = "claim"]
    /\ caller' = [caller EXCEPT ![p] = who]
    /\ timeout_us' = [timeout_us EXCEPT ![p] = t]
    /\ wait_us' = [wait_us EXCEPT ![p] = InitialWait]
    /\ total_waiting_us' = [total_waiting_us EXCEPT ![p] = 0]
    /\ slept' = [slept EXCEPT ![p] = 0]
    /\ result' = [result EXCEPT ![p] = "none"]
    /\ UNCHANGED transport

\* An open, or the open inside a reconnect, goes on to set the interface up;
\* the console goes on to libhoth_read_console().
AfterClaim(who) == IF who = "console" THEN "read" ELSE "setup"

ClaimGranted(p) ==
    /\ pc[p] = "claim"
    /\ Grantable(p)
    /\ lock' = p
    /\ pc' = [pc EXCEPT ![p] = AfterClaim(caller[p])]
    /\ result' = [result EXCEPT ![p] = "ok"]
    /\ UNCHANGED <<transport, caller, handle, claimVars>>

\* Mutant: the console does not look at what the claim returned.
ClaimFailedUnnoticed(p, err) ==
    /\ pc' = [pc EXCEPT ![p] = IF caller[p] = "open" THEN "closed"
                              ELSE AfterClaim(caller[p])]
    /\ handle' = [handle EXCEPT ![p] = @ /\ caller[p] = "console"]
    /\ lock' = IF caller[p] = "console" THEN lock ELSE Unlocked(p)
    /\ result' = [result EXCEPT ![p] = err]
    /\ UNCHANGED <<transport, caller, claimVars>>

\* A failed claim closes the handle that was being opened (the err_out
\* labels); the console keeps its handle.  Either way a console goes to its
\* reconnect loop.
ClaimFailed(p, err) ==
    /\ pc' = [pc EXCEPT ![p] = IF caller[p] = "open" THEN "closed"
                                                     ELSE "reconnect"]
    /\ handle' = [handle EXCEPT ![p] = @ /\ caller[p] = "console"]
    /\ lock' = IF caller[p] = "console" THEN lock ELSE Unlocked(p)
    /\ result' = [result EXCEPT ![p] = err]
    /\ UNCHANGED <<transport, caller, claimVars>>

\* Mutant: gives up when the next wait would exceed the budget.
ClaimTimedOutEarly(p) ==
    /\ pc[p] = "claim"
    /\ ~Grantable(p)
    /\ total_waiting_us[p] + wait_us[p] >= timeout_us[p]
    /\ ClaimFailed(p, "busy")

\* Mutant: > for >=.
ClaimTimedOutAbove(p) ==
    /\ pc[p] = "claim"
    /\ ~Grantable(p)
    /\ total_waiting_us[p] > timeout_us[p]
    /\ ClaimFailed(p, "busy")

ClaimTimedOut(p) ==
    /\ pc[p] = "claim"
    /\ ~Grantable(p)
    /\ total_waiting_us[p] >= timeout_us[p]
    /\ ClaimFailed(p, "busy")

\* dev->claim() fails for another reason than a busy interface.  flock()'s
\* failures are all reported as busy, so only USB can do this.
ClaimError(p) ==
    /\ transport = "usb"
    /\ pc[p] = "claim"
    /\ ClaimFailed(p, "error")

\* Mutant: waits whatever the budget.
ClaimBusyNoBudget(p) ==
    /\ pc[p] = "claim"
    /\ ~Grantable(p)
    /\ pc' = [pc EXCEPT ![p] = "sleep"]
    /\ UNCHANGED <<transport, lock, caller, handle, claimVars, result>>

ClaimBusy(p) ==
    /\ pc[p] = "claim"
    /\ ~Grantable(p)
    /\ total_waiting_us[p] < timeout_us[p]
    /\ pc' = [pc EXCEPT ![p] = "sleep"]
    /\ UNCHANGED <<transport, lock, caller, handle, claimVars, result>>

\* Mutant: the total does not saturate.
AddWaitingPlain(total, wait) == total + wait

\* Both updates saturate instead of wrapping around.
AddWaiting(total, wait) ==
    IF total <= Uint32Max - wait THEN total + wait ELSE Uint32Max

BackOff(wait) ==
    IF wait <= MaxSleep \div 2 THEN wait * 2 ELSE MaxSleep

Sleep(p) ==
    /\ pc[p] = "sleep"
    /\ slept' = [slept EXCEPT ![p] = @ + wait_us[p]]
    /\ total_waiting_us' =
          [total_waiting_us EXCEPT ![p] = AddWaiting(@, wait_us[p])]
    /\ wait_us' = [wait_us EXCEPT ![p] = BackOff(@)]
    /\ pc' = [pc EXCEPT ![p] = "claim"]
    /\ UNCHANGED <<transport, lock, caller, handle, timeout_us, result>>

-----------------------------------------------------------------------------
(* Opening and closing                                                     *)

\* libhoth_spi_open() and libhoth_usb_open(): the descriptor is opened, then
\* claimed with the retry budget --connect_timeout.
OpenDevice(p, t) ==
    /\ transport \in {"usb", "spi"}
    /\ pc[p] = "closed"
    /\ handle' = [handle EXCEPT ![p] = TRUE]
    /\ EnterClaim(p, "open", t)
    /\ UNCHANGED lock

\* After the claim: SPI mode, word size and speed, or the USB driver's
\* endpoints, transfers and buffers.
SetUp(p) ==
    /\ pc[p] = "setup"
    /\ pc' = [pc EXCEPT ![p] = IF caller[p] = "open" THEN "run" ELSE "loop"]
    /\ UNCHANGED <<transport, lock, caller, handle, claimVars, result>>

SetUpFails(p) ==
    /\ pc[p] = "setup"
    /\ lock' = Unlocked(p)
    /\ handle' = [handle EXCEPT ![p] = FALSE]
    /\ pc' = [pc EXCEPT ![p] = IF caller[p] = "open" THEN "closed"
                                                     ELSE "reconnect"]
    /\ UNCHANGED <<transport, caller, claimVars, result>>

\* libhoth_mtd_open() tries flock() once, whatever --connect_timeout says.
OpenMtd(p, t) ==
    /\ transport = "mtd"
    /\ pc[p] = "closed"
    /\ caller' = [caller EXCEPT ![p] = "open"]
    /\ timeout_us' = [timeout_us EXCEPT ![p] = t]
    /\ wait_us' = [wait_us EXCEPT ![p] = InitialWait]
    /\ total_waiting_us' = [total_waiting_us EXCEPT ![p] = 0]
    /\ slept' = [slept EXCEPT ![p] = 0]
    /\ UNCHANGED transport
    /\ IF Grantable(p)
       THEN /\ lock' = p
            /\ pc' = [pc EXCEPT ![p] = "run"]
            /\ handle' = [handle EXCEPT ![p] = TRUE]
            /\ result' = [result EXCEPT ![p] = "ok"]
       ELSE /\ result' = [result EXCEPT ![p] = "busy"]
            /\ UNCHANGED <<lock, pc, handle>>

\* libhoth_device_close(), or the process dies and the kernel closes its
\* descriptors: either way the lock goes with the descriptor.
Gone(p) ==
    /\ lock' = Unlocked(p)
    /\ handle' = [handle EXCEPT ![p] = FALSE]
    /\ pc' = [pc EXCEPT ![p] = "closed"]
    /\ UNCHANGED <<transport, caller, claimVars, result>>

Close(p) == pc[p] = "run" /\ Gone(p)

Die(p) == pc[p] # "closed" /\ Gone(p)

-----------------------------------------------------------------------------
(* htool_console_run(): before its loop it sends UART and channel-status   *)
(* commands under the claim made by the open.                              *)

MoveTo(p, place) ==
    /\ pc' = [pc EXCEPT ![p] = place]
    /\ UNCHANGED <<transport, lock, caller, handle, claimVars, result>>

StartConsole(p) == pc[p] = "run" /\ MoveTo(p, "loop")

\* The loop's head once status is HOTH_SUCCESS: release, then usleep().
ReleaseAndYield(p) ==
    /\ pc[p] = "loop"
    /\ lock' = Unlocked(p)
    /\ pc' = [pc EXCEPT ![p] = "yield"]
    /\ UNCHANGED <<transport, caller, handle, claimVars, result>>

ReclaimAfterYield(p, t) ==
    /\ pc[p] = "yield"
    /\ EnterClaim(p, "console", t)
    /\ UNCHANGED <<lock, handle>>

ReadConsole(p) ==
    /\ pc[p] = "read"
    /\ \E next \in {"write", "reconnect"} : MoveTo(p, next)

\* On quit the loop ends and the caller closes the device.
WriteConsole(p) ==
    /\ pc[p] = "write"
    /\ \E next \in {"loop", "run", "reconnect"} : MoveTo(p, next)

\* libhoth_spi_reconnect() and libhoth_mtd_reconnect() do nothing.
ReconnectNoOp(p) ==
    /\ transport \in {"spi", "mtd"}
    /\ pc[p] = "reconnect"
    /\ MoveTo(p, "loop")

\* libhoth_usb_reconnect(): once the device is found again the old handle is
\* closed, with its claim, and a new one opened and claimed.  While it is not
\* found the console stays here, so that case is a stuttering step.
ReconnectUsb(p, t) ==
    /\ transport = "usb"
    /\ pc[p] = "reconnect"
    /\ lock' = Unlocked(p)
    /\ handle' = [handle EXCEPT ![p] = TRUE]
    /\ EnterClaim(p, "reconnect", t)

\* Mutant: the console takes a failed reconnect for a success.
ReconnectUsbFailsUnnoticed(p) ==
    /\ transport = "usb"
    /\ pc[p] = "reconnect"
    /\ lock' = Unlocked(p)
    /\ handle' = [handle EXCEPT ![p] = FALSE]
    /\ pc' = [pc EXCEPT ![p] = "loop"]
    /\ UNCHANGED <<transport, caller, claimVars, result>>

\* libhoth_usb_device_open() can fail after the old handle is closed and
\* before the new one is claimed: the descriptor checks and libusb_open().
ReconnectUsbFails(p) ==
    /\ transport = "usb"
    /\ pc[p] = "reconnect"
    /\ lock' = Unlocked(p)
    /\ handle' = [handle EXCEPT ![p] = FALSE]
    /\ UNCHANGED <<transport, pc, caller, claimVars, result>>

-----------------------------------------------------------------------------
ClaimAttempt(p) ==
    \/ ClaimGranted(p)
    \/ ClaimTimedOut(p)
    \/ ClaimBusy(p)

ProcNext(p) ==
    \/ ClaimAttempt(p)
    \/ ClaimError(p)
    \/ Sleep(p)
    \/ \E t \in Timeouts : \/ OpenDevice(p, t)
                           \/ OpenMtd(p, t)
                           \/ ReclaimAfterYield(p, t)
                           \/ ReconnectUsb(p, t)
    \/ SetUp(p)
    \/ SetUpFails(p)
    \/ Close(p)
    \/ Die(p)
    \/ StartConsole(p)
    \/ ReleaseAndYield(p)
    \/ ReadConsole(p)
    \/ WriteConsole(p)
    \/ ReconnectNoOp(p)
    \/ ReconnectUsbFails(p)

Next == \E p \in Procs : ProcNext(p)

Spec == Init /\ [][Next]_vars

\* A process inside libhoth_claim_device() is scheduled, and usleep() ends.
FairSpec ==
    /\ Spec
    /\ \A p \in Procs : WF_vars(ClaimAttempt(p)) /\ WF_vars(Sleep(p))

-----------------------------------------------------------------------------
(* Properties                                                              *)

\* Host commands are exchanged with the RoT (libhoth_read_console(), the
\* commands after an open, ...) only by the process that holds the transport's
\* lock, on every path through the console's release/claim/reconnect loop.
CommandsUnderClaim ==
    \A p \in Procs : pc[p] \in Commanding => lock = p

\* No release, claim or host command runs on a handle that a failed
\* libhoth_usb_reconnect() has closed: libhoth_usb_claim() and
\* libhoth_usb_release() do not check usb_dev->handle.
HandleIsOpenWhenUsed ==
    \A p \in Procs : pc[p] \notin {"closed", "reconnect"} => handle[p]

\* libhoth_claim_device() reports a busy interface only after it has waited
\* for its whole timeout_us ("We've exhausted our waiting budget").  README.md
\* promises as much of opening any transport with --connect_timeout, but
\* libhoth_mtd_open() tries its flock() once.
NoEarlyGiveUp ==
    \A p \in Procs : result[p] = "busy" =>
        \/ slept[p] >= timeout_us[p]
        \/ transport = "mtd" /\ caller[p] = "open"

\* The waiting inside one claim stays below timeout_us plus one maximal sleep:
\* neither the running total nor the backed-off wait ever wraps around.
SleepBudget ==
    \A p \in Procs :
        pc[p] \in {"claim", "sleep"} =>
            \/ slept[p] = 0
            \/ slept[p] < timeout_us[p] + MaxSleep

\* What libhoth_claim_device()'s counter says of the time really slept: below
\* UINT32_MAX it is exact, and sleeping is only ever started under budget.
CounterTracksSleep ==
    \A p \in Procs :
        /\ total_waiting_us[p] <= slept[p]
        /\ total_waiting_us[p] < Uint32Max => slept[p] = total_waiting_us[p]
        /\ pc[p] = "sleep" => total_waiting_us[p] < timeout_us[p]

\* SPI and MTD never close the descriptor of a console that lost its claim,
\* since their reconnect does nothing: setting up only follows an open.
HandleIsKept ==
    \A p \in Procs :
        /\ pc[p] = "setup" => caller[p] # "console"
        /\ transport # "usb" => /\ caller[p] # "reconnect"
                                /\ pc[p] # "closed" => handle[p]

\* The inductive invariant behind the four safety properties.
IInv ==
    /\ TypeOK
    /\ CommandsUnderClaim
    /\ HandleIsOpenWhenUsed
    /\ HandleIsKept
    /\ CounterTracksSleep
    /\ SleepBudget
    /\ NoEarlyGiveUp

\* A call of libhoth_claim_device() returns.
ClaimReturns ==
    \A p \in Procs :
        pc[p] \in {"claim", "sleep"} ~> pc[p] \notin {"claim", "sleep"}
=============================================================================
