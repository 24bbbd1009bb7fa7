------------------------------ MODULE UsbFifo ------------------------------
(***************************************************************************)
(* The USB FIFO transport, transports/libhoth_usb_fifo.c: send_request()   *)
(* only prepares the OUT transfer; receive_response() submits the OUT and  *)
(* the IN transfer together, runs libusb's event loop until the callbacks  *)
(* have reported both, and reads again while it finds responses that       *)
(* belong to processes that died.  The kernel, the RoT and its TxFIFO run  *)
(* concurrently: transfers fail, time out, are cancelled too late, the RoT *)
(* resets, and the process may die anywhere and be replaced by another.    *)
(***************************************************************************)
EXTENDS Integers, Sequences

CONSTANTS
    Ids,            \* request ids; a request is known by its id
    None,
    GiveUpAfter,    \* foreign responses read again for (10 in the code)
    MaxTx,          \* bound: responses the RoT's TxFIFO holds
    Sizes,          \* lengths of responses that occur
    Timeouts        \* {"timed"}, or with "forever" for timeout_ms = 0

ASSUME FifoAssumption ==
    /\ None \notin Ids
    /\ GiveUpAfter \in Nat
    /\ MaxTx \in Nat
    /\ Sizes \subseteq {"fits", "long", "short"}
    /\ Timeouts \subseteq {"timed", "forever"}

VARIABLES
    pc,             \* where the client's thread is
    round,          \* which run_transfers() call of receive_response() it is in
    i,              \* receive_response()'s loop counter
    timeout,        \* timeout_ms
    status,         \* run_transfers()'s local, while it drains
    out_id,         \* the request id in out_buffer
    out_length,     \* out_transfer->length # 0: a request is prepared
    in_buffer,      \* the response last read
    in_transfer, out_transfer,
    in_completed, out_completed, all_completed,  \* drvdata's three flags
    executing,      \* the request the RoT works on, or None
    tx,             \* the RoT's TxFIFO
    result,         \* what the last receive_response() returned
    delivered       \* the request whose response it handed out

hostVars == <<out_id, out_length, result, delivered>>
flagVars == <<in_completed, out_completed, all_completed>>
usbVars == <<in_transfer, out_transfer, in_buffer>>
rotVars == <<executing, tx>>
callVars == <<round, i, timeout, status>>
vars == <<pc, callVars, hostVars, flagVars, usbVars, rotVars>>

\* A response has a length the caller's buffer takes, or it is longer than
\* max_response_size, or it is too short to hold a request id.
Response == [id : Ids, size : Sizes]

\* Every failure other than these is handled as "error".
Statuses == {"completed", "partial", "cancelled", "timed_out", "stall", "error"}

\* idle: libusb does not own it; pending: submitted; done: the kernel has
\* finished it, its callback has not run.
Transfer == [st : {"idle", "pending", "done"}, status : Statuses,
             cancel : BOOLEAN]

Idle(s) == [st |-> "idle", status |-> s, cancel |-> FALSE]
Submitted(t) == [t EXCEPT !.st = "pending", !.cancel = FALSE]
Done(t, s) == [t EXCEPT !.st = "done", !.status = s]

Failures == {"io", "timeout", "pipe"}
Results == {"none", "ok", "underflow", "overflow"} \union Failures

TypeOK ==
    /\ pc \in {"idle", "submit_in", "submit_out", "events", "drain", "check"}
    /\ round \in {"first", "after_stall", "again"}
    /\ i \in 0 .. GiveUpAfter
    /\ timeout \in {"timed", "forever"}
    /\ status \in Failures
    /\ out_id \in Ids \union {None}
    /\ out_length \in BOOLEAN
    /\ in_buffer \in Response \union {None}
    /\ in_transfer \in Transfer
    /\ out_transfer \in Transfer
    /\ in_completed \in BOOLEAN
    /\ out_completed \in BOOLEAN
    /\ all_completed \in BOOLEAN
    /\ executing \in Ids \union {None}
    /\ tx \in Seq(Response)
    /\ Len(tx) <= MaxTx
    /\ result \in Results
    /\ delivered \in Ids \union {None}

Init ==
    /\ pc = "idle"
    /\ round = "first" /\ i = 0 /\ timeout = "timed" /\ status = "io"
    /\ out_id = None /\ out_length = FALSE
    /\ in_buffer = None
    /\ in_transfer = Idle("completed") /\ out_transfer = Idle("completed")
    /\ in_completed = TRUE /\ out_completed = TRUE /\ all_completed = TRUE
    /\ executing = None /\ tx = <<>>
    /\ result = "none" /\ delivered = None

-----------------------------------------------------------------------------
(* libhoth_usb_fifo_send_request()                                         *)

\* The ids still around in the RoT.  Ids are 16 pseudo-random bytes of a
\* generator seeded per process: a new one is taken to differ from them.
IdsAround == {tx[n].id : n \in DOMAIN tx} \union {executing}

SendRequest(id) ==
    /\ pc = "idle"
    /\ id \notin IdsAround
    /\ out_id' = id
    /\ out_length' = TRUE
    /\ UNCHANGED <<pc, callVars, result, delivered, flagVars, usbVars, rotVars>>

-----------------------------------------------------------------------------
(* libhoth_usb_fifo_receive_response(): entry, and the transfer_done label *)

ReceiveNothingSent ==
    /\ pc = "idle"
    /\ ~out_length
    /\ result' = "io"
    /\ UNCHANGED <<pc, callVars, out_id, out_length, delivered, flagVars,
                   usbVars, rotVars>>

ReceiveResponse(t) ==
    /\ pc = "idle"
    /\ out_length
    /\ pc' = "submit_in"
    /\ round' = "first"
    /\ i' = 0
    /\ timeout' = t
    /\ result' = "none"
    /\ UNCHANGED <<status, out_id, out_length, delivered, flagVars, usbVars,
                   rotVars>>

\* The call returns; its locals are gone.
Return(r) ==
    /\ pc' = "idle"
    /\ result' = r
    /\ round' = "first" /\ i' = 0 /\ timeout' = "timed" /\ status' = "io"

\* goto transfer_done: the request is dropped whatever the result.
TransferDone(r) == Return(r) /\ out_length' = FALSE

-----------------------------------------------------------------------------
(* libhoth_usb_fifo_run_transfers()                                        *)

\* Mutant: the completion flags are left as they are.
SubmitInStaleFlag ==
    /\ pc = "submit_in"
    /\ in_transfer' = Submitted(in_transfer)
    /\ in_buffer' = None
    /\ in_completed' = FALSE
    /\ pc' = IF round = "again" THEN "events" ELSE "submit_out"
    /\ UNCHANGED <<callVars, hostVars, out_completed, all_completed,
                   out_transfer, rotVars>>

\* From here on the buffer is libusb's: what it held is lost.
SubmitIn ==
    /\ pc = "submit_in"
    /\ in_transfer' = Submitted(in_transfer)
    /\ in_buffer' = None
    /\ in_completed' = FALSE
    /\ out_completed' = TRUE
    /\ all_completed' = FALSE
    /\ pc' = IF round = "again" THEN "events" ELSE "submit_out"
    /\ UNCHANGED <<callVars, hostVars, out_transfer, rotVars>>

\* Nothing is in flight, so the error is returned at once.
SubmitInFails ==
    /\ pc = "submit_in"
    /\ in_completed' = TRUE
    /\ out_completed' = TRUE
    /\ all_completed' = TRUE
    /\ TransferDone("io")
    /\ UNCHANGED <<out_id, delivered, usbVars, rotVars>>

SubmitOut ==
    /\ pc = "submit_out"
    /\ out_transfer' = Submitted(out_transfer)
    /\ out_completed' = FALSE
    /\ all_completed' = FALSE
    /\ pc' = "events"
    /\ UNCHANGED <<callVars, hostVars, in_completed, in_transfer, in_buffer,
                   rotVars>>

\* libusb_cancel_transfer() has no effect on a transfer that has finished.
Cancelling(t, completed) ==
    IF ~completed /\ t.st = "pending" THEN [t EXCEPT !.cancel = TRUE] ELSE t

\* The out label with a transfer in flight.
CancelAndDrain(s) ==
    /\ in_transfer' = Cancelling(in_transfer, in_completed)
    /\ out_transfer' = Cancelling(out_transfer, out_completed)
    /\ status' = s
    /\ pc' = "drain"
    /\ UNCHANGED <<round, i, timeout, hostVars, flagVars, in_buffer, rotVars>>

\* Mutant: returns while the IN transfer is out.
SubmitOutFailsAtOnce ==
    /\ pc = "submit_out"
    /\ TransferDone("io")
    /\ UNCHANGED <<out_id, delivered, flagVars, usbVars, rotVars>>

SubmitOutFails == pc = "submit_out" /\ CancelAndDrain("io")

\* libusb_handle_events_completed() fails other than by an interruption.  In
\* the draining loop its failures are ignored.
HandleEventsFails == pc = "events" /\ CancelAndDrain("io")

\* fifo_transfer_callback() for the transfer whose flags are given: it cancels
\* the other one, if that is still out, unless it completed or was cancelled.
CancelsOther(t) == t.status \notin {"completed", "partial", "cancelled"}

AfterCallback ==
    IF ~all_completed' THEN UNCHANGED <<pc, callVars, result, out_length>>
    ELSE IF pc = "drain" THEN TransferDone(status)
    ELSE pc' = "check" /\ UNCHANGED <<callVars, result, out_length>>

\* Mutant: the other transfer is not cancelled.
InCallbackNoCancel ==
    /\ pc \in {"events", "drain"}
    /\ in_transfer.st = "done"
    /\ in_transfer' = Idle(in_transfer.status)
    /\ in_completed' = TRUE
    /\ all_completed' = (all_completed \/ out_completed)
    /\ AfterCallback
    /\ UNCHANGED <<out_id, delivered, out_transfer, out_completed, in_buffer,
                   rotVars>>

InCallback ==
    /\ pc \in {"events", "drain"}
    /\ in_transfer.st = "done"
    /\ in_transfer' = Idle(in_transfer.status)
    /\ out_transfer' = IF CancelsOther(in_transfer)
                       THEN Cancelling(out_transfer, out_completed)
                       ELSE out_transfer
    /\ in_completed' = TRUE
    /\ all_completed' = (all_completed \/ out_completed)
    /\ AfterCallback
    /\ UNCHANGED <<out_id, delivered, out_completed, in_buffer,
                   rotVars>>

OutCallback ==
    /\ pc \in {"events", "drain"}
    /\ out_transfer.st = "done"
    /\ out_transfer' = Idle(out_transfer.status)
    /\ in_transfer' = IF CancelsOther(out_transfer)
                      THEN Cancelling(in_transfer, in_completed)
                      ELSE in_transfer
    /\ out_completed' = TRUE
    /\ all_completed' = (all_completed \/ in_completed)
    /\ AfterCallback
    /\ UNCHANGED <<out_id, delivered, in_completed, in_buffer,
                   rotVars>>

-----------------------------------------------------------------------------
(* libhoth_usb_fifo_receive_response() once run_transfers() succeeded      *)

\* transfer_status_to_error()
ToError(s) == CASE s = "timed_out" -> "timeout"
                [] s = "stall" -> "pipe"
                [] OTHER -> "io"

Stalled ==
    /\ round = "first"
    /\ "stall" \in {in_transfer.status, out_transfer.status}

\* Both halts are cleared and both transfers run once more.
RetryAfterStall ==
    /\ pc = "check"
    /\ Stalled
    /\ round' = "after_stall"
    /\ pc' = "submit_in"
    /\ UNCHANGED <<i, timeout, status, hostVars, flagVars, usbVars, rotVars>>

ClearHaltFails ==
    /\ pc = "check"
    /\ Stalled
    /\ TransferDone("io")
    /\ UNCHANGED <<out_id, delivered, flagVars, usbVars, rotVars>>

\* The OUT transfer was accepted only in part: an early return that does not
\* pass through transfer_done.
OutUnderflow ==
    /\ pc = "check"
    /\ ~Stalled
    /\ out_transfer.status = "partial"
    /\ Return("underflow")
    /\ UNCHANGED <<out_id, out_length, delivered, flagVars, usbVars,
                   rotVars>>

\* The result of a read that ends the call, in the order of the checks.
ReadError ==
    CASE out_transfer.status # "completed" -> ToError(out_transfer.status)
      [] in_transfer.status # "completed" -> ToError(in_transfer.status)
      [] in_buffer.size = "long" -> "overflow"
      [] in_buffer.size = "short" -> "io"
      [] OTHER -> "none"

ReceiveFails ==
    /\ pc = "check"
    /\ ~Stalled
    /\ out_transfer.status # "partial"
    /\ ReadError # "none"
    /\ TransferDone(ReadError)
    /\ UNCHANGED <<out_id, delivered, flagVars, usbVars, rotVars>>

\* Mutant: any response will do.
IsOwnUnchecked(response) == TRUE

IsOwn(response) == response.id = out_id

Readable ==
    /\ pc = "check"
    /\ ~Stalled
    /\ out_transfer.status # "partial"
    /\ ReadError = "none"

ReceiveSucceeds ==
    /\ Readable
    /\ IsOwn(in_buffer)
    /\ delivered' = in_buffer.id
    /\ TransferDone("ok")
    /\ UNCHANGED <<out_id, flagVars, usbVars, rotVars>>

ReceiveGivesUp ==
    /\ Readable
    /\ ~IsOwn(in_buffer)
    /\ i >= GiveUpAfter
    /\ TransferDone("io")
    /\ UNCHANGED <<out_id, delivered, flagVars, usbVars, rotVars>>

\* Mutant: reads again for ever.
ReadAgainUnbounded ==
    /\ Readable
    /\ ~IsOwn(in_buffer)
    /\ i' = i + 1
    /\ round' = "again"
    /\ pc' = "submit_in"
    /\ UNCHANGED <<timeout, status, hostVars, flagVars, usbVars, rotVars>>

\* Another process died in the middle of a host command: read again.
ReadAgain ==
    /\ Readable
    /\ ~IsOwn(in_buffer)
    /\ i < GiveUpAfter
    /\ i' = i + 1
    /\ round' = "again"
    /\ pc' = "submit_in"
    /\ UNCHANGED <<timeout, status, hostVars, flagVars, usbVars, rotVars>>

-----------------------------------------------------------------------------
(* The client is replaced by another: a close (from idle) or the process's *)
(* death, then libhoth_usb_fifo_open().  The kernel discards its transfers.*)

Opened ==
    /\ Return("none")
    /\ out_id' = None
    /\ out_length' = FALSE
    /\ in_buffer' = None
    /\ in_transfer' = Idle("completed")
    /\ out_transfer' = Idle("completed")
    /\ in_completed' = TRUE
    /\ out_completed' = TRUE
    /\ all_completed' = TRUE
    /\ UNCHANGED <<delivered, rotVars>>

CloseAndOpen == pc = "idle" /\ Opened

DieAndOpen == pc # "idle" /\ Opened

-----------------------------------------------------------------------------
(* The kernel's USB stack and the RoT                                      *)

\* The OUT transfer ends.  Only a completed one is sure to have reached the
\* RoT; a failed one may have.
OutReachesRot(s) ==
    /\ out_transfer.st = "pending"
    /\ executing = None
    /\ out_transfer' = Done(out_transfer, s)
    /\ executing' = out_id
    /\ UNCHANGED <<pc, callVars, hostVars, flagVars, in_transfer, in_buffer, tx>>

OutLost(s) ==
    /\ out_transfer.st = "pending"
    /\ out_transfer' = Done(out_transfer, s)
    /\ UNCHANGED <<pc, callVars, hostVars, flagVars, in_transfer, in_buffer,
                   rotVars>>

InReads ==
    /\ in_transfer.st = "pending"
    /\ tx # <<>>
    /\ in_transfer' = Done(in_transfer, "completed")
    /\ in_buffer' = Head(tx)
    /\ tx' = Tail(tx)
    /\ UNCHANGED <<pc, callVars, hostVars, flagVars, out_transfer, executing>>

InFails(s) ==
    /\ in_transfer.st = "pending"
    /\ in_transfer' = Done(in_transfer, s)
    /\ UNCHANGED <<pc, callVars, hostVars, flagVars, out_transfer, in_buffer,
                   rotVars>>

\* A transfer ends by itself when its timeout runs out, and when cancelled.
OutExpires ==
    \/ timeout = "timed" /\ OutLost("timed_out")
    \/ out_transfer.cancel /\ OutLost("cancelled")

InExpires ==
    \/ timeout = "timed" /\ InFails("timed_out")
    \/ in_transfer.cancel /\ InFails("cancelled")

\* The RoT answers every request it received.
Respond(size) ==
    /\ executing # None
    /\ Len(tx) < MaxTx
    /\ tx' = Append(tx, [id |-> executing, size |-> size])
    /\ executing' = None
    /\ UNCHANGED <<pc, callVars, hostVars, flagVars, usbVars>>

RotResets ==
    /\ executing' = None
    /\ tx' = <<>>
    /\ UNCHANGED <<pc, callVars, hostVars, flagVars, usbVars>>

-----------------------------------------------------------------------------
Submit == SubmitIn \/ SubmitInFails \/ SubmitOut \/ SubmitOutFails

HandleEvents == InCallback \/ OutCallback

Check ==
    \/ RetryAfterStall
    \/ ClearHaltFails
    \/ OutUnderflow
    \/ ReceiveFails
    \/ ReceiveSucceeds
    \/ ReceiveGivesUp
    \/ ReadAgain

Client ==
    \/ \E id \in Ids : SendRequest(id)
    \/ ReceiveNothingSent
    \/ \E t \in Timeouts : ReceiveResponse(t)
    \/ CloseAndOpen
    \/ DieAndOpen

Kernel ==
    \/ \E s \in {"completed", "error"} : OutReachesRot(s)
    \/ \E s \in {"partial", "stall", "error"} : OutLost(s)
    \/ InReads
    \/ \E s \in {"stall", "error"} : InFails(s)
    \/ OutExpires
    \/ InExpires

Rot == RotResets \/ \E size \in Sizes : Respond(size)

Next == Client \/ Submit \/ HandleEvents \/ HandleEventsFails \/ Check
            \/ Kernel \/ Rot

Spec == Init /\ [][Next]_vars

\* The client's thread runs, libusb reports finished transfers, and timeouts
\* and cancellations take effect.  Nothing is assumed of the RoT.
FairSpec ==
    /\ Spec
    /\ WF_vars(Submit) /\ WF_vars(Check)
    /\ WF_vars(InCallback) /\ WF_vars(OutCallback)
    /\ WF_vars(InExpires) /\ WF_vars(OutExpires)

-----------------------------------------------------------------------------
(* Properties                                                              *)

InFlight == {t \in {in_transfer, out_transfer} : t.st # "idle"}

\* Whatever failed, libusb owns neither transfer once receive_response() has
\* returned or run_transfers() is about to submit them again: close() frees
\* them, and the stack's caller may free the response buffer.
NothingInFlight ==
    pc \in {"idle", "submit_in", "check"} => InFlight = {}

\* The three completion flags tell exactly which transfers are still out while
\* the event loop runs, so that no callback is waited for in vain.
FlagsTrackTransfers ==
    pc \in {"events", "drain"} =>
        /\ in_completed <=> in_transfer.st = "idle"
        /\ out_completed <=> out_transfer.st = "idle"
        /\ ~all_completed
        /\ InFlight # {}

\* A receive in progress has a request to answer.
CallHasRequest ==
    /\ pc # "idle" => out_length
    /\ out_length => out_id # None

\* From the first submission to the second only the IN transfer is out.
OutNotYetSubmitted ==
    pc = "submit_out" =>
        /\ in_transfer.st # "idle" /\ out_transfer.st = "idle"
        /\ ~in_completed /\ out_completed /\ ~all_completed

\* The inductive invariant.
IInv ==
    /\ TypeOK
    /\ NothingInFlight
    /\ OutNotYetSubmitted
    /\ FlagsTrackTransfers
    /\ CallHasRequest

\* The transport keeps libhoth_device.h's promise: a response is delivered
\* only for the request sent last and only once, however many responses of
\* dead processes, retries and resets came before.
Transport == INSTANCE HothTransport WITH
    Requests <- Ids,
    pending <- IF out_length THEN out_id ELSE None

ImplementsTransport == Transport!Spec

\* A transfer that fails ends the call even when timeout_ms is zero: the
\* callback cancels the other transfer, "so we don't get stuck waiting
\* forever".
FailureEndsTheWait ==
    (pc = "events" /\ \E t \in {in_transfer, out_transfer} :
                         t.st = "done" /\ CancelsOther(t))
        ~> pc # "events"

\* With a timeout, receive_response() returns.
ReceiveReturns == (pc # "idle" /\ timeout = "timed") ~> pc = "idle"

\* libhoth_device.h: "Returns LIBHOTH_ERR_TIMEOUT if the response is not ready
\* by the specified timeout, and the user can call again later."
CallAgainLater ==
    [][result = "timeout" /\ pc = "idle" /\ pc' = "idle" => result' # "io"]_vars

\* receive_response() does not wait for ever: a failed transfer ends the wait
\* even without a timeout, and with a timeout the call returns in any case.
WaitEnds == FailureEndsTheWait /\ ReceiveReturns
=============================================================================
