--------------------------- MODULE UsbFifoProofs ---------------------------
(***************************************************************************)
(* Proofs about UsbFifo: its inductive invariant, and that it implements   *)
(* HothTransport, for any set of ids, any TxFIFO depth and any number of   *)
(* reads before it gives up.                                               *)
(***************************************************************************)
EXTENDS UsbFifo, TLAPS

-----------------------------------------------------------------------------
(* What the operators on transfers return.                                 *)

\* Submitting, finishing and cancelling a transfer keep its type, and leave
\* libusb owning it exactly as their names say.
LEMMA TransferOps ==
    ASSUME NEW t \in Transfer, NEW s \in Statuses, NEW b \in BOOLEAN
    PROVE  /\ Idle(s) \in Transfer /\ Idle(s).st = "idle"
           /\ Submitted(t) \in Transfer /\ Submitted(t).st = "pending"
           /\ Done(t, s) \in Transfer /\ Done(t, s).st = "done"
           /\ Cancelling(t, b) \in Transfer /\ Cancelling(t, b).st = t.st
  BY DEF Transfer, Statuses, Idle, Submitted, Done, Cancelling

\* Cancelling a transfer does not take it from libusb.
LEMMA CancelKeepsPlace ==
    ASSUME NEW t \in Transfer, NEW b \in BOOLEAN
    PROVE  Cancelling(t, b).st = t.st
  BY DEF Transfer, Cancelling

\* Errors are reported as results.
LEMMA ErrorsAreResults ==
    /\ \A s : ToError(s) \in Failures
    /\ ReadError \in Results
  BY DEF ToError, Failures, ReadError, Results

\* A call that returns leaves its result and its locals in their types.
LEMMA ReturnTypes ==
    ASSUME NEW r \in Results, Return(r)
    PROVE  /\ pc' = "idle" /\ result' \in Results
           /\ round' \in {"first", "after_stall", "again"}
           /\ i' \in 0 .. GiveUpAfter
           /\ timeout' \in {"timed", "forever"}
           /\ status' \in Failures
  BY FifoAssumption DEF Return, Failures

-----------------------------------------------------------------------------
(* The inductive invariant                                                 *)

\* Part of the invariant that says where each transfer is, without the set.
Places ==
    /\ pc \in {"idle", "submit_in", "check"} =>
          in_transfer.st = "idle" /\ out_transfer.st = "idle"
    /\ pc = "submit_out" =>
          /\ in_transfer.st # "idle" /\ out_transfer.st = "idle"
          /\ ~in_completed /\ out_completed /\ ~all_completed
    /\ pc \in {"events", "drain"} =>
          /\ in_completed <=> in_transfer.st = "idle"
          /\ out_completed <=> out_transfer.st = "idle"
          /\ ~all_completed
          /\ in_transfer.st # "idle" \/ out_transfer.st # "idle"

LEMMA PlacesIsInv ==
    Places <=> NothingInFlight /\ OutNotYetSubmitted /\ FlagsTrackTransfers
  BY DEF Places, NothingInFlight, OutNotYetSubmitted, FlagsTrackTransfers,
         InFlight

\* Every variable keeps its type.
LEMMA TypeStep == TypeOK /\ [Next]_vars => TypeOK'
<1> SUFFICES ASSUME TypeOK, [Next]_vars PROVE TypeOK'
  OBVIOUS
<1> USE FifoAssumption DEF TypeOK, vars, hostVars, flagVars, usbVars, rotVars,
                           callVars
<1>r. "timed" \in {"timed", "forever"} /\ "io" \in Failures /\ Failures \subseteq Results
  BY DEF Failures, Results
<1>1. CASE Client
  <2>1. CASE \E id \in Ids : SendRequest(id)
    BY <2>1 DEF SendRequest
  <2>2. CASE ReceiveNothingSent
    BY <2>2, <1>r DEF ReceiveNothingSent
  <2>3. CASE \E t \in Timeouts : ReceiveResponse(t)
    BY <2>3 DEF ReceiveResponse, Results
  <2>4. CASE CloseAndOpen \/ DieAndOpen
    <3>1. Opened
      BY <2>4 DEF CloseAndOpen, DieAndOpen
    <3>2. Idle("completed") \in Transfer
      BY DEF Idle, Transfer, Statuses
    <3>3. QED
      BY <3>1, <3>2, <1>r, ReturnTypes DEF Opened, Results
  <2>5. QED
    BY <1>1, <2>1, <2>2, <2>3, <2>4 DEF Client
<1>2. CASE SubmitIn \/ SubmitOut
  <2>1. Submitted(in_transfer) \in Transfer /\ Submitted(out_transfer) \in Transfer
    BY DEF Transfer, Submitted
  <2>2. CASE SubmitIn
    BY <2>1, <2>2 DEF SubmitIn
  <2>3. CASE SubmitOut
    BY <2>1, <2>3 DEF SubmitOut
  <2>4. QED
    BY <1>2, <2>2, <2>3
<1>3. CASE SubmitInFails
  BY <1>3, <1>r, ReturnTypes DEF SubmitInFails, TransferDone
<1>4. CASE SubmitOutFails \/ HandleEventsFails
  BY <1>4, TransferOps DEF SubmitOutFails, HandleEventsFails, CancelAndDrain,
                           Statuses, Failures
<1>5. CASE HandleEvents
  <2>1. /\ in_transfer' \in Transfer /\ out_transfer' \in Transfer
        /\ in_completed' \in BOOLEAN /\ out_completed' \in BOOLEAN
        /\ all_completed' \in BOOLEAN
    <3>1. in_transfer.status \in Statuses /\ out_transfer.status \in Statuses
      BY DEF Transfer
    <3>2. CASE InCallback
      BY <3>1, <3>2, TransferOps DEF InCallback
    <3>3. CASE OutCallback
      BY <3>1, <3>3, TransferOps DEF OutCallback
    <3>4. QED
      BY <1>5, <3>2, <3>3 DEF HandleEvents
  <2>2. /\ UNCHANGED <<out_id, delivered, in_buffer, rotVars>>
        /\ AfterCallback
        /\ pc \in {"events", "drain"}
    BY <1>5 DEF HandleEvents, InCallback, OutCallback
  <2>3. CASE ~all_completed'
    BY <2>1, <2>2, <2>3 DEF AfterCallback
  <2>4. CASE all_completed' /\ pc = "drain"
    BY <2>1, <2>2, <2>4, <1>r, ReturnTypes DEF AfterCallback, TransferDone
  <2>5. CASE all_completed' /\ pc # "drain"
    BY <2>1, <2>2, <2>5 DEF AfterCallback
  <2>6. QED
    BY <2>3, <2>4, <2>5
<1>6. CASE Check
  <2>1. CASE RetryAfterStall
    BY <2>1 DEF RetryAfterStall
  <2>2. CASE ClearHaltFails \/ ReceiveGivesUp
    BY <2>2, <1>r, ReturnTypes DEF ClearHaltFails, ReceiveGivesUp, TransferDone
  <2>3. CASE OutUnderflow
    BY <2>3, <1>r, ReturnTypes DEF OutUnderflow, Results
  <2>4. CASE ReceiveFails
    BY <2>4, ReturnTypes, ErrorsAreResults DEF ReceiveFails, TransferDone
  <2>5. CASE ReceiveSucceeds
    BY <2>5, ReturnTypes DEF ReceiveSucceeds, IsOwn, TransferDone, Results
  <2>6. CASE ReadAgain
    BY <2>6 DEF ReadAgain
  <2>7. QED
    BY <1>6, <2>1, <2>2, <2>3, <2>4, <2>5, <2>6 DEF Check
<1>7. CASE Kernel
  <2>1. ASSUME NEW s \in Statuses, OutReachesRot(s) \/ OutLost(s)
        PROVE  TypeOK'
    <3>1. Done(out_transfer, s) \in Transfer
      BY <2>1, TransferOps
    <3>2. CASE OutReachesRot(s)
      BY <3>1, <3>2 DEF OutReachesRot
    <3>3. CASE OutLost(s)
      BY <3>1, <3>3 DEF OutLost
    <3>4. QED
      BY <2>1, <3>2, <3>3
  <2>2. ASSUME NEW s \in Statuses, InFails(s)
        PROVE  TypeOK'
    BY <2>2, TransferOps DEF InFails
  <2>3. CASE InReads
    <3>1. /\ in_transfer' \in Transfer
      BY <2>3, TransferOps DEF InReads, Statuses
    <3>2. Head(tx) \in Response /\ Tail(tx) \in Seq(Response)
          /\ Len(Tail(tx)) <= MaxTx
      BY <2>3 DEF InReads
    <3>3. QED
      BY <2>3, <3>1, <3>2 DEF InReads
  <2>4. {"completed", "error", "partial", "stall", "timed_out", "cancelled"}
           \subseteq Statuses
    BY DEF Statuses
  <2>5. QED
    BY <1>7, <2>1, <2>2, <2>3, <2>4 DEF Kernel, OutExpires, InExpires
<1>8. CASE Rot
  <2>1. CASE RotResets
    BY <2>1 DEF RotResets
  <2>2. ASSUME NEW size \in Sizes, Respond(size)
        PROVE  TypeOK'
    <3>1. [id |-> executing, size |-> size] \in Response
      BY <2>2 DEF Respond, Response
    <3>2. tx' \in Seq(Response) /\ Len(tx') <= MaxTx
      BY <2>2, <3>1 DEF Respond
    <3>3. QED
      BY <2>2, <3>2 DEF Respond
  <2>3. QED
    BY <1>8, <2>1, <2>2 DEF Rot
<1>9. CASE UNCHANGED vars
  BY <1>9
<1>10. QED
  BY <1>1, <1>2, <1>3, <1>4, <1>5, <1>6, <1>7, <1>8, <1>9 DEF Next, Submit

\* The transfers stay where the flags say they are.
LEMMA PlacesStep ==
    ASSUME TypeOK, Places, [Next]_vars
    PROVE  Places'
<1> USE DEF TypeOK, Places, hostVars, flagVars, usbVars, rotVars, callVars
<1>1. CASE Client
  <2>1. CASE \E id \in Ids : SendRequest(id)
    BY <2>1 DEF SendRequest
  <2>2. CASE ReceiveNothingSent
    BY <2>2 DEF ReceiveNothingSent
  <2>3. CASE \E t \in Timeouts : ReceiveResponse(t)
    BY <2>3 DEF ReceiveResponse
  <2>4. CASE CloseAndOpen \/ DieAndOpen
    BY <2>4 DEF CloseAndOpen, DieAndOpen, Opened, Return, Idle
  <2>5. QED
    BY <1>1, <2>1, <2>2, <2>3, <2>4 DEF Client
<1>2. CASE SubmitIn
  <2>1. Submitted(in_transfer).st = "pending"
    BY DEF Transfer, Submitted
  <2>2. QED
    BY <1>2, <2>1 DEF SubmitIn
<1>3. CASE SubmitOut
  <2>1. Submitted(out_transfer).st = "pending"
    BY DEF Transfer, Submitted
  <2>2. QED
    BY <1>3, <2>1 DEF SubmitOut
<1>4. CASE SubmitInFails
  BY <1>4 DEF SubmitInFails, TransferDone, Return
<1>5. CASE SubmitOutFails \/ HandleEventsFails
  <2>1. /\ in_transfer'.st = in_transfer.st
        /\ out_transfer'.st = out_transfer.st
        /\ UNCHANGED flagVars
        /\ pc' = "drain"
    <3>1. CancelAndDrain("io")
      BY <1>5 DEF SubmitOutFails, HandleEventsFails
    <3>2. /\ Cancelling(in_transfer, in_completed).st = in_transfer.st
          /\ Cancelling(out_transfer, out_completed).st = out_transfer.st
      BY CancelKeepsPlace
    <3>3. QED
      BY <3>1, <3>2 DEF CancelAndDrain
  <2>2. pc \in {"submit_out", "events"}
    BY <1>5 DEF SubmitOutFails, HandleEventsFails
  <2>3. QED
    BY <2>1, <2>2
<1>6. CASE InCallback
  <2>1. /\ in_transfer'.st = "idle" /\ in_completed'
        /\ out_completed' = out_completed
        /\ pc \in {"events", "drain"}
    BY <1>6 DEF InCallback, Idle
  <2>2. out_transfer'.st = out_transfer.st
    BY <1>6, CancelKeepsPlace DEF InCallback
  <2>3. all_completed' <=> out_completed
    BY <1>6 DEF InCallback
  <2>4. CASE out_completed
    <3>1. pc' \in {"idle", "check"}
      BY <1>6, <2>1, <2>3, <2>4 DEF InCallback, AfterCallback, TransferDone,
                                    Return
    <3>2. QED
      BY <2>1, <2>2, <2>4, <3>1
  <2>5. CASE ~out_completed
    <3>1. pc' = pc
      BY <1>6, <2>3, <2>5 DEF InCallback, AfterCallback
    <3>2. QED
      BY <2>1, <2>2, <2>3, <2>5, <3>1
  <2>6. QED
    BY <2>4, <2>5
<1>7. CASE OutCallback
  <2>1. /\ out_transfer'.st = "idle" /\ out_completed'
        /\ in_completed' = in_completed
        /\ pc \in {"events", "drain"}
    BY <1>7 DEF OutCallback, Idle
  <2>2. in_transfer'.st = in_transfer.st
    BY <1>7, CancelKeepsPlace DEF OutCallback
  <2>3. all_completed' <=> in_completed
    BY <1>7 DEF OutCallback
  <2>4. CASE in_completed
    <3>1. pc' \in {"idle", "check"}
      BY <1>7, <2>1, <2>3, <2>4 DEF OutCallback, AfterCallback, TransferDone,
                                    Return
    <3>2. QED
      BY <2>1, <2>2, <2>4, <3>1
  <2>5. CASE ~in_completed
    <3>1. pc' = pc
      BY <1>7, <2>3, <2>5 DEF OutCallback, AfterCallback
    <3>2. QED
      BY <2>1, <2>2, <2>3, <2>5, <3>1
  <2>6. QED
    BY <2>4, <2>5
<1>8. CASE Check
  <2>1. /\ pc = "check" /\ pc' \in {"idle", "submit_in"}
        /\ UNCHANGED <<in_transfer, out_transfer>>
    BY <1>8 DEF Check, RetryAfterStall, ClearHaltFails, OutUnderflow,
         ReceiveFails, ReceiveSucceeds, ReceiveGivesUp, ReadAgain, Readable,
         TransferDone, Return
  <2>2. QED
    BY <2>1
<1>9. CASE Kernel
  <2>1. /\ UNCHANGED <<pc, in_completed, out_completed, all_completed>>
        /\ \/ in_transfer' = in_transfer
           \/ in_transfer.st = "pending" /\ in_transfer'.st = "done"
        /\ \/ out_transfer' = out_transfer
           \/ out_transfer.st = "pending" /\ out_transfer'.st = "done"
    <3>1. \A s : Done(in_transfer, s).st = "done" /\ Done(out_transfer, s).st = "done"
      BY DEF Transfer, Done
    <3>2. QED
      BY <1>9, <3>1 DEF Kernel, OutReachesRot, OutLost, InReads, InFails,
                        OutExpires, InExpires
  <2>2. QED
    BY <2>1
<1>10. CASE Rot \/ UNCHANGED vars
  <2>1. UNCHANGED <<pc, in_completed, out_completed, all_completed,
                    in_transfer, out_transfer>>
    BY <1>10 DEF Rot, RotResets, Respond, vars
  <2>2. QED
    BY <2>1
<1>11. QED
  BY <1>1, <1>2, <1>3, <1>4, <1>5, <1>6, <1>7, <1>8, <1>9, <1>10
     DEF Next, Submit, HandleEvents

\* A call in progress keeps its request until it returns.
LEMMA RequestStep ==
    ASSUME TypeOK, CallHasRequest, [Next]_vars
    PROVE  CallHasRequest'
<1> USE FifoAssumption DEF CallHasRequest, hostVars, callVars
<1>1. CASE Client
  BY <1>1 DEF Client, SendRequest, ReceiveNothingSent, ReceiveResponse,
              CloseAndOpen, DieAndOpen, Opened, Return
<1>2. CASE Submit \/ HandleEventsFails
  BY <1>2 DEF Submit, SubmitIn, SubmitInFails, SubmitOut, SubmitOutFails,
              HandleEventsFails, CancelAndDrain, TransferDone, Return
<1>3. CASE HandleEvents
  <2>1. out_id' = out_id /\ AfterCallback /\ pc \in {"events", "drain"}
    BY <1>3 DEF HandleEvents, InCallback, OutCallback
  <2>2. QED
    BY <2>1 DEF AfterCallback, TransferDone, Return
<1>4. CASE Check
  BY <1>4 DEF Check, RetryAfterStall, ClearHaltFails, OutUnderflow,
       ReceiveFails, ReceiveSucceeds, ReceiveGivesUp, ReadAgain, Readable,
       TransferDone, Return
<1>5. CASE Kernel \/ Rot \/ UNCHANGED vars
  <2>1. UNCHANGED <<pc, out_length, out_id>>
    BY <1>5 DEF Kernel, OutReachesRot, OutLost, InReads, InFails, OutExpires,
                InExpires, Rot, RotResets, Respond, vars
  <2>2. QED
    BY <2>1
<1>6. QED
  BY <1>1, <1>2, <1>3, <1>4, <1>5 DEF Next

\* The invariant holds in every reachable state.
THEOREM Invariance == Spec => []IInv
<1>1. Init => IInv
  <2> SUFFICES ASSUME Init PROVE IInv
    OBVIOUS
  <2>1. in_transfer \in Transfer /\ out_transfer \in Transfer
    BY DEF Init, Idle, Transfer, Statuses
  <2>2. tx \in Seq(Response) /\ Len(tx) <= MaxTx
    BY FifoAssumption DEF Init
  <2>3. TypeOK
    <3>1. i \in 0 .. GiveUpAfter /\ status \in Failures /\ result \in Results
      BY FifoAssumption DEF Init, Failures, Results
    <3>2. QED
      BY <2>1, <2>2, <3>1 DEF Init, TypeOK
  <2>4. Places
    BY DEF Init, Places, Idle
  <2>5. CallHasRequest
    BY DEF Init, CallHasRequest
  <2>6. QED
    BY <2>3, <2>4, <2>5, PlacesIsInv DEF IInv
<1>2. IInv /\ [Next]_vars => IInv'
  <2> SUFFICES ASSUME IInv, [Next]_vars PROVE IInv'
    OBVIOUS
  <2>1. TypeOK /\ Places /\ CallHasRequest
    BY PlacesIsInv DEF IInv
  <2>2. TypeOK'
    BY <2>1, TypeStep
  <2>3. Places'
    BY <2>1, PlacesStep
  <2>4. CallHasRequest'
    BY <2>1, RequestStep
  <2>5. (NothingInFlight /\ OutNotYetSubmitted /\ FlagsTrackTransfers)'
    BY <2>3 DEF Places, NothingInFlight, OutNotYetSubmitted,
                FlagsTrackTransfers, InFlight
  <2>6. QED
    BY <2>2, <2>4, <2>5 DEF IInv
<1>3. QED
  BY <1>1, <1>2, PTL DEF Spec

\* Every variable stays in its type.
THEOREM TypeCorrect == Spec => []TypeOK
  BY Invariance, PTL DEF IInv

\* libusb owns no transfer when receive_response() has returned, whatever
\* failed, was cancelled or timed out on the way.
THEOREM NoTransferLeft == Spec => []NothingInFlight
  BY Invariance, PTL DEF IInv

\* The event loop waits for a callback only while a transfer is out.
THEOREM FlagsExact == Spec => []FlagsTrackTransfers
  BY Invariance, PTL DEF IInv

-----------------------------------------------------------------------------
(* Refinement                                                              *)

\* The initial state maps to the abstract one, and every step to a step of
\* the abstract transport or to a stutter: only ReceiveSucceeds delivers.
THEOREM Refinement == Spec => ImplementsTransport
<1>1. Init => Transport!Init
  BY DEF Init, Transport!Init
<1>2. IInv /\ [Next]_vars => [Transport!Next]_(Transport!vars)
  <2> SUFFICES ASSUME IInv, [Next]_vars
               PROVE  [Transport!Next]_(Transport!vars)
    OBVIOUS
  <2> USE DEF IInv, TypeOK, CallHasRequest, hostVars, callVars
  <2> USE DEF Transport!Next, Transport!vars, Transport!Send,
              Transport!ReceiveOk, Transport!Drop
  <2>1. CASE out_length' = out_length /\ out_id' = out_id
             /\ delivered' = delivered
    BY <2>1
  <2>2. CASE ~out_length' /\ delivered' = delivered
    BY <2>2
  <2>3. CASE \E id \in Ids : SendRequest(id)
    BY <2>3 DEF SendRequest
  <2>4. CASE ReceiveSucceeds
    <3>1. out_length /\ out_id # None /\ delivered' = out_id /\ ~out_length'
      BY <2>4 DEF ReceiveSucceeds, Readable, IsOwn, TransferDone
    <3>2. QED
      BY <3>1
  <2>5. \/ out_length' = out_length /\ out_id' = out_id
              /\ delivered' = delivered
        \/ ~out_length' /\ delivered' = delivered
        \/ \E id \in Ids : SendRequest(id)
        \/ ReceiveSucceeds
    <3>1. CASE Client
      BY <3>1 DEF Client, ReceiveNothingSent, ReceiveResponse, CloseAndOpen,
                  DieAndOpen, Opened
    <3>2. CASE Submit \/ HandleEventsFails
      BY <3>2 DEF Submit, SubmitIn, SubmitInFails, SubmitOut, SubmitOutFails,
                  HandleEventsFails, CancelAndDrain, TransferDone
    <3>3. CASE HandleEvents
      BY <3>3 DEF HandleEvents, InCallback, OutCallback, AfterCallback,
                  TransferDone
    <3>4. CASE Check
      BY <3>4 DEF Check, RetryAfterStall, ClearHaltFails, OutUnderflow,
                  ReceiveFails, ReceiveGivesUp, ReadAgain, TransferDone
    <3>5. CASE Kernel
      BY <3>5 DEF Kernel, OutReachesRot, OutLost, InReads, InFails,
                  OutExpires, InExpires
    <3>6. CASE Rot \/ UNCHANGED vars
      BY <3>6 DEF Rot, RotResets, Respond, vars
    <3>7. QED
      BY <3>1, <3>2, <3>3, <3>4, <3>5, <3>6 DEF Next
  <2>6. QED
    BY <2>1, <2>2, <2>3, <2>4, <2>5
<1>3. QED
  BY <1>1, <1>2, Invariance, PTL DEF Spec, ImplementsTransport, Transport!Spec
=============================================================================
