------------------------------ MODULE HostCmd ------------------------------
(***************************************************************************)
(* One host command at a time: libhoth_hostcmd_exec_v2() of                *)
(* protocol/host_cmd.c builds the EC request, exchanges it through the     *)
(* transport, validates the EC response and copies its payload out;        *)
(* libhoth_hostcmd_exec() turns the rich error into the legacy int.  The   *)
(* link between the RoT and the client may damage one byte of a response   *)
(* or cut it short.  Bytes are numbers modulo Base (256 in the code); each *)
(* header field is one byte.                                               *)
(***************************************************************************)
EXTENDS Integers, Sequences

CONSTANTS
    Base,            \* 2^8: the checksum is computed modulo this
    Version,         \* HOTH_HOST_RESPONSE_VERSION, HOTH_HOST_REQUEST_VERSION
    Commands,        \* command numbers
    MaxPayload,      \* sizeof(payload_buf)
    ErrorSize,       \* sizeof(error_code), 4
    HostCommandStart \* HTOOL_ERROR_HOST_COMMAND_START

HostCmdAssumption ==
    /\ Base \in Nat \ {0, 1}
    /\ Version \in 0 .. Base - 1
    /\ Commands \subseteq 0 .. Base - 1
    /\ MaxPayload \in 0 .. Base - 1
    /\ ErrorSize \in Nat \ {0}
    /\ HostCommandStart \in Nat \ {0}

Byte == 0 .. Base - 1
Payload == UNION {[1 .. n -> Byte] : n \in 0 .. MaxPayload}

VARIABLES
    pc,         \* where the call is
    call,       \* the arguments of the current call
    wire,       \* the request on the link
    answer,     \* the response as the RoT built it
    frame,      \* the response as received
    err,        \* what libhoth_hostcmd_exec_v2() returned
    legacy,     \* what libhoth_hostcmd_exec() returned
    resp_buf    \* what was copied to the caller

vars == <<pc, call, wire, answer, frame, err, legacy, resp_buf>>

\* A libhoth_error: HOTH_SUCCESS, or a code in one of the error spaces.
Success == [space |-> "success", code |-> 0]
Error(space, code) == [space |-> space, code |-> code]
LibhothError(what) == Error("LIBHOTH", what)

\* A call gives the size of its payload, the size of the caller's buffer, and
\* whether it passes out_resp_size (a smaller response is then welcome).
Calls == [command : Commands, size : 0 .. MaxPayload + 1,
          buf_size : 0 .. MaxPayload, sized : BOOLEAN]

Init ==
    /\ pc = "idle"
    /\ call \in Calls
    /\ wire = <<>> /\ answer = <<>> /\ frame = <<>>
    /\ err = Success /\ legacy = 0 /\ resp_buf = <<>>

-----------------------------------------------------------------------------
(* Frames: struct_version, checksum, result or command, data_len, payload  *)

FrameHeaderSize == 4

\* The loop of libhoth_calculate_checksum(): its sum, a byte, after n of the bytes.
PartialSums(bytes) ==
    LET sum[n \in 0 .. Len(bytes)] ==
          IF n = 0 THEN 0 ELSE (sum[n - 1] + bytes[n]) % Base
    IN  sum

ByteSum(bytes) == PartialSums(bytes)[Len(bytes)]

\* libhoth_calculate_checksum(): 0x100 minus the sum, as a byte.
CalculateChecksum(bytes) == (Base - ByteSum(bytes)) % Base

\* populate_ec_request_header(), and what the RoT does to build a response:
\* the checksum is taken over the frame with a zero in its place.
BuildFrame(third, payload) ==
    LET blank == <<Version, 0, third, Len(payload)>> \o payload
    IN  [blank EXCEPT ![2] = CalculateChecksum(blank)]

PayloadOf(f) == SubSeq(f, FrameHeaderSize + 1, Len(f))
ResultOf(f) == f[3]

\* Mutant: the checksum is not verified.
ValidResponseUnsummed(f) ==
    /\ Len(f) >= FrameHeaderSize
    /\ f[1] = Version
    /\ f[4] = Len(f) - FrameHeaderSize

\* validate_ec_response_header()
ValidResponse(f) ==
    /\ Len(f) >= FrameHeaderSize
    /\ f[1] = Version
    /\ f[4] = Len(f) - FrameHeaderSize
    /\ CalculateChecksum(f) = 0

-----------------------------------------------------------------------------
(* libhoth_hostcmd_exec_v2() and libhoth_hostcmd_exec()                    *)

\* The legacy result of the wrapper.
ToLegacy(e) ==
    CASE e = Success -> 0
      [] e.space = "EC" -> HostCommandStart + e.code
      [] e.space = "PIEROT_ERR" -> e.code
      [] OTHER -> -1

Return(e) ==
    /\ pc' = "returned"
    /\ err' = e
    /\ legacy' = ToLegacy(e)

\* The payload must fit the buffer of the request structure.
RequestTooLarge ==
    /\ pc = "idle"
    /\ call.size > MaxPayload
    /\ Return(LibhothError("OUT_UNDERFLOW"))
    /\ UNCHANGED <<call, wire, answer, frame, resp_buf>>

SendRequest ==
    /\ pc = "idle"
    /\ call.size <= MaxPayload
    /\ wire' = BuildFrame(call.command, [n \in 1 .. call.size |-> 0])
    /\ pc' = "sent"
    /\ UNCHANGED <<call, answer, frame, err, legacy, resp_buf>>

\* libhoth_send_request() or libhoth_receive_response() fails: the transport's
\* error is handed on as it is.
TransportFails ==
    /\ \/ pc = "idle" /\ call.size <= MaxPayload
       \/ pc \in {"sent", "answered"}
    /\ Return(LibhothError("TIMEOUT"))
    /\ UNCHANGED <<call, wire, answer, frame, resp_buf>>

\* The RoT's side of the exchange.
RotAnswers(result, payload) ==
    /\ pc = "sent"
    /\ answer' = BuildFrame(result, payload)
    /\ pc' = "answered"
    /\ UNCHANGED <<call, wire, frame, err, legacy, resp_buf>>

ReceiveResponse(f) ==
    /\ pc = "answered"
    /\ frame' = f
    /\ pc' = "received"
    /\ UNCHANGED <<call, wire, answer, err, legacy, resp_buf>>

\* The link leaves the response intact, changes a byte, or cuts it short.
Damaged(f) ==
    {f} \union {[f EXCEPT ![n] = b] : n \in DOMAIN f, b \in Byte}
        \union {SubSeq(f, 1, n) : n \in 0 .. Len(f)}

\* What a received response amounts to: the checks after the receive, in
\* their order.
Outcome(f) ==
    LET size == Len(f) - FrameHeaderSize
        payload == PayloadOf(f)
    IN  CASE ~ValidResponse(f) -> LibhothError("INVALID_PARAMETER")
          [] ResultOf(f) # 0 /\ size >= ErrorSize ->
                Error("PIEROT_ERR", payload[1])
          [] ResultOf(f) # 0 /\ size < ErrorSize -> Error("EC", ResultOf(f))
          [] ResultOf(f) = 0 /\ call.sized /\ size > call.buf_size ->
                LibhothError("RESPONSE_BUFFER_OVERFLOW")
          [] ResultOf(f) = 0 /\ ~call.sized /\ size # call.buf_size ->
                LibhothError("FAIL")
          [] OTHER -> Success

Finish ==
    /\ pc = "received"
    /\ Return(Outcome(frame))
    /\ resp_buf' = IF Outcome(frame) = Success THEN PayloadOf(frame)
                                               ELSE resp_buf
    /\ UNCHANGED <<call, wire, answer, frame>>

\* The next call; the caller's buffer is new.
NextCall(c) ==
    /\ pc = "returned"
    /\ pc' = "idle"
    /\ call' = c
    /\ wire' = <<>> /\ answer' = <<>> /\ frame' = <<>>
    /\ err' = Success /\ legacy' = 0 /\ resp_buf' = <<>>

Next ==
    \/ RequestTooLarge
    \/ SendRequest
    \/ TransportFails
    \/ \E result \in Byte, payload \in Payload : RotAnswers(result, payload)
    \/ \E f \in Damaged(answer) : ReceiveResponse(f)
    \/ Finish
    \/ \E c \in Calls : NextCall(c)

Spec == Init /\ [][Next]_vars

-----------------------------------------------------------------------------
(* Properties                                                              *)

\* Requests go out with all bytes, the checksum's included, adding up to zero,
\* as struct hoth_host_request documents.
RequestChecksumIsZero ==
    wire # <<>> => ByteSum(wire) = 0 /\ wire[4] = Len(wire) - FrameHeaderSize

\* A response of which one byte was damaged or whose end was cut off never
\* passes validate_ec_response_header(): success is returned only for exactly
\* the frame the RoT built, and only when the RoT reported success.
DamageIsDetected ==
    pc = "returned" /\ err = Success =>
        frame = answer /\ ResultOf(answer) = 0

\* What the RoT put in the response is what the caller finds in a buffer that
\* is large enough for it, and nothing is written unless the call succeeds.
CallerGetsPayload ==
    /\ Len(resp_buf) <= call.buf_size
    /\ pc = "returned" =>
          resp_buf = IF err = Success THEN PayloadOf(answer) ELSE <<>>

\* A host command is sound in both directions: what goes out adds up, and a
\* caller that is told of success has the payload of the intact answer.
ExchangeIsSound == RequestChecksumIsZero /\ DamageIsDetected /\ CallerGetsPayload
=============================================================================
