-------------------------- MODULE MailboxTransport --------------------------
(***************************************************************************)
(* The transports that reach the RoT through a mailbox: a memory into      *)
(* which the request is written and from which the response is read.       *)
(* libhoth_usb_mailbox.c reads and writes it by messages over two bulk     *)
(* endpoints, libhoth_spi.c by flash commands (in steps, or in a single    *)
(* ioctl() for the atomic variant), libhoth_mtd.c through the kernel's     *)
(* flash driver.  Nothing in the mailbox says which request a response     *)
(* belongs to.  The client sends and receives as libhoth_hostcmd_exec_v2() *)
(* does, may die anywhere, and the next one finds what it left behind.     *)
(***************************************************************************)
EXTENDS Integers, Sequences

CONSTANTS
    MaxCalls,       \* bound: host commands, numbered for the model only
    RequestSizes,   \* sizes, in cells of the mailbox
    HeaderSize,     \* sizeof(struct hoth_host_response)
    MaxData,        \* bound: largest data_len of a response
    ResponseSize,   \* the caller's buffer
    WriteMax,       \* a page program, or a USB packet's share of a request
    ReadMax,        \* a USB packet's share of a response
    AnswerHeader    \* sizeof(struct mailbox_response)

VARIABLES
    transport,      \* "usb", "spi", "spi_atomic" or "mtd"
    pc,             \* where the client is
    request,        \* [id, size] of the host command
    clean,          \* the RoT was quiet when it began, and was not reset since
    offset,         \* cells written, or read
    expected,       \* where this read ends
    response,       \* the caller's buffer
    result, actual_size,
    buffered,       \* spi_dev->buffered_request
    mailbox,        \* what each cell holds
    executing,      \* the request the RoT works on, or None
    out,            \* the USB message the RoT has not handled
    answers         \* the answers in the USB IN endpoint

resultVars == <<pc, result, actual_size>>
readVars == <<offset, expected, response>>
callVars == <<transport, request, clean>>
usbVars == <<out, answers>>
rotVars == <<mailbox, executing>>
vars == <<resultVars, readVars, callVars, buffered, usbVars, rotVars>>

None == 0
Positions == 0 .. HeaderSize + MaxData - 1
Buffer == 0 .. ResponseSize - 1
NoRequest == [id |-> None, size |-> 0]
NoMessage == [type |-> "none", req |-> NoRequest, at |-> 0, n |-> 0]
MinOf(a, b) == IF a <= b THEN a ELSE b

ASSUME MailboxAssumption ==
    /\ \A n \in {MaxCalls, HeaderSize, WriteMax, ReadMax, ResponseSize,
                AnswerHeader} : n \in Nat \ {0}
    /\ MaxData \in Nat
    /\ RequestSizes \subseteq 1 .. HeaderSize + MaxData
    /\ HeaderSize \in 1 .. MinOf(ReadMax, ResponseSize)
    /\ Buffer \subseteq Positions

\* A cell belongs to a request or a response; len is the length its header
\* gives.  Junk is memory nobody wrote.
Cell(kind, id, at, len) == [kind |-> kind, id |-> id, at |-> at, len |-> len]
Junk == Cell("junk", None, 0, 0)
RequestCell(req, k) == Cell("request", req.id, k, req.size)
ResponseCell(id, len, k) == Cell("response", id, k, len)

Init ==
    /\ transport \in {"usb", "spi", "spi_atomic", "mtd"}
    /\ pc = "idle" /\ result = "none" /\ actual_size = 0
    /\ request = NoRequest /\ clean = TRUE
    /\ offset = 0 /\ expected = 0 /\ response = [k \in Buffer |-> Junk]
    /\ buffered = NoRequest
    /\ mailbox = [k \in Positions |-> Junk] /\ executing = None
    /\ out = NoMessage /\ answers = <<>>

-----------------------------------------------------------------------------
(* The RoT                                                                 *)

\* A busy RoT takes no data.  It starts when the request is whole.
Write(req, at, n) ==
    LET new == [k \in Positions |-> IF k \in at .. at + n - 1
                                    THEN RequestCell(req, k) ELSE mailbox[k]]
        whole == \A k \in 0 .. req.size - 1 : new[k] = RequestCell(req, k)
    IN  IF executing # None
        THEN UNCHANGED rotVars
        ELSE mailbox' = new /\ executing' = IF whole THEN req.id ELSE None

Respond(len) ==
    /\ executing # None
    /\ mailbox' = [k \in Positions |->
                      IF k < HeaderSize + len
                      THEN ResponseCell(executing, len, k) ELSE mailbox[k]]
    /\ executing' = None
    /\ UNCHANGED <<resultVars, readVars, callVars, buffered, usbVars>>

RotResets ==
    /\ mailbox' = [k \in Positions |-> Junk]
    /\ executing' = None
    /\ out' = NoMessage /\ answers' = <<>>
    /\ clean' = FALSE
    /\ UNCHANGED <<resultVars, readVars, transport, request, buffered>>

\* MAILBOX_REQ_WRITE is answered at once, MAILBOX_REQ_READ when the response
\* is there.
RotHandlesWrite ==
    /\ out.type = "write"
    /\ Write(out.req, out.at, out.n)
    /\ answers' = Append(answers, [ok |-> executing = None, cells |-> <<>>])
    /\ out' = NoMessage
    /\ UNCHANGED <<resultVars, readVars, callVars, buffered>>

RotHandlesRead ==
    /\ out.type = "read"
    /\ executing = None
    /\ answers' = Append(answers,
                         [ok |-> TRUE,
                          cells |-> [k \in 1 .. out.n |->
                                        mailbox[out.at + k - 1]]])
    /\ out' = NoMessage
    /\ UNCHANGED <<resultVars, readVars, callVars, buffered, rotVars>>

-----------------------------------------------------------------------------
(* The client                                                              *)

End(how, size) == pc' = "idle" /\ result' = how /\ actual_size' = size
Goto(where) == pc' = where /\ UNCHANGED <<result, actual_size>>

\* What the caller's buffer becomes, and what its header says data_len is.
\* Bytes that are not a response's header say anything.
Filled(cells, n) ==
    [k \in Buffer |-> IF k \notin offset .. offset + n - 1 THEN response[k]
                      ELSE IF k - offset + 1 \in DOMAIN cells
                           THEN cells[k - offset + 1] ELSE Junk]
IsHeader(buf) ==
    \A k \in 0 .. HeaderSize - 1 :
        buf[k].kind = "response" /\ buf[k] = [buf[0] EXCEPT !.at = k]
LensSeen(buf) == IF IsHeader(buf) THEN {buf[0].len} ELSE 0 .. MaxData

StartReceive ==
    /\ Goto(IF transport = "usb" THEN "read" ELSE "read_header")
    /\ offset' = 0
    /\ expected' = IF transport = "usb" THEN ResponseSize ELSE HeaderSize
    /\ UNCHANGED response

\* dev->send of the next host command.
SendRequest(size) ==
    /\ pc = "idle"
    /\ request.id < MaxCalls
    /\ request' = [id |-> request.id + 1, size |-> size]
    /\ clean' = (executing = None /\ usbVars = <<NoMessage, <<>>>>)
    /\ response' = [k \in Buffer |-> Junk] /\ offset' = 0 /\ expected' = size
    /\ pc' = "write" /\ result' = "none" /\ actual_size' = 0
    /\ UNCHANGED <<transport, buffered, usbVars, rotVars>>

Die ==
    /\ pc # "idle" \/ buffered # NoRequest
    /\ End("died", 0)
    /\ buffered' = NoRequest
    /\ UNCHANGED <<readVars, callVars, usbVars, rotVars>>

\* An ioctl(), a read() or a write() fails: the RoT may have the data or not.
SystemCallFails ==
    /\ transport \in {"spi", "mtd"}
    /\ pc \in {"write", "busy_wait", "read_header", "read_data"}
    /\ \/ UNCHANGED rotVars
       \/ /\ pc = "write" /\ transport = "spi"
          /\ Write(request, offset, MinOf(WriteMax, request.size - offset))
    /\ End("error", IF pc = "read_data" THEN HeaderSize ELSE 0)
    /\ UNCHANGED <<readVars, callVars, buffered, usbVars>>

-----------------------------------------------------------------------------
(* libhoth_spi.c                                                           *)

PageProgram ==
    /\ transport = "spi" /\ pc = "write"
    /\ LET n == MinOf(WriteMax, request.size - offset)
       IN  Write(request, offset, n) /\ offset' = offset + n
    /\ Goto("busy_wait")
    /\ UNCHANGED <<expected, response, callVars, buffered, usbVars>>

\* Mutant: the page program is taken to be handled when it is sent.
BusyWaitSkipped ==
    /\ pc = "busy_wait"
    /\ IF offset < request.size
       THEN Goto("write") /\ UNCHANGED readVars
       ELSE StartReceive
    /\ UNCHANGED <<callVars, buffered, usbVars, rotVars>>

\* spi_nor_busy_wait() reads the status register until the RoT is not busy;
\* the kernel's flash driver does the same for MTD.
BusyWaitOver ==
    /\ pc = "busy_wait"
    /\ executing = None
    /\ IF offset < request.size
       THEN Goto("write") /\ UNCHANGED readVars
       ELSE StartReceive
    /\ UNCHANGED <<callVars, buffered, usbVars, rotVars>>

BufferRequest ==
    /\ transport = "spi_atomic" /\ pc = "write"
    /\ IF buffered # NoRequest
       THEN End("busy", 0) /\ UNCHANGED buffered
       ELSE \/ Goto("exchange") /\ buffered' = request
            \/ End("error", 0) /\ UNCHANGED buffered
    /\ UNCHANGED <<readVars, callVars, usbVars, rotVars>>

\* One ioctl() writes the request, waits in the driver and reads the mailbox.
Exchange ==
    /\ pc = "exchange"
    /\ Write(buffered, 0, buffered.size)
    /\ Goto("exchanged")
    /\ UNCHANGED <<readVars, callVars, buffered, usbVars>>

ExchangeDone ==
    /\ pc = "exchanged"
    /\ executing = None
    /\ response' = [k \in Buffer |-> mailbox[k]]
    /\ \E len \in LensSeen(response') :
           IF len > ResponseSize - HeaderSize
           THEN End("overflow", 0)
           ELSE End("ok", len + HeaderSize)
    /\ buffered' = NoRequest
    /\ UNCHANGED <<offset, expected, callVars, usbVars, rotVars>>

\* Mutant: the error path leaves the buffered request.
ExchangeFailsKeeps ==
    /\ pc \in {"exchange", "exchanged"}
    /\ End("error", 0)
    /\ UNCHANGED <<readVars, callVars, buffered, usbVars, rotVars>>

ExchangeFails ==
    /\ pc \in {"exchange", "exchanged"}
    /\ End("error", 0)
    /\ buffered' = NoRequest
    /\ UNCHANGED <<readVars, callVars, usbVars, rotVars>>

-----------------------------------------------------------------------------
(* libhoth_mtd.c                                                           *)

\* write() returns when the flash driver has seen the RoT ready; one that
\* stores part of the request is an error.
WriteMtd(n) ==
    /\ transport = "mtd" /\ pc = "write"
    /\ n \in 1 .. request.size
    /\ Write(request, 0, n)
    /\ IF n = request.size
       THEN Goto("busy_wait") /\ offset' = n
       ELSE End("error", 0) /\ UNCHANGED offset
    /\ UNCHANGED <<expected, response, callVars, buffered, usbVars>>

-----------------------------------------------------------------------------
(* The reads of libhoth_spi.c and libhoth_mtd.c: the header, then the data *)
(* it announces.  A read() of the MTD device may return less.              *)

ReadPiece(n) ==
    /\ pc \in {"read_header", "read_data"}
    /\ n \in 1 .. expected - offset
    /\ transport = "spi" => n = expected - offset
    /\ response' = Filled([k \in 1 .. n |-> mailbox[offset + k - 1]], n)
    /\ offset' = offset + n
    /\ IF offset' < expected
       THEN UNCHANGED <<resultVars, expected>>
       ELSE IF pc = "read_data"
       THEN End("ok", expected) /\ UNCHANGED expected
       ELSE \E len \in LensSeen(response') :
                IF ResponseSize < HeaderSize + len
                THEN End("overflow", HeaderSize) /\ UNCHANGED expected
                ELSE IF len = 0
                THEN End("ok", HeaderSize) /\ UNCHANGED expected
                ELSE Goto("read_data") /\ expected' = HeaderSize + len
    /\ UNCHANGED <<callVars, buffered, usbVars, rotVars>>

-----------------------------------------------------------------------------
(* libhoth_usb_mailbox.c: a message to the OUT endpoint, an answer from IN *)

Message(type, n) == [type |-> type, req |-> request, at |-> offset, n |-> n]

OutWrite ==
    /\ transport = "usb" /\ pc = "write"
    /\ out = NoMessage
    /\ out' = Message("write", MinOf(WriteMax, request.size - offset))
    /\ Goto("ack")
    /\ UNCHANGED <<readVars, callVars, buffered, answers, rotVars>>

\* A longer answer than the caller has room for is an overflow of the transfer.
InAck ==
    /\ pc = "ack"
    /\ answers # <<>>
    /\ answers' = Tail(answers)
    /\ LET sent == offset + MinOf(WriteMax, request.size - offset)
           answer == Head(answers)
       IN  IF ~answer.ok \/ answer.cells # <<>>
           THEN End("error", 0) /\ UNCHANGED readVars
           ELSE IF sent < request.size
           THEN Goto("write") /\ offset' = sent /\ UNCHANGED <<expected, response>>
           ELSE StartReceive
    /\ UNCHANGED <<callVars, buffered, out, rotVars>>

OutRead ==
    /\ pc = "read"
    /\ out = NoMessage
    /\ out' = Message("read", MinOf(ReadMax, ResponseSize - offset))
    /\ Goto("data")
    /\ UNCHANGED <<readVars, callVars, buffered, answers, rotVars>>

\* memcpy() takes the cells asked for, whether or not they came.
InData ==
    /\ pc = "data"
    /\ answers # <<>>
    /\ answers' = Tail(answers)
    /\ LET n == MinOf(ReadMax, ResponseSize - offset)
           got == Head(answers).cells
           short == Len(got) + AnswerHeader < ReadMax
       IN  \/ /\ ~Head(answers).ok \/ Len(got) > n
              /\ End("error", 0) /\ UNCHANGED readVars
           \/ /\ Head(answers).ok /\ Len(got) <= n
              /\ response' = Filled(got, n)
              /\ offset' = offset + n
              /\ \/ /\ offset = 0 /\ n >= HeaderSize
                    /\ ~IsHeader(response')
                    /\ End("unsupported", 0) /\ UNCHANGED expected
                 \/ /\ \/ /\ offset = 0 /\ n >= HeaderSize
                          /\ \E len \in LensSeen(response') :
                                expected' = MinOf(expected, HeaderSize + len)
                       \/ /\ offset > 0 \/ n < HeaderSize
                          /\ UNCHANGED expected
                    /\ IF offset' >= expected' \/ short
                       THEN End("ok", expected')
                       ELSE Goto("read")
    /\ UNCHANGED <<callVars, buffered, out, rotVars>>

\* A transfer fails or times out; the message may have been sent, the answer
\* may have been lost.
TransferFails ==
    /\ transport = "usb" /\ pc \in {"write", "ack", "read", "data"}
    /\ \/ UNCHANGED usbVars
       \/ /\ pc \in {"write", "read"} /\ out = NoMessage
          /\ out' = IF pc = "write"
                    THEN Message("write", MinOf(WriteMax, request.size - offset))
                    ELSE Message("read", MinOf(ReadMax, ResponseSize - offset))
          /\ UNCHANGED answers
       \/ /\ pc \in {"ack", "data"} /\ answers # <<>>
          /\ answers' = Tail(answers) /\ UNCHANGED out
    /\ End("error", 0)
    /\ UNCHANGED <<readVars, callVars, buffered, rotVars>>

-----------------------------------------------------------------------------
Client ==
    \/ \E size \in RequestSizes : SendRequest(size)
    \/ PageProgram \/ BusyWaitOver
    \/ BufferRequest \/ Exchange \/ ExchangeDone \/ ExchangeFails
    \/ \E n \in Positions : WriteMtd(n)
    \/ \E n \in Positions : ReadPiece(n)
    \/ OutWrite \/ InAck \/ OutRead \/ InData
    \/ SystemCallFails \/ TransferFails \/ Die

Rot ==
    \/ \E len \in 0 .. MaxData : Respond(len)
    \/ RotHandlesWrite \/ RotHandlesRead
    \/ RotResets

Next == Client \/ Rot

Spec == Init /\ [][Next]_vars

-----------------------------------------------------------------------------
(* Properties                                                              *)

\* A host command that begins while the RoT is quiet, and reports success,
\* left the response to this very request in the caller's buffer: whole, or,
\* over USB only, cut at the end of the buffer.  The response carries no
\* identity, so this rests on waiting for the RoT at the right places.
WholeAnswer ==
    result = "ok" /\ clean =>
        LET len == response[0].len
        IN  /\ actual_size = MinOf(ResponseSize, HeaderSize + len)
            /\ transport # "usb" => actual_size = HeaderSize + len
            /\ \A k \in 0 .. actual_size - 1 :
                   response[k] = ResponseCell(request.id, len, k)

\* The buffered request of the atomic SPI transport outlives no call: however
\* the call before ended, the next one is not refused as busy, and what the
\* ioctl() sends is the request of the call that makes it.
BufferedRequestIsThisCalls ==
    /\ result # "busy"
    /\ buffered \in {NoRequest, request}
=============================================================================
