-------------------------- MODULE TransportProofs ---------------------------
(***************************************************************************)
(* Proofs about the way of a host command, for any sizes, commands,        *)
(* devices, locations and timeouts and any number of calls.                *)
(*                                                                         *)
(* MailboxTransport, for every transport: a host command that begins while *)
(* the RoT is quiet and reports success has the whole response to its own  *)
(* request, though nothing in the mailbox says whose response it is and    *)
(* clients before it may have died anywhere.                               *)
(*                                                                         *)
(* HostCmd: success means the very frame the RoT built, whichever byte of  *)
(* it the link damaged.  What the checksum loop computes is proved for     *)
(* frames of any length.                                                   *)
(*                                                                         *)
(* UsbOpen: however often RoTs come and go and whichever step of an open   *)
(* or a reconnect fails, a handle is fit for use, the only one open, and   *)
(* the one that was asked for.                                             *)
(***************************************************************************)
EXTENDS MCTransport, TLAPS, WellFoundedInduction, SequenceTheorems

\* Nothing in the mailbox, under way or being worked on is of a later call.
TypeOK ==
    /\ transport \in {"usb", "spi", "spi_atomic", "mtd"}
    /\ pc \in {"idle", "write", "busy_wait", "exchange", "exchanged",
               "read_header", "read_data", "ack", "read", "data"}
    /\ request \in [id : Nat, size : Nat]
    /\ clean \in BOOLEAN
    /\ mailbox = [k \in Positions |-> mailbox[k]]
    /\ \A k \in Positions : mailbox[k].id \in 0 .. request.id
    /\ executing \in 0 .. request.id
    /\ out.req.id \in 0 .. request.id

\* Where a client can be, with which transport and what in its buffer.
Places ==
    /\ pc \in {"busy_wait", "read_header", "read_data"} =>
          transport \in {"spi", "mtd"}
    /\ pc \in {"ack", "read", "data"} => transport = "usb"
    /\ pc \in {"exchange", "exchanged"} =>
          transport = "spi_atomic" /\ buffered = request
    /\ pc \notin {"exchange", "exchanged"} => buffered = NoRequest
    /\ pc # "idle" => request.id # None /\ request.size \in RequestSizes
    /\ pc # "idle" => result = "none"
    /\ result # "busy"
    /\ transport # "usb" => out = NoMessage /\ answers = <<>>

\* The first w cells of the request are in the mailbox, and no other is.
Unwritten(w) ==
    /\ executing = None
    /\ \A k \in Positions : IF k < w THEN mailbox[k] = RequestCell(request, k)
                                     ELSE mailbox[k].id # request.id

\* The response to the request is in the mailbox, with len cells of data.
AnsweredWith(len) ==
    /\ executing = None
    /\ \A k \in Positions :
          k < HeaderSize + len => mailbox[k] = ResponseCell(request.id, len, k)
Answered == \E len \in 0 .. MaxData : AnsweredWith(len)

\* The RoT has the whole request, and works on it or has answered.
Working == executing = request.id \/ Answered

Sent(w) == IF w < request.size THEN Unwritten(w) ELSE Working

\* The caller's buffer has the first n cells of the mailbox.
Copied(n) == \A k \in Buffer : k < n => response[k] = mailbox[k]

ReadingUsb ==
    \/ offset = 0 /\ expected = ResponseSize /\ Working
    \/ \E len \in 0 .. MaxData :
          /\ AnsweredWith(len)
          /\ expected = MinOf(ResponseSize, HeaderSize + len)
          /\ offset \in HeaderSize .. expected - 1
          /\ Copied(offset)

WritePiece == MinOf(WriteMax, request.size - offset)
ReadShare == MinOf(ReadMax, ResponseSize - offset)
Quiet == out = NoMessage /\ answers = <<>>
Ack == [ok |-> TRUE, cells |-> <<>>]
Data == [ok |-> TRUE,
         cells |-> [k \in 1 .. ReadShare |-> mailbox[offset + k - 1]]]

\* What a call that began while the RoT was quiet finds at each place.
Writing ==
    /\ pc = "write" =>
          /\ offset \in 0 .. request.size - 1 /\ Quiet
          /\ Unwritten(offset)
          /\ transport \in {"spi_atomic", "mtd"} => offset = 0
    /\ pc = "busy_wait" =>
          /\ offset \in 0 .. request.size /\ Sent(offset)
          /\ transport = "mtd" => offset = request.size
    /\ pc = "exchange" => Unwritten(0)
    /\ pc = "exchanged" => Working
    /\ pc = "ack" =>
          /\ offset \in 0 .. request.size - 1
          /\ \/ out = Message("write", WritePiece) /\ answers = <<>>
                /\ Unwritten(offset)
             \/ out = NoMessage /\ answers = <<Ack>>
                /\ Sent(offset + WritePiece)

Reading ==
    /\ pc = "read_header" =>
          /\ Answered /\ expected = HeaderSize
          /\ offset \in 0 .. HeaderSize - 1 /\ Copied(offset)
    /\ pc = "read_data" =>
          \E len \in 0 .. MaxData :
             /\ AnsweredWith(len)
             /\ expected = HeaderSize + len /\ expected <= ResponseSize
             /\ offset \in HeaderSize .. expected - 1 /\ Copied(offset)
    /\ pc = "read" => ReadingUsb /\ Quiet
    /\ pc = "data" =>
          /\ ReadingUsb
          /\ \/ out = Message("read", ReadShare) /\ answers = <<>>
             \/ out = NoMessage /\ answers = <<Data>> /\ Answered

\* The inductive invariant.
MailboxInv ==
    /\ TypeOK /\ Places
    /\ clean => Writing /\ Reading
    /\ WholeAnswer

-----------------------------------------------------------------------------
(* What the operators do                                                   *)

\* The constants are positive numbers.
LEMMA ConstantsAreNumbers ==
    /\ HeaderSize \in Nat \ {0} /\ WriteMax \in Nat \ {0}
    /\ ReadMax \in Nat \ {0} /\ ResponseSize \in Nat \ {0}
    /\ AnswerHeader \in Nat \ {0} /\ MaxData \in Nat
  BY MailboxAssumption

\* How they relate: requests and the caller's buffer fit in the mailbox, and a
\* header in the buffer and in a packet.
LEMMA SizesFit ==
    /\ HeaderSize <= ReadMax /\ HeaderSize <= ResponseSize
    /\ ResponseSize <= HeaderSize + MaxData
    /\ \A n \in RequestSizes : n \in Nat /\ 1 <= n /\ n <= HeaderSize + MaxData
<1>1. HeaderSize \in 1 .. MinOf(ReadMax, ResponseSize) /\ Buffer \subseteq Positions
  BY MailboxAssumption
<1>2. HeaderSize <= ReadMax /\ HeaderSize <= ResponseSize
  BY <1>1, ConstantsAreNumbers DEF MinOf
<1>3. ResponseSize <= HeaderSize + MaxData
  <2>1. ResponseSize - 1 \in Buffer
    BY ConstantsAreNumbers DEF Buffer
  <2>2. ResponseSize - 1 \in Positions
    BY <1>1, <2>1
  <2>3. QED
    BY <2>2, ConstantsAreNumbers DEF Positions
<1>4. \A n \in RequestSizes : n \in Nat /\ 1 <= n /\ n <= HeaderSize + MaxData
  BY MailboxAssumption, ConstantsAreNumbers
<1>5. QED
  BY <1>2, <1>3, <1>4

\* A write puts cells of its request in the mailbox, or nothing in a busy RoT's.
LEMMA WriteTyped ==
    ASSUME TypeOK, NEW req, req.id \in 0 .. request.id, NEW at, NEW n,
           Write(req, at, n)
    PROVE  /\ mailbox' = [k \in Positions |-> mailbox'[k]]
           /\ \A k \in Positions : mailbox'[k].id \in 0 .. request.id
           /\ executing' \in 0 .. request.id
<1>1. CASE executing # None
  BY <1>1 DEF Write, rotVars, TypeOK
<1>2. CASE executing = None
  <2>1. /\ mailbox' = [k \in Positions |-> IF k \in at .. at + n - 1
                                           THEN RequestCell(req, k) ELSE mailbox[k]]
        /\ executing' = req.id \/ executing' = None
    BY <1>2 DEF Write
  <2>2. \A k : RequestCell(req, k).id = req.id
    BY DEF RequestCell, Cell
  <2>3. \A k \in Positions : mailbox'[k].id \in 0 .. request.id
    BY <2>1, <2>2 DEF TypeOK
  <2>4. executing' \in 0 .. request.id
    BY <2>1 DEF TypeOK, None
  <2>5. QED
    BY <2>1, <2>3, <2>4
<1>3. QED
  BY <1>1, <1>2

\* The next n cells of a request are written; the RoT starts on it exactly when
\* they are the last, for no cell of this call was there before.
LEMMA WriteSends ==
    ASSUME NEW w \in Nat, NEW n \in Nat \ {0}, Unwritten(w), request.id # None,
           request.size \in RequestSizes, w + n <= request.size,
           Write(request, w, n), UNCHANGED request
    PROVE  Sent(w + n)'
<1>1. /\ request.size \in Nat /\ request.size <= HeaderSize + MaxData
      /\ HeaderSize \in Nat /\ MaxData \in Nat
  BY SizesFit, ConstantsAreNumbers
<1> DEFINE new == [k \in Positions |-> IF k \in w .. w + n - 1
                                       THEN RequestCell(request, k) ELSE mailbox[k]]
           whole == \A k \in 0 .. request.size - 1 : new[k] = RequestCell(request, k)
<1>2. mailbox' = new /\ executing' = IF whole THEN request.id ELSE None
  BY DEF Write, Unwritten
<1>3. \A k \in Positions : IF k < w + n THEN new[k] = RequestCell(request, k)
                                        ELSE new[k].id # request.id
  <2> SUFFICES ASSUME NEW k \in Positions
               PROVE  IF k < w + n THEN new[k] = RequestCell(request, k)
                                   ELSE new[k].id # request.id
    OBVIOUS
  <2>1. k \in Nat
    BY <1>1 DEF Positions
  <2>2. CASE k < w
    BY <2>1, <2>2 DEF Unwritten
  <2>3. CASE ~(k < w) /\ k < w + n
    BY <2>1, <2>3
  <2>4. CASE ~(k < w + n)
    BY <2>1, <2>4 DEF Unwritten
  <2>5. QED
    BY <2>1, <2>2, <2>3, <2>4
<1>4. CASE w + n < request.size
  <2>1. request.size - 1 \in Positions /\ ~(request.size - 1 < w + n)
    BY <1>1, <1>4 DEF Positions
  <2>2. RequestCell(request, request.size - 1).id = request.id
    BY DEF RequestCell, Cell
  <2>3. new[request.size - 1] # RequestCell(request, request.size - 1)
    BY <1>3, <2>1, <2>2
  <2>4. request.size - 1 \in 0 .. request.size - 1
    BY <1>1, <1>4
  <2>5. ~whole
    BY <2>3, <2>4
  <2>6. mailbox' = new /\ executing' = None
    BY <1>2, <2>5
  <2> HIDE DEF new
  <2>7. Unwritten(w + n)'
    BY <1>3, <2>6 DEF Unwritten
  <2>8. QED
    BY <1>4, <2>7 DEF Sent
<1>5. CASE ~(w + n < request.size)
  <2>1. w + n = request.size
    BY <1>1, <1>5
  <2>2. ASSUME NEW k \in 0 .. request.size - 1 PROVE new[k] = RequestCell(request, k)
    <3>1. k \in Positions /\ k < w + n
      BY <1>1, <2>1 DEF Positions
    <3>2. QED
      BY <1>3, <3>1
  <2>3. whole
    BY <2>2
  <2>4. executing' = request.id
    BY <1>2, <2>3
  <2>5. QED
    BY <1>5, <2>4 DEF Sent, Working
<1>6. QED
  BY <1>4, <1>5

\* What a read adds to the caller's buffer continues the copy of the mailbox.
LEMMA FilledCopies ==
    ASSUME NEW n \in Nat, offset \in Nat, Copied(offset)
    PROVE  \A k \in Buffer : k < offset + n =>
              Filled([i \in 1 .. n |-> mailbox[offset + i - 1]], n)[k] = mailbox[k]
<1> SUFFICES ASSUME NEW k \in Buffer, k < offset + n
             PROVE  Filled([i \in 1 .. n |-> mailbox[offset + i - 1]], n)[k]
                       = mailbox[k]
  OBVIOUS
<1> DEFINE cells == [i \in 1 .. n |-> mailbox[offset + i - 1]]
<1>1. k \in Nat
  BY ConstantsAreNumbers DEF Buffer
<1>2. CASE k < offset
  <2>1. k \notin offset .. offset + n - 1
    BY <1>1, <1>2
  <2>2. QED
    BY <1>2, <2>1 DEF Filled, Copied
<1>3. CASE ~(k < offset)
  <2>1. k \in offset .. offset + n - 1 /\ k - offset + 1 \in DOMAIN cells
    BY <1>1, <1>3
  <2>2. cells[k - offset + 1] = mailbox[offset + (k - offset + 1) - 1]
    BY <2>1
  <2>3. offset + (k - offset + 1) - 1 = k
    BY <1>1
  <2>4. Filled(cells, n)[k] = cells[k - offset + 1]
    BY <2>1 DEF Filled
  <2>5. QED
    BY <2>2, <2>3, <2>4
<1>4. QED
  BY <1>2, <1>3

\* A buffer that has the first n cells of an answered mailbox has them of the
\* response to the request.
LEMMA CopyIsAnswer ==
    ASSUME NEW buf, NEW len \in 0 .. MaxData, NEW n \in Nat, AnsweredWith(len),
           n <= ResponseSize, n <= HeaderSize + len, 1 <= n,
           \A k \in Buffer : k < n => buf[k] = mailbox[k]
    PROVE  /\ \A k \in 0 .. n - 1 : buf[k] = ResponseCell(request.id, len, k)
           /\ buf[0].len = len
<1>1. HeaderSize \in Nat /\ MaxData \in Nat /\ ResponseSize \in Nat
  BY ConstantsAreNumbers
<1>2. ASSUME NEW k \in 0 .. n - 1
      PROVE  buf[k] = ResponseCell(request.id, len, k)
  <2>1. k \in Buffer /\ k < n /\ k \in Positions /\ k < HeaderSize + len
    BY <1>1 DEF Buffer, Positions
  <2>2. buf[k] = mailbox[k] /\ mailbox[k] = ResponseCell(request.id, len, k)
    BY <2>1 DEF AnsweredWith
  <2>3. QED
    BY <2>2
<1>3. 0 \in 0 .. n - 1
  OBVIOUS
<1>4. ResponseCell(request.id, len, 0).len = len
  BY DEF ResponseCell, Cell
<1>5. QED
  BY <1>2, <1>3, <1>4

\* A buffer with the header of an answered mailbox says the answer's length.
LEMMA HeaderCopied ==
    ASSUME NEW buf, NEW len \in 0 .. MaxData, AnsweredWith(len),
           \A k \in Buffer : k < HeaderSize => buf[k] = mailbox[k]
    PROVE  IsHeader(buf) /\ LensSeen(buf) = {len}
<1>1. /\ HeaderSize \in Nat /\ 1 <= HeaderSize /\ HeaderSize <= ResponseSize
      /\ HeaderSize <= HeaderSize + len
  BY ConstantsAreNumbers, SizesFit
<1>2. \A k \in 0 .. HeaderSize - 1 : buf[k] = ResponseCell(request.id, len, k)
  BY <1>1, CopyIsAnswer
<1>3. \A id, k : /\ ResponseCell(id, len, k)
                      = [ResponseCell(id, len, 0) EXCEPT !.at = k]
                 /\ ResponseCell(id, len, k).kind = "response"
                 /\ ResponseCell(id, len, k).len = len
  BY DEF ResponseCell, Cell
<1>4. 0 \in 0 .. HeaderSize - 1
  BY <1>1
<1>5. QED
  BY <1>2, <1>3, <1>4 DEF IsHeader, LensSeen

\* A call that copied the answer up to its end, or up to the end of the buffer
\* over USB, has what it promises.
LEMMA AnswerDelivered ==
    ASSUME NEW len \in 0 .. MaxData, NEW n \in Nat, AnsweredWith(len),
           n = MinOf(ResponseSize, HeaderSize + len),
           transport' # "usb" => n = HeaderSize + len,
           \A k \in Buffer : k < n => response'[k] = mailbox[k],
           actual_size' = n, UNCHANGED request
    PROVE  WholeAnswer'
<1>1. n <= ResponseSize /\ n <= HeaderSize + len /\ 1 <= n
  BY ConstantsAreNumbers, SizesFit DEF MinOf
<1>2. /\ \A k \in 0 .. n - 1 : response'[k] = ResponseCell(request.id, len, k)
      /\ response'[0].len = len
  BY <1>1, CopyIsAnswer
<1>3. QED
  BY <1>2 DEF WholeAnswer

-----------------------------------------------------------------------------
(* The steps                                                               *)

\* What is said of the RoT only depends on the mailbox, on what the RoT works
\* on and on the request.
LEMMA RotKept ==
    ASSUME UNCHANGED <<mailbox, executing, request>>
    PROVE  /\ \A w \in Nat : Unwritten(w) => Unwritten(w)'
           /\ \A w \in Nat : Sent(w) => Sent(w)'
           /\ \A len \in 0 .. MaxData : AnsweredWith(len) => AnsweredWith(len)'
           /\ Answered => Answered'
           /\ Working => Working'
<1>1. \A w \in Nat : Unwritten(w) => Unwritten(w)'
  BY DEF Unwritten
<1>2. \A len \in 0 .. MaxData : AnsweredWith(len) => AnsweredWith(len)'
  BY DEF AnsweredWith
<1>3. Answered => Answered'
  BY <1>2 DEF Answered
<1>4. Working => Working'
  BY <1>3 DEF Working
<1>5. \A w \in Nat : Sent(w) => Sent(w)'
  BY <1>1, <1>4 DEF Sent
<1>6. QED
  BY <1>1, <1>2, <1>3, <1>4, <1>5

\* The first answer in the USB endpoint is the only one.
LEMMA FirstAnswer ==
    ASSUME NEW reply
    PROVE  /\ Append(<<>>, reply) = <<reply>>
           /\ Head(<<reply>>) = reply /\ Tail(<<reply>>) = <<>>
  OBVIOUS

\* A mailbox nobody wrote, and no call.
LEMMA MailboxInit == ASSUME Init PROVE MailboxInv
<1>1. Junk.id = 0 /\ NoRequest.id = 0 /\ NoMessage.req = NoRequest
      /\ NoRequest \in [id : Nat, size : Nat]
  BY DEF Junk, Cell, NoRequest, NoMessage, None
<1>2. TypeOK
  BY <1>1 DEF Init, TypeOK, None
<1>3. Places
  BY DEF Init, Places
<1>4. Writing /\ Reading
  BY DEF Init, Writing, Reading
<1>5. WholeAnswer
  BY DEF Init, WholeAnswer
<1>6. QED
  BY <1>2, <1>3, <1>4, <1>5 DEF MailboxInv

\* dev->send of a new host command: its number is in no cell yet.
LEMMA SendStep ==
    ASSUME MailboxInv, NEW size \in RequestSizes, SendRequest(size)
    PROVE  MailboxInv'
<1>1. /\ pc = "idle" /\ request' = [id |-> request.id + 1, size |-> size]
      /\ clean' = (executing = None /\ usbVars = <<NoMessage, <<>>>>)
      /\ offset' = 0 /\ pc' = "write" /\ result' = "none"
      /\ UNCHANGED <<transport, buffered, out, answers, mailbox, executing>>
  BY DEF SendRequest, usbVars, rotVars
<1>2. /\ request.id \in Nat /\ size \in Nat /\ 1 <= size
      /\ request'.id = request.id + 1 /\ request'.size = size
      /\ request' \in [id : Nat, size : Nat]
  BY <1>1, SizesFit DEF MailboxInv, TypeOK
<1>3. TypeOK'
  <2>1. clean' \in BOOLEAN
    BY <1>1
  <2>2. 0 .. request.id \subseteq 0 .. request'.id
    BY <1>2
  <2>3. QED
    BY <1>1, <1>2, <2>1, <2>2 DEF MailboxInv, TypeOK
<1>4. Places'
  BY <1>1, <1>2 DEF MailboxInv, Places, None
<1>5. clean' => Writing' /\ Reading'
  <2> SUFFICES ASSUME clean' PROVE Writing' /\ Reading'
    OBVIOUS
  <2>1. executing = None /\ out = NoMessage /\ answers = <<>>
    BY <1>1 DEF usbVars
  <2>2. \A k \in Positions : k \in Nat /\ mailbox[k].id # request'.id
    BY <1>2, ConstantsAreNumbers DEF MailboxInv, TypeOK, Positions
  <2>3. Unwritten(0)'
    BY <1>1, <2>1, <2>2 DEF Unwritten
  <2>4. Quiet'
    BY <1>1, <2>1 DEF Quiet
  <2>5. 0 \in 0 .. request'.size - 1
    BY <1>2
  <2>6. QED
    BY <1>1, <2>3, <2>4, <2>5 DEF Writing, Reading
<1>6. WholeAnswer'
  BY <1>1 DEF WholeAnswer
<1>7. QED
  BY <1>3, <1>4, <1>5, <1>6 DEF MailboxInv

\* A call ends without success: nothing is said of what it leaves behind, but
\* that it is of no later call.
LEMMA FailStep ==
    ASSUME MailboxInv, Die \/ SystemCallFails \/ TransferFails \/ ExchangeFails
    PROVE  MailboxInv'
<1>1. /\ pc' = "idle" /\ result' \in {"died", "error"}
      /\ UNCHANGED <<transport, request, clean>>
      /\ buffered' = buffered \/ buffered' = NoRequest
  BY DEF Die, SystemCallFails, TransferFails, ExchangeFails, End, callVars
<1>2. request.id \in Nat
  BY DEF MailboxInv, TypeOK
<1>3. /\ mailbox' = [k \in Positions |-> mailbox'[k]]
      /\ \A k \in Positions : mailbox'[k].id \in 0 .. request.id
      /\ executing' \in 0 .. request.id
  <2>1. CASE UNCHANGED rotVars
    BY <2>1 DEF rotVars, MailboxInv, TypeOK
  <2>2. CASE Write(request, offset, MinOf(WriteMax, request.size - offset))
    <3>1. request.id \in 0 .. request.id
      BY <1>2
    <3>2. QED
      BY <2>2, <3>1, WriteTyped DEF MailboxInv
  <2>3. QED
    BY <2>1, <2>2 DEF Die, SystemCallFails, TransferFails, ExchangeFails
<1>4. out' = out \/ out'.req = request
  <2>1. \A type, n : Message(type, n).req = request
    BY DEF Message
  <2>2. QED
    BY <2>1 DEF Die, SystemCallFails, TransferFails, ExchangeFails, usbVars
<1>5. TypeOK'
  <2>1. out'.req.id \in 0 .. request.id
    BY <1>2, <1>4 DEF MailboxInv, TypeOK
  <2>2. QED
    BY <1>1, <1>3, <2>1 DEF MailboxInv, TypeOK
<1>6. Places'
  <2>1. transport # "usb" => UNCHANGED <<out, answers>>
    BY DEF Die, SystemCallFails, TransferFails, ExchangeFails, usbVars
  <2>2. buffered' = NoRequest
    BY <1>1 DEF Die, SystemCallFails, TransferFails, ExchangeFails,
       MailboxInv, Places
  <2>3. QED
    BY <1>1, <2>1, <2>2 DEF MailboxInv, Places
<1>7. Writing' /\ Reading' /\ WholeAnswer'
  BY <1>1 DEF Writing, Reading, WholeAnswer
<1>8. QED
  BY <1>5, <1>6, <1>7 DEF MailboxInv

\* A page program of libhoth_spi.c or the write() of libhoth_mtd.c: the request
\* grows from the front, and an unfinished write() is an error.
LEMMA ProgramStep ==
    ASSUME MailboxInv, PageProgram \/ \E n \in Positions : WriteMtd(n)
    PROVE  MailboxInv'
<1>1. /\ pc = "write" /\ transport \in {"spi", "mtd"}
      /\ UNCHANGED <<transport, request, clean, buffered, out, answers>>
      /\ request.id \in 0 .. request.id /\ request.id # None
      /\ request.size \in RequestSizes /\ result = "none"
  BY DEF PageProgram, WriteMtd, MailboxInv, TypeOK, Places, callVars, usbVars
<1>2. request.size \in Nat /\ WriteMax \in Nat \ {0}
  BY <1>1, SizesFit, ConstantsAreNumbers
<1>3. ASSUME NEW at, NEW n, Write(request, at, n), pc' \in {"idle", "busy_wait"}
      PROVE  TypeOK'
  <2>1. /\ mailbox' = [k \in Positions |-> mailbox'[k]]
        /\ \A k \in Positions : mailbox'[k].id \in 0 .. request.id
        /\ executing' \in 0 .. request.id
    BY <1>1, <1>3, WriteTyped DEF MailboxInv
  <2>2. QED
    BY <1>1, <1>3, <2>1 DEF MailboxInv, TypeOK
<1>4. CASE PageProgram
  <2> DEFINE n == MinOf(WriteMax, request.size - offset)
  <2>1. /\ Write(request, offset, n) /\ offset' = offset + n
        /\ pc' = "busy_wait" /\ result' = result /\ transport = "spi"
    BY <1>4 DEF PageProgram, Goto
  <2>2. TypeOK'
    BY <1>3, <2>1
  <2>3. Places'
    BY <1>1, <2>1 DEF MailboxInv, Places
  <2>4. clean' => Writing'
    <3> SUFFICES ASSUME clean PROVE Writing'
      BY <1>1
    <3>1. offset \in 0 .. request.size - 1 /\ Unwritten(offset)
      BY <1>1 DEF MailboxInv, Writing
    <3>2. n \in Nat \ {0} /\ offset \in Nat /\ offset + n <= request.size
      BY <1>2, <3>1 DEF MinOf
    <3> HIDE DEF n
    <3>3. PICK w \in Nat, m \in Nat \ {0} : w = offset /\ m = n
      BY <3>2
    <3>4. Sent(w + m)'
      BY <1>1, <2>1, <3>1, <3>2, <3>3, WriteSends
    <3>5. offset' = w + m /\ offset' \in 0 .. request'.size
      BY <1>1, <1>2, <2>1, <3>2, <3>3
    <3>6. Sent(offset)'
      BY <3>4, <3>5 DEF Sent, Unwritten, Working
    <3>7. QED
      BY <1>1, <2>1, <3>5, <3>6 DEF Writing
  <2>5. Reading' /\ WholeAnswer'
    BY <1>1, <2>1 DEF Reading, WholeAnswer
  <2>6. QED
    BY <2>2, <2>3, <2>4, <2>5 DEF MailboxInv
<1>5. ASSUME NEW n \in Positions, WriteMtd(n) PROVE MailboxInv'
  <2>1. Write(request, 0, n) /\ n \in 1 .. request.size /\ transport = "mtd"
    BY <1>5 DEF WriteMtd
  <2>2. CASE n = request.size
    <3>1. offset' = n /\ pc' = "busy_wait" /\ result' = result
      BY <1>5, <2>2 DEF WriteMtd, Goto
    <3>2. TypeOK'
      BY <1>3, <2>1, <3>1
    <3>3. Places'
      BY <1>1, <2>1, <3>1 DEF MailboxInv, Places
    <3>4. clean' => Writing'
      <4> SUFFICES ASSUME clean PROVE Writing'
        BY <1>1
      <4>1. Unwritten(0)
        BY <1>1, <2>1 DEF MailboxInv, Writing
      <4>2. n \in Nat \ {0} /\ 0 + n <= request.size /\ 0 + n = n
        BY <1>2, <2>1
      <4>3. Sent(0 + n)'
        BY <1>1, <2>1, <4>1, <4>2, WriteSends
      <4>4. Sent(offset)' /\ offset' \in 0 .. request'.size
        BY <1>1, <1>2, <2>1, <3>1, <4>2, <4>3 DEF Sent, Unwritten, Working
      <4>5. QED
        BY <1>1, <2>2, <3>1, <4>4 DEF Writing
    <3>5. Reading' /\ WholeAnswer'
      BY <1>1, <3>1 DEF Reading, WholeAnswer
    <3>6. QED
      BY <3>2, <3>3, <3>4, <3>5 DEF MailboxInv
  <2>3. CASE n # request.size
    <3>1. pc' = "idle" /\ result' = "error"
      BY <1>5, <2>3 DEF WriteMtd, End
    <3>2. TypeOK'
      BY <1>3, <2>1, <3>1
    <3>3. Places'
      BY <1>1, <3>1 DEF MailboxInv, Places
    <3>4. Writing' /\ Reading' /\ WholeAnswer'
      BY <3>1 DEF Writing, Reading, WholeAnswer
    <3>5. QED
      BY <3>2, <3>3, <3>4 DEF MailboxInv
  <2>4. QED
    BY <2>2, <2>3
<1>6. QED
  BY <1>4, <1>5

\* spi_nor_busy_wait(): after the last page the RoT is not busy any more, so it
\* has answered.
LEMMA BusyWaitStep == ASSUME MailboxInv, BusyWaitOver PROVE MailboxInv'
<1>1. /\ pc = "busy_wait" /\ executing = None /\ transport \in {"spi", "mtd"}
      /\ UNCHANGED <<transport, request, clean, buffered, out, answers, mailbox,
                     executing, response, result>>
      /\ request.id # None /\ request.size \in RequestSizes
  BY DEF BusyWaitOver, StartReceive, Goto, readVars, callVars, usbVars, rotVars,
         MailboxInv, Places
<1>2. \/ offset < request.size /\ pc' = "write" /\ offset' = offset
      \/ /\ ~(offset < request.size) /\ pc' = "read_header"
         /\ offset' = 0 /\ expected' = HeaderSize
  BY <1>1 DEF BusyWaitOver, StartReceive, Goto, readVars
<1>3. TypeOK'
  BY <1>1, <1>2 DEF MailboxInv, TypeOK
<1>4. Places'
  BY <1>1, <1>2 DEF MailboxInv, Places
<1>5. clean' => Writing' /\ Reading'
  <2> SUFFICES ASSUME clean PROVE Writing' /\ Reading'
    BY <1>1
  <2>1. /\ offset \in 0 .. request.size /\ Sent(offset) /\ request.size \in Nat
        /\ transport = "mtd" => offset = request.size
    BY <1>1, SizesFit DEF MailboxInv, Writing
  <2>2. CASE offset < request.size
    <3>1. Unwritten(offset)' /\ offset' = offset /\ pc' = "write" /\ Quiet'
      BY <1>1, <1>2, <2>1, <2>2, RotKept DEF Sent, Quiet, MailboxInv, Places, Unwritten
    <3>2. offset' \in 0 .. request'.size - 1 /\ (transport' = "mtd" => offset' = 0)
      BY <1>1, <2>1, <2>2, <3>1
    <3>3. QED
      BY <1>1, <3>1, <3>2 DEF Writing, Reading
  <2>3. CASE ~(offset < request.size)
    <3>1. Answered'
      BY <1>1, <2>1, <2>3, RotKept DEF Sent, Working
    <3>2. 0 \in 0 .. HeaderSize - 1 /\ \A k \in Buffer : ~(k < 0)
      BY ConstantsAreNumbers DEF Buffer
    <3>3. QED
      BY <1>2, <2>3, <3>1, <3>2 DEF Writing, Reading, Copied
  <2>4. QED
    BY <2>2, <2>3
<1>6. WholeAnswer'
  BY <1>1, <1>2 DEF MailboxInv, Places, WholeAnswer
<1>7. QED
  BY <1>3, <1>4, <1>5, <1>6 DEF MailboxInv

\* The atomic variant of libhoth_spi.c: no request is left buffered, so the one
\* that the ioctl() sends is this call's, and it reads the mailbox after the
\* RoT has answered.
LEMMA AtomicStep ==
    ASSUME MailboxInv, BufferRequest \/ Exchange \/ ExchangeDone
    PROVE  MailboxInv'
<1>1. /\ UNCHANGED <<transport, request, clean, out, answers>>
      /\ pc \in {"write", "exchange", "exchanged"} /\ transport = "spi_atomic"
      /\ request.id # None /\ request.size \in RequestSizes /\ result = "none"
      /\ request.id \in 0 .. request.id
  BY DEF BufferRequest, Exchange, ExchangeDone, callVars, usbVars, MailboxInv,
         TypeOK, Places
<1>2. CASE BufferRequest
  <2>1. pc = "write" /\ buffered = NoRequest
    BY <1>2 DEF BufferRequest, MailboxInv, Places
  <2>2. /\ UNCHANGED <<mailbox, executing>>
        /\ \/ pc' = "exchange" /\ buffered' = request /\ result' = result
           \/ pc' = "idle" /\ buffered' = buffered /\ result' = "error"
    BY <1>2, <2>1 DEF BufferRequest, rotVars, Goto, End
  <2>3. TypeOK'
    BY <1>1, <2>2 DEF MailboxInv, TypeOK
  <2>4. Places'
    BY <1>1, <2>1, <2>2 DEF MailboxInv, Places
  <2>5. clean' => Writing' /\ Reading'
    <3> SUFFICES ASSUME clean PROVE Writing' /\ Reading'
      BY <1>1
    <3>1. Unwritten(0)
      BY <1>1, <2>1 DEF MailboxInv, Writing
    <3>2. Unwritten(0)'
      BY <1>1, <2>2, <3>1, RotKept
    <3>3. QED
      BY <2>2, <3>2 DEF Writing, Reading
  <2>6. WholeAnswer'
    BY <1>1, <2>2 DEF WholeAnswer
  <2>7. QED
    BY <2>3, <2>4, <2>5, <2>6 DEF MailboxInv
<1>3. CASE Exchange
  <2>1. /\ pc = "exchange" /\ buffered = request /\ UNCHANGED buffered
        /\ Write(request, 0, request.size) /\ pc' = "exchanged"
        /\ result' = result
    BY <1>3 DEF Exchange, MailboxInv, Places, Goto
  <2>2. /\ mailbox' = [k \in Positions |-> mailbox'[k]]
        /\ \A k \in Positions : mailbox'[k].id \in 0 .. request.id
        /\ executing' \in 0 .. request.id
    BY <1>1, <2>1, WriteTyped DEF MailboxInv
  <2>3. TypeOK'
    BY <1>1, <2>1, <2>2 DEF MailboxInv, TypeOK
  <2>4. Places'
    BY <1>1, <2>1 DEF MailboxInv, Places
  <2>5. clean' => Writing' /\ Reading'
    <3> SUFFICES ASSUME clean PROVE Writing' /\ Reading'
      BY <1>1
    <3>1. PICK n \in Nat \ {0} : n = request.size
      BY <1>1, SizesFit
    <3>2. Unwritten(0) /\ 0 + n <= request.size
      BY <1>1, <2>1, <3>1 DEF MailboxInv, Writing
    <3>3. Sent(0 + n)'
      BY <1>1, <2>1, <3>1, <3>2, WriteSends
    <3>4. Working'
      BY <1>1, <3>1, <3>3 DEF Sent
    <3>5. QED
      BY <2>1, <3>4 DEF Writing, Reading
  <2>6. WholeAnswer'
    BY <1>1, <2>1 DEF WholeAnswer
  <2>7. QED
    BY <2>3, <2>4, <2>5, <2>6 DEF MailboxInv
<1>4. CASE ExchangeDone
  <2>1. /\ pc = "exchanged" /\ executing = None /\ buffered' = NoRequest
        /\ response' = [k \in Buffer |-> mailbox[k]] /\ pc' = "idle"
        /\ UNCHANGED <<mailbox, executing>>
    BY <1>4 DEF ExchangeDone, End, rotVars
  <2>2. PICK len \in LensSeen(response') :
           IF len > ResponseSize - HeaderSize
           THEN result' = "overflow" /\ actual_size' = 0
           ELSE result' = "ok" /\ actual_size' = len + HeaderSize
    BY <1>4 DEF ExchangeDone, End
  <2>3. TypeOK'
    BY <1>1, <2>1 DEF MailboxInv, TypeOK
  <2>4. Places'
    BY <1>1, <2>1, <2>2 DEF MailboxInv, Places
  <2>5. Writing' /\ Reading'
    BY <2>1 DEF Writing, Reading
  <2>6. WholeAnswer'
    <3> SUFFICES ASSUME clean, result' = "ok" PROVE WholeAnswer'
      BY <1>1 DEF WholeAnswer
    <3>1. PICK data \in 0 .. MaxData : AnsweredWith(data)
      BY <1>1, <2>1 DEF MailboxInv, Writing, Working, Answered
    <3>2. \A k \in Buffer : response'[k] = mailbox[k]
      BY <2>1
    <3>3. /\ HeaderSize \in Nat /\ 1 <= HeaderSize /\ HeaderSize <= ResponseSize
          /\ HeaderSize <= HeaderSize + data /\ ResponseSize \in Nat /\ data \in Nat
      BY ConstantsAreNumbers, SizesFit
    <3>4. LensSeen(response') = {data}
      BY <3>1, <3>2, HeaderCopied
    <3>5. len = data
      BY <3>4
    <3>6. /\ HeaderSize + data <= ResponseSize
          /\ actual_size' = HeaderSize + data
      BY <2>2, <3>3, <3>5
    <3>7. PICK m \in Nat : m = HeaderSize + data
      BY <3>3
    <3>8. m = MinOf(ResponseSize, HeaderSize + data)
      BY <3>3, <3>6, <3>7 DEF MinOf
    <3>9. QED
      BY <1>1, <3>1, <3>2, <3>6, <3>7, <3>8, AnswerDelivered
  <2>7. QED
    BY <2>3, <2>4, <2>5, <2>6 DEF MailboxInv
<1>5. QED
  BY <1>2, <1>3, <1>4

\* The reads of libhoth_spi.c and libhoth_mtd.c: the header says how much there
\* is, and the rest is read up to there, in however many pieces.
LEMMA ReadStep ==
    ASSUME MailboxInv, NEW n \in Positions, ReadPiece(n) PROVE MailboxInv'
<1>1. /\ pc \in {"read_header", "read_data"} /\ n \in 1 .. expected - offset
      /\ response' = Filled([k \in 1 .. n |-> mailbox[offset + k - 1]], n)
      /\ offset' = offset + n
      /\ UNCHANGED <<transport, request, clean, buffered, out, answers, mailbox,
                     executing>>
      /\ transport \in {"spi", "mtd"} /\ result = "none"
  BY DEF ReadPiece, callVars, usbVars, rotVars, MailboxInv, Places
<1>2. \/ /\ offset' < expected /\ pc' = pc /\ result' = "none"
         /\ expected' = expected
      \/ /\ ~(offset' < expected) /\ pc = "read_data" /\ expected' = expected
         /\ pc' = "idle" /\ result' = "ok" /\ actual_size' = expected
      \/ /\ ~(offset' < expected) /\ pc = "read_header"
         /\ \E len \in LensSeen(response') :
               \/ /\ ResponseSize < HeaderSize + len
                  /\ pc' = "idle" /\ result' = "overflow"
               \/ /\ ~(ResponseSize < HeaderSize + len) /\ len = 0
                  /\ pc' = "idle" /\ result' = "ok" /\ actual_size' = HeaderSize
               \/ /\ ~(ResponseSize < HeaderSize + len) /\ len # 0
                  /\ pc' = "read_data" /\ result' = "none"
                  /\ expected' = HeaderSize + len
  <2>1. CASE offset' < expected
    BY <1>1, <2>1 DEF ReadPiece, resultVars
  <2>2. CASE ~(offset' < expected) /\ pc = "read_data"
    BY <2>2 DEF ReadPiece, End
  <2>3. CASE ~(offset' < expected) /\ pc = "read_header"
    <3>1. PICK len \in LensSeen(response') :
             IF ResponseSize < HeaderSize + len
             THEN End("overflow", HeaderSize) /\ UNCHANGED expected
             ELSE IF len = 0
             THEN End("ok", HeaderSize) /\ UNCHANGED expected
             ELSE Goto("read_data") /\ expected' = HeaderSize + len
      BY <2>3 DEF ReadPiece
    <3>2. QED
      BY <1>1, <2>3, <3>1 DEF End, Goto
  <2>4. QED
    BY <1>1, <2>1, <2>2, <2>3
<1>3. TypeOK'
  BY <1>1, <1>2 DEF MailboxInv, TypeOK
<1>4. Places'
  BY <1>1, <1>2 DEF MailboxInv, Places
<1>5. ASSUME clean PROVE Writing' /\ Reading' /\ WholeAnswer'
  <2>1. /\ HeaderSize \in Nat /\ 1 <= HeaderSize /\ HeaderSize <= ResponseSize
        /\ ResponseSize \in Nat /\ MaxData \in Nat
    BY ConstantsAreNumbers, SizesFit
  <2>2. /\ offset \in Nat /\ expected \in Nat /\ Copied(offset)
        /\ expected <= ResponseSize /\ offset < expected
    BY <1>1, <1>5, <2>1 DEF MailboxInv, Reading
  <2>3. offset' \in Nat /\ offset' <= expected /\ offset < offset' /\ n \in Nat
    BY <1>1, <2>2
  <2>4. \A k \in Buffer : k < offset' => response'[k] = mailbox[k]
    BY <1>1, <2>2, <2>3, FilledCopies
  <2>5. Copied(offset)'
    BY <1>1, <2>4 DEF Copied
  <2>6. Writing'
    BY <1>1, <1>2 DEF Writing
  <2>7. ASSUME NEW len \in 0 .. MaxData, AnsweredWith(len), result' = "ok",
               offset' = HeaderSize + len, actual_size' = HeaderSize + len,
               HeaderSize + len <= ResponseSize
        PROVE  WholeAnswer'
    <3>1. PICK m \in Nat : m = HeaderSize + len
      BY <2>1
    <3>2. m = MinOf(ResponseSize, HeaderSize + len)
      BY <2>1, <2>7, <3>1 DEF MinOf
    <3>3. \A k \in Buffer : k < m => response'[k] = mailbox[k]
      BY <2>4, <2>7, <3>1
    <3>4. QED
      BY <1>1, <2>7, <3>1, <3>2, <3>3, AnswerDelivered
  <2>8. CASE pc = "read_data"
    <3>1. PICK len \in 0 .. MaxData :
             /\ AnsweredWith(len) /\ expected = HeaderSize + len
             /\ offset \in HeaderSize .. expected - 1
      BY <1>5, <2>8 DEF MailboxInv, Reading
    <3>2. AnsweredWith(len)'
      BY <1>1, <3>1, RotKept
    <3>3. CASE offset' < expected
      <4>1. offset' \in HeaderSize .. expected' - 1 /\ expected' = HeaderSize + len
        BY <1>2, <2>1, <2>3, <3>1, <3>3
      <4>2. QED
        BY <1>2, <2>2, <2>5, <2>6, <2>8, <3>1, <3>2, <3>3, <4>1
           DEF Reading, WholeAnswer
    <3>4. CASE ~(offset' < expected)
      <4>1. offset' = HeaderSize + len
        BY <2>2, <2>3, <3>1, <3>4
      <4>2. pc' = "idle" /\ result' = "ok" /\ actual_size' = HeaderSize + len
        BY <1>2, <2>8, <3>1, <3>4
      <4>3. WholeAnswer'
        BY <2>2, <2>7, <3>1, <4>1, <4>2
      <4>4. QED
        BY <2>6, <4>2, <4>3 DEF Reading
    <3>5. QED
      BY <3>3, <3>4
  <2>9. CASE pc = "read_header"
    <3>1. Answered /\ expected = HeaderSize
      BY <1>5, <2>9 DEF MailboxInv, Reading
    <3>2. PICK data \in 0 .. MaxData : AnsweredWith(data)
      BY <3>1 DEF Answered
    <3>3. AnsweredWith(data)' /\ Answered'
      BY <1>1, <3>1, <3>2, RotKept
    <3>4. CASE offset' < expected
      <4>1. offset' \in 0 .. HeaderSize - 1 /\ expected' = HeaderSize
        BY <1>2, <2>1, <2>3, <3>1, <3>4
      <4>2. QED
        BY <1>2, <2>5, <2>6, <2>9, <3>3, <3>4, <4>1 DEF Reading, WholeAnswer
    <3>5. CASE ~(offset' < expected)
      <4>1. offset' = HeaderSize
        BY <2>2, <2>3, <3>1, <3>5
      <4>2. HeaderSize <= HeaderSize + data /\ data \in Nat
        BY <2>1
      <4>3. \A k \in Buffer : k < HeaderSize => response'[k] = mailbox[k]
        BY <2>4, <4>1
      <4>4. LensSeen(response') = {data}
        BY <3>2, <4>3, HeaderCopied
      <4>5. \/ pc' = "idle" /\ result' = "overflow"
            \/ /\ HeaderSize + data <= ResponseSize /\ data = 0
               /\ pc' = "idle" /\ result' = "ok" /\ actual_size' = HeaderSize
            \/ /\ HeaderSize + data <= ResponseSize /\ data # 0
               /\ pc' = "read_data" /\ result' = "none"
               /\ expected' = HeaderSize + data
        BY <1>2, <2>1, <2>9, <3>5, <4>2, <4>4
      <4>6. CASE pc' = "read_data"
        <5>1. offset' \in HeaderSize .. expected' - 1
          BY <2>1, <4>1, <4>2, <4>5, <4>6
        <5>2. QED
          BY <2>5, <2>6, <3>3, <4>5, <4>6, <5>1 DEF Reading, WholeAnswer
      <4>7. CASE pc' = "idle" /\ result' = "ok"
        <5>1. /\ data = 0 /\ HeaderSize + data = HeaderSize
              /\ HeaderSize + data <= ResponseSize /\ actual_size' = HeaderSize
          BY <2>1, <4>5, <4>7
        <5>2. WholeAnswer'
          BY <2>7, <3>2, <4>1, <4>7, <5>1
        <5>3. QED
          BY <2>6, <4>7, <5>2 DEF Reading
      <4>8. CASE pc' = "idle" /\ result' = "overflow"
        BY <2>6, <4>8 DEF Reading, WholeAnswer
      <4>9. QED
        BY <4>5, <4>6, <4>7, <4>8
    <3>6. QED
      BY <3>4, <3>5
  <2>10. QED
    BY <1>1, <2>8, <2>9
<1>6. QED
  BY <1>1, <1>3, <1>4, <1>5 DEF MailboxInv, WholeAnswer

\* libhoth_usb_mailbox.c sends the request: each packet waits for its answer,
\* so the packets are written one after another and none is left under way.
LEMMA UsbWriteStep == ASSUME MailboxInv, OutWrite \/ InAck PROVE MailboxInv'
<1>1. /\ UNCHANGED <<transport, request, clean, buffered, mailbox, executing>>
      /\ transport = "usb" /\ result = "none" /\ pc \in {"write", "ack"}
      /\ buffered = NoRequest /\ request.id # None
      /\ request.size \in RequestSizes /\ request.id \in Nat
  BY DEF OutWrite, InAck, callVars, rotVars, MailboxInv, Places, TypeOK
<1>2. request.size \in Nat /\ WriteMax \in Nat \ {0}
  BY <1>1, SizesFit, ConstantsAreNumbers
<1>3. CASE OutWrite
  <2>1. /\ pc = "write" /\ out' = Message("write", WritePiece) /\ pc' = "ack"
        /\ UNCHANGED <<result, offset, answers>>
    BY <1>3 DEF OutWrite, WritePiece, Goto, readVars
  <2>2. out'.req = request
    BY <2>1 DEF Message
  <2>3. TypeOK'
    BY <1>1, <2>1, <2>2 DEF MailboxInv, TypeOK
  <2>4. Places'
    BY <1>1, <2>1 DEF MailboxInv, Places
  <2>5. clean' => Writing' /\ Reading'
    <3> SUFFICES ASSUME clean PROVE Writing' /\ Reading'
      BY <1>1
    <3>1. offset \in 0 .. request.size - 1 /\ Quiet /\ Unwritten(offset)
      BY <2>1 DEF MailboxInv, Writing
    <3>2. Unwritten(offset)' /\ offset' \in 0 .. request'.size - 1
      BY <1>1, <2>1, <3>1 DEF Unwritten
    <3>3. out' = Message("write", WritePiece)' /\ answers' = <<>>
      BY <1>1, <2>1, <3>1 DEF Message, WritePiece, Quiet
    <3>4. QED
      BY <2>1, <3>2, <3>3 DEF Writing, Reading
  <2>6. WholeAnswer'
    BY <1>1, <2>1 DEF WholeAnswer
  <2>7. QED
    BY <2>3, <2>4, <2>5, <2>6 DEF MailboxInv
<1>4. CASE InAck
  <2> DEFINE sent == offset + WritePiece
             reply == Head(answers)
  <2>1. /\ pc = "ack" /\ answers # <<>> /\ answers' = Tail(answers) /\ out' = out
        /\ \/ /\ ~reply.ok \/ reply.cells # <<>>
              /\ pc' = "idle" /\ result' = "error"
           \/ /\ sent < request.size
              /\ pc' = "write" /\ result' = "none" /\ offset' = sent
           \/ /\ ~(sent < request.size)
              /\ pc' = "read" /\ result' = "none" /\ offset' = 0
              /\ expected' = ResponseSize
    <3>1. CASE ~reply.ok \/ reply.cells # <<>>
      BY <1>4, <3>1 DEF InAck, End
    <3>2. CASE ~(~reply.ok \/ reply.cells # <<>>) /\ sent < request.size
      BY <1>1, <1>4, <3>2 DEF InAck, Goto, WritePiece
    <3>3. CASE ~(~reply.ok \/ reply.cells # <<>>) /\ ~(sent < request.size)
      BY <1>1, <1>4, <3>3 DEF InAck, Goto, WritePiece, StartReceive
    <3>4. QED
      BY <3>1, <3>2, <3>3
  <2>2. TypeOK'
    BY <1>1, <2>1 DEF MailboxInv, TypeOK
  <2>3. Places'
    BY <1>1, <2>1 DEF MailboxInv, Places
  <2>4. clean' => Writing' /\ Reading'
    <3> SUFFICES ASSUME clean PROVE Writing' /\ Reading'
      BY <1>1
    <3>1. /\ offset \in 0 .. request.size - 1
          /\ out = NoMessage /\ answers = <<Ack>> /\ Sent(sent)
      BY <1>4, <2>1 DEF MailboxInv, Writing
    <3>2. reply = Ack /\ answers' = <<>> /\ Ack.ok /\ Ack.cells = <<>>
      BY <2>1, <3>1 DEF Ack
    <3>3. sent \in Nat
      BY <1>2, <3>1 DEF WritePiece, MinOf
    <3>4. PICK w \in Nat : w = sent
      BY <3>3
    <3> HIDE DEF sent, reply
    <3>5. CASE sent < request.size
      <4>1. pc' = "write" /\ offset' = w
        BY <2>1, <3>2, <3>4, <3>5
      <4>2. Unwritten(w)
        BY <3>1, <3>4, <3>5 DEF Sent
      <4>3. Unwritten(w)'
        BY <1>1, <4>2, RotKept
      <4>4. Unwritten(offset)'
        BY <4>1, <4>3 DEF Unwritten
      <4>5. Quiet' /\ offset' \in 0 .. request'.size - 1
        BY <1>1, <1>2, <2>1, <3>1, <3>2, <3>4, <3>5, <4>1 DEF Quiet
      <4>6. QED
        BY <1>1, <4>1, <4>4, <4>5 DEF Writing, Reading
    <3>6. CASE ~(sent < request.size)
      <4>1. pc' = "read" /\ offset' = 0 /\ expected' = ResponseSize
        BY <2>1, <3>2, <3>6
      <4>2. Working'
        BY <1>1, <3>1, <3>6, RotKept DEF Sent
      <4>3. Quiet'
        BY <2>1, <3>1, <3>2 DEF Quiet
      <4>4. QED
        BY <4>1, <4>2, <4>3 DEF Writing, Reading, ReadingUsb
    <3>7. QED
      BY <3>5, <3>6
  <2>5. WholeAnswer'
    BY <2>1 DEF WholeAnswer
  <2>6. QED
    BY <2>2, <2>3, <2>4, <2>5 DEF MailboxInv
<1>5. QED
  BY <1>3, <1>4

\* libhoth_usb_mailbox.c reads the response packet by packet, the first of
\* which holds the header.
LEMMA UsbReadStep == ASSUME MailboxInv, OutRead \/ InData PROVE MailboxInv'
<1>1. /\ UNCHANGED <<transport, request, clean, buffered, mailbox, executing>>
      /\ transport = "usb" /\ result = "none" /\ pc \in {"read", "data"}
      /\ buffered = NoRequest /\ request.id # None
      /\ request.size \in RequestSizes /\ request.id \in Nat
  BY DEF OutRead, InData, callVars, rotVars, MailboxInv, Places, TypeOK
<1>2. /\ ResponseSize \in Nat /\ ReadMax \in Nat /\ HeaderSize \in Nat
      /\ AnswerHeader \in Nat /\ 1 <= HeaderSize /\ HeaderSize <= ReadMax
      /\ HeaderSize <= ResponseSize /\ MaxData \in Nat
  BY SizesFit, ConstantsAreNumbers
<1>3. CASE OutRead
  <2>1. /\ pc = "read" /\ out' = Message("read", ReadShare) /\ pc' = "data"
        /\ UNCHANGED <<result, offset, expected, response, answers>>
    BY <1>3 DEF OutRead, ReadShare, Goto, readVars
  <2>2. out'.req = request
    BY <2>1 DEF Message
  <2>3. TypeOK'
    BY <1>1, <2>1, <2>2 DEF MailboxInv, TypeOK
  <2>4. Places'
    BY <1>1, <2>1 DEF MailboxInv, Places
  <2>5. clean' => Writing' /\ Reading'
    <3> SUFFICES ASSUME clean PROVE Writing' /\ Reading'
      BY <1>1
    <3>1. ReadingUsb /\ Quiet
      BY <2>1 DEF MailboxInv, Reading
    <3>2. ReadingUsb'
      BY <1>1, <2>1, <3>1 DEF ReadingUsb, Working, Answered, AnsweredWith, Copied
    <3>3. out' = Message("read", ReadShare)' /\ answers' = <<>>
      BY <1>1, <2>1, <3>1 DEF Message, ReadShare, Quiet
    <3>4. QED
      BY <2>1, <3>2, <3>3 DEF Writing, Reading
  <2>6. WholeAnswer'
    BY <1>1, <2>1 DEF WholeAnswer
  <2>7. QED
    BY <2>3, <2>4, <2>5, <2>6 DEF MailboxInv
<1>4. CASE InData
  <2> DEFINE got == Head(answers).cells
             short == Len(got) + AnswerHeader < ReadMax
  <2>1. /\ pc = "data" /\ answers # <<>> /\ answers' = Tail(answers) /\ out' = out
        /\ \/ /\ ~Head(answers).ok \/ Len(got) > ReadShare
              /\ pc' = "idle" /\ result' = "error"
           \/ /\ response' = Filled(got, ReadShare) /\ offset' = offset + ReadShare
              /\ \/ /\ offset = 0 /\ ReadShare >= HeaderSize
                    /\ ~IsHeader(response')
                    /\ pc' = "idle" /\ result' = "unsupported"
                 \/ /\ \/ /\ offset = 0 /\ ReadShare >= HeaderSize
                          /\ \E len \in LensSeen(response') :
                                expected' = MinOf(expected, HeaderSize + len)
                       \/ /\ offset > 0 \/ ReadShare < HeaderSize
                          /\ expected' = expected
                    /\ \/ /\ offset' >= expected' \/ short
                          /\ pc' = "idle" /\ result' = "ok"
                          /\ actual_size' = expected'
                       \/ /\ ~(offset' >= expected') /\ ~short
                          /\ pc' = "read" /\ result' = "none"
    BY <1>1, <1>4 DEF InData, ReadShare, End, Goto
  <2>2. TypeOK'
    BY <1>1, <2>1 DEF MailboxInv, TypeOK
  <2>3. Places'
    BY <1>1, <2>1 DEF MailboxInv, Places
  <2>4. ASSUME clean PROVE Writing' /\ Reading' /\ WholeAnswer'
    <3>1. /\ ReadingUsb /\ out = NoMessage /\ answers = <<Data>> /\ Answered
      BY <2>1, <2>4 DEF MailboxInv, Reading
    <3>2. answers' = <<>> /\ Head(answers) = Data
      BY <2>1, <3>1, FirstAnswer
    <3>3. offset \in Nat /\ offset < ResponseSize /\ Copied(offset)
      <4>1. CASE offset = 0
        BY <1>2, <4>1 DEF Copied, Buffer
      <4>2. CASE \E len \in 0 .. MaxData :
                    /\ expected = MinOf(ResponseSize, HeaderSize + len)
                    /\ offset \in HeaderSize .. expected - 1 /\ Copied(offset)
        BY <1>2, <4>2 DEF MinOf
      <4>3. QED
        BY <3>1, <4>1, <4>2 DEF ReadingUsb
    <3>4. PICK n \in Nat : n = ReadShare
      <4>1. ReadShare \in Nat
        BY <1>2, <3>3 DEF ReadShare, MinOf
      <4>2. QED
        BY <4>1
    <3>5. /\ 1 <= n /\ offset + n <= ResponseSize /\ n <= ReadMax
          /\ n < ReadMax => offset + n = ResponseSize
          /\ offset = 0 => n >= HeaderSize
      BY <1>2, <3>3, <3>4 DEF ReadShare, MinOf
    <3>6. /\ got = [k \in 1 .. n |-> mailbox[offset + k - 1]] /\ Len(got) = n
          /\ Head(answers).ok
      BY <3>2, <3>4 DEF Data
    <3> HIDE DEF got
    <3>7. \A k \in Buffer : k < offset + n =>
             Filled([i \in 1 .. n |-> mailbox[offset + i - 1]], n)[k] = mailbox[k]
      BY <3>3, FilledCopies
    <3>8. /\ response' = Filled(got, n) /\ offset' = offset + n
          /\ \/ /\ offset = 0 /\ ~IsHeader(response')
                /\ pc' = "idle" /\ result' = "unsupported"
             \/ /\ \/ /\ offset = 0
                      /\ \E len \in LensSeen(response') :
                            expected' = MinOf(expected, HeaderSize + len)
                   \/ offset > 0 /\ expected' = expected
                /\ \/ /\ offset' >= expected' \/ n + AnswerHeader < ReadMax
                      /\ pc' = "idle" /\ result' = "ok"
                      /\ actual_size' = expected'
                   \/ /\ ~(offset' >= expected')
                      /\ pc' = "read" /\ result' = "none"
      BY <1>2, <2>1, <3>3, <3>4, <3>5, <3>6
    <3>9. \A k \in Buffer : k < offset' => response'[k] = mailbox[k]
      BY <3>6, <3>7, <3>8
    <3>10. PICK len \in 0 .. MaxData :
              /\ AnsweredWith(len)
              /\ offset = 0 => expected = ResponseSize
              /\ offset > 0 => /\ expected = MinOf(ResponseSize, HeaderSize + len)
                               /\ HeaderSize <= offset
      <4>1. CASE offset = 0
        <5>1. expected = ResponseSize
          BY <1>2, <3>1, <4>1 DEF ReadingUsb
        <5>2. QED
          BY <3>1, <4>1, <5>1 DEF Answered
      <4>2. CASE offset # 0
        BY <1>2, <3>1, <4>2 DEF ReadingUsb
      <4>3. QED
        BY <4>1, <4>2
    <3>11. PICK m \in Nat : m = MinOf(ResponseSize, HeaderSize + len)
      BY <1>2 DEF MinOf
    <3>12. m <= ResponseSize /\ HeaderSize <= m
      BY <1>2, <3>11 DEF MinOf
    <3>13. expected' = m /\ (pc' = "read" \/ result' = "ok")
      <4>1. CASE offset = 0
        <5>1. HeaderSize <= offset'
          BY <1>2, <3>4, <3>5, <3>8, <4>1
        <5>2. \A k \in Buffer : k < HeaderSize => response'[k] = mailbox[k]
          <6>1. \A k \in Buffer : k \in Nat
            BY <1>2 DEF Buffer
          <6>2. QED
            BY <1>2, <3>3, <3>8, <3>9, <5>1, <6>1
        <5>3. IsHeader(response') /\ LensSeen(response') = {len}
          BY <3>10, <5>2, HeaderCopied
        <5>4. expected = ResponseSize
          BY <3>10, <4>1
        <5>5. QED
          BY <3>8, <3>11, <4>1, <5>3, <5>4
      <4>2. CASE offset # 0
        BY <3>3, <3>8, <3>10, <3>11, <4>2
      <4>3. QED
        BY <4>1, <4>2
    <3>14. offset' \in Nat /\ HeaderSize <= offset' /\ offset' <= ResponseSize
      BY <1>2, <3>3, <3>5, <3>8, <3>10
    <3>15. CASE pc' = "read"
      <4>1. AnsweredWith(len)' /\ Copied(offset)'
        BY <1>1, <3>9, <3>10, RotKept DEF Copied
      <4>2. expected' = m /\ offset' \in HeaderSize .. expected' - 1
        BY <1>2, <3>8, <3>12, <3>13, <3>14, <3>15
      <4>3. ReadingUsb'
        BY <3>11, <4>1, <4>2 DEF ReadingUsb
      <4>4. Quiet' /\ result' # "ok"
        BY <2>1, <3>1, <3>2, <3>8, <3>15 DEF Quiet
      <4>5. QED
        BY <3>15, <4>3, <4>4 DEF Writing, Reading, WholeAnswer
    <3>16. CASE pc' = "idle"
      <4>1. m <= offset' /\ actual_size' = m
        BY <1>2, <3>3, <3>4, <3>5, <3>8, <3>12, <3>13, <3>14, <3>16
      <4>2. \A k \in Buffer : k < m => response'[k] = mailbox[k]
        <5>1. \A k \in Buffer : k \in Nat
          BY <1>2 DEF Buffer
        <5>2. QED
          BY <3>9, <3>14, <4>1, <5>1
      <4>3. WholeAnswer'
        BY <1>1, <3>10, <3>11, <4>1, <4>2, AnswerDelivered
      <4>4. QED
        BY <3>16, <4>3 DEF Writing, Reading
    <3>17. QED
      BY <3>8, <3>15, <3>16
  <2>5. QED
    BY <1>1, <2>2, <2>3, <2>4 DEF MailboxInv, WholeAnswer
<1>5. QED
  BY <1>3, <1>4

\* The RoT answers, is reset or handles a USB message.
LEMMA RotStep == ASSUME MailboxInv, Rot PROVE MailboxInv'
<1>1. /\ UNCHANGED <<transport, pc, result, actual_size, offset, expected,
                     response, request, buffered>>
      /\ request.id \in Nat
  BY DEF Rot, Respond, RotHandlesWrite, RotHandlesRead, RotResets, resultVars,
         readVars, callVars, MailboxInv, TypeOK
<1>2. ASSUME NEW len \in 0 .. MaxData, Respond(len) PROVE MailboxInv'
  <2>1. /\ executing # None /\ executing' = None
        /\ mailbox' = [k \in Positions |->
                          IF k < HeaderSize + len
                          THEN ResponseCell(executing, len, k) ELSE mailbox[k]]
        /\ UNCHANGED <<clean, out, answers>>
    BY <1>2 DEF Respond, callVars, usbVars
  <2>2. TypeOK'
    <3>1. \A k : ResponseCell(executing, len, k).id = executing
      BY DEF ResponseCell, Cell
    <3>2. \A k \in Positions : mailbox'[k].id \in 0 .. request.id
      BY <2>1, <3>1 DEF MailboxInv, TypeOK
    <3>3. None \in 0 .. request.id
      BY <1>1 DEF None
    <3>4. QED
      BY <1>1, <2>1, <3>2, <3>3 DEF MailboxInv, TypeOK
  <2>3. Places'
    BY <1>1, <2>1 DEF MailboxInv, Places
  <2>4. clean' => Writing' /\ Reading'
    <3> SUFFICES ASSUME clean PROVE Writing' /\ Reading'
      BY <2>1
    <3>1. ASSUME executing = request.id PROVE Answered' /\ Working'
      BY <1>1, <2>1, <3>1 DEF Answered, AnsweredWith, Working
    <3>2. /\ \A w \in Nat : ~Unwritten(w)
          /\ \A data \in 0 .. MaxData : ~AnsweredWith(data)
          /\ ~Answered
      BY <2>1 DEF Unwritten, AnsweredWith, Answered
    <3>3. Working => Answered' /\ Working'
      BY <3>1, <3>2 DEF Working
    <3>4. \A w \in Nat : Sent(w) => Sent(w)'
      BY <1>1, <3>2, <3>3 DEF Sent
    <3>5. Writing'
      <4>1. pc # "write" /\ pc # "exchange"
        BY <2>1 DEF MailboxInv, Writing, Unwritten
      <4>2. pc = "exchanged" => Working'
        BY <3>3 DEF MailboxInv, Writing
      <4>3. ASSUME pc = "busy_wait"
            PROVE  /\ offset' \in 0 .. request'.size /\ Sent(offset)'
                   /\ transport' = "mtd" => offset' = request'.size
        <5>1. offset \in 0 .. request.size /\ Sent(offset)
          BY <4>3 DEF MailboxInv, Writing
        <5>2. ~(offset < request.size)
          BY <2>1, <5>1 DEF Sent, Unwritten
        <5>3. Sent(offset)'
          BY <1>1, <3>3, <5>1, <5>2 DEF Sent
        <5>4. QED
          BY <1>1, <4>3, <5>1, <5>3 DEF MailboxInv, Writing
      <4>4. ASSUME pc = "ack"
            PROVE  /\ offset' \in 0 .. request'.size - 1
                   /\ out' = NoMessage /\ answers' = <<Ack>>
                   /\ Sent(offset + WritePiece)'
        <5>1. /\ offset \in 0 .. request.size - 1
              /\ out = NoMessage /\ answers = <<Ack>> /\ Sent(offset + WritePiece)
          BY <2>1, <4>4 DEF MailboxInv, Writing, Unwritten
        <5>2. ~(offset + WritePiece < request.size)
          BY <2>1, <5>1 DEF Sent, Unwritten
        <5>3. Sent(offset + WritePiece)'
          BY <1>1, <3>3, <5>1, <5>2 DEF Sent, WritePiece
        <5>4. QED
          BY <1>1, <2>1, <5>1, <5>3
      <4>5. QED
        BY <1>1, <4>1, <4>2, <4>3, <4>4 DEF Writing
    <3>6. Reading'
      <4>1. pc # "read_header" /\ pc # "read_data"
        BY <3>2 DEF MailboxInv, Reading
      <4>2. ReadingUsb => ReadingUsb'
        BY <1>1, <3>2, <3>3 DEF ReadingUsb
      <4>3. pc = "read" => ReadingUsb' /\ Quiet'
        BY <2>1, <4>2 DEF MailboxInv, Reading, Quiet
      <4>4. pc = "data" => /\ ReadingUsb'
                           /\ out' = Message("read", ReadShare)'
                           /\ answers' = <<>>
        BY <1>1, <2>1, <3>2, <4>2 DEF MailboxInv, Reading, Message, ReadShare
      <4>5. QED
        BY <1>1, <4>1, <4>3, <4>4 DEF Reading
    <3>7. QED
      BY <3>5, <3>6
  <2>5. WholeAnswer'
    BY <1>1, <2>1 DEF MailboxInv, WholeAnswer
  <2>6. QED
    BY <2>2, <2>3, <2>4, <2>5 DEF MailboxInv
<1>3. CASE RotResets
  <2>1. /\ mailbox' = [k \in Positions |-> Junk] /\ executing' = None
        /\ out' = NoMessage /\ answers' = <<>> /\ clean' = FALSE
    BY <1>3 DEF RotResets
  <2>2. Junk.id = 0 /\ NoMessage.req.id = 0 /\ None = 0
    BY DEF Junk, Cell, None, NoMessage, NoRequest
  <2>3. TypeOK'
    <3>1. \A k \in Positions : mailbox'[k] = Junk
      BY <2>1
    <3>2. 0 \in 0 .. request.id
      BY <1>1
    <3>3. mailbox' = [k \in Positions |-> mailbox'[k]]
      BY <2>1
    <3>4. /\ \A k \in Positions : mailbox'[k].id \in 0 .. request.id
          /\ executing' \in 0 .. request.id /\ out'.req.id \in 0 .. request.id
      BY <2>1, <2>2, <3>1, <3>2
    <3>5. QED
      BY <1>1, <2>1, <3>3, <3>4 DEF MailboxInv, TypeOK
  <2>4. Places'
    BY <1>1, <2>1 DEF MailboxInv, Places
  <2>5. QED
    BY <2>1, <2>3, <2>4 DEF MailboxInv, WholeAnswer
<1>4. CASE RotHandlesWrite
  <2>1. /\ out.type = "write" /\ Write(out.req, out.at, out.n)
        /\ answers' = Append(answers, [ok |-> executing = None, cells |-> <<>>])
        /\ out' = NoMessage /\ clean' = clean
    BY <1>4 DEF RotHandlesWrite, callVars
  <2>2. out # NoMessage /\ NoMessage.req.id = 0
    BY <2>1 DEF NoMessage, NoRequest, None
  <2>3. TypeOK'
    <3>1. /\ mailbox' = [k \in Positions |-> mailbox'[k]]
          /\ \A k \in Positions : mailbox'[k].id \in 0 .. request.id
          /\ executing' \in 0 .. request.id
      <4>1. out.req.id \in 0 .. request.id /\ TypeOK
        BY DEF MailboxInv, TypeOK
      <4>2. QED
        BY <2>1, <4>1, WriteTyped
    <3>2. QED
      BY <1>1, <2>1, <2>2, <3>1 DEF MailboxInv, TypeOK
  <2>4. Places'
    BY <1>1, <2>1, <2>2 DEF MailboxInv, Places
  <2>5. clean' => Writing' /\ Reading'
    <3> SUFFICES ASSUME clean PROVE Writing' /\ Reading'
      BY <2>1
    <3>1. CASE pc = "ack"
      <4>1. /\ offset \in 0 .. request.size - 1
            /\ out = Message("write", WritePiece) /\ answers = <<>>
            /\ Unwritten(offset)
        BY <2>2, <3>1 DEF MailboxInv, Writing
      <4>2. /\ request.id # None /\ request.size \in RequestSizes
            /\ request.size \in Nat /\ WriteMax \in Nat \ {0}
        BY <3>1, SizesFit, ConstantsAreNumbers DEF MailboxInv, Places
      <4>3. /\ WritePiece \in Nat \ {0} /\ offset \in Nat
            /\ offset + WritePiece <= request.size
        BY <4>1, <4>2 DEF WritePiece, MinOf
      <4>4. PICK w \in Nat, m \in Nat \ {0} : w = offset /\ m = WritePiece
        BY <4>3
      <4>5. out.req = request /\ out.at = w /\ out.n = m
        BY <4>1, <4>4 DEF Message
      <4>6. Sent(w + m)'
        BY <1>1, <2>1, <4>1, <4>2, <4>3, <4>4, <4>5, WriteSends
      <4>7. offset' + WritePiece' = w + m
        BY <1>1, <4>4 DEF WritePiece
      <4>8. Sent(offset + WritePiece)'
        BY <4>6, <4>7 DEF Sent, Unwritten
      <4>9. executing = None
        BY <4>1 DEF Unwritten
      <4>10. answers' = <<Ack>>
        <5>1. [ok |-> executing = None, cells |-> <<>>] = Ack
          BY <4>9, Zenon DEF Ack
        <5>2. QED
          BY <2>1, <4>1, <5>1, FirstAnswer
      <4>11. QED
        BY <1>1, <2>1, <3>1, <4>1, <4>8, <4>10 DEF Writing, Reading
    <3>2. pc = "ack" \/ pc = "idle"
      <4>1. transport = "usb"
        BY <2>2 DEF MailboxInv, Places
      <4>2. pc # "write" /\ pc # "read"
        BY <2>2 DEF MailboxInv, Writing, Reading, Quiet
      <4>3. pc # "data"
        BY <2>1, <2>2 DEF MailboxInv, Reading, Message
      <4>4. QED
        BY <4>1, <4>2, <4>3 DEF MailboxInv, TypeOK, Places
    <3>3. CASE pc = "idle"
      BY <1>1, <3>3 DEF Writing, Reading
    <3>4. QED
      BY <3>1, <3>2, <3>3
  <2>6. WholeAnswer'
    BY <1>1, <2>1 DEF MailboxInv, WholeAnswer
  <2>7. QED
    BY <2>3, <2>4, <2>5, <2>6 DEF MailboxInv
<1>5. CASE RotHandlesRead
  <2>1. /\ out.type = "read" /\ executing = None
        /\ answers' = Append(answers,
                             [ok |-> TRUE,
                              cells |-> [k \in 1 .. out.n |->
                                            mailbox[out.at + k - 1]]])
        /\ out' = NoMessage /\ UNCHANGED <<clean, mailbox, executing>>
    BY <1>5 DEF RotHandlesRead, callVars, rotVars
  <2>2. out # NoMessage /\ NoMessage.req.id = 0
    BY <2>1 DEF NoMessage, NoRequest, None
  <2>3. TypeOK'
    BY <1>1, <2>1, <2>2 DEF MailboxInv, TypeOK
  <2>4. Places'
    BY <1>1, <2>1, <2>2 DEF MailboxInv, Places
  <2>5. clean' => Writing' /\ Reading'
    <3> SUFFICES ASSUME clean PROVE Writing' /\ Reading'
      BY <2>1
    <3>1. CASE pc = "data"
      <4>1. /\ ReadingUsb /\ out = Message("read", ReadShare) /\ answers = <<>>
            /\ request.id # None
        BY <2>2, <3>1 DEF MailboxInv, Reading, Places
      <4>2. Answered
        BY <2>1, <4>1 DEF ReadingUsb, Working, Answered
      <4>3. Answered' /\ (Working => Working')
        BY <1>1, <2>1, <4>2, RotKept
      <4>4. ReadingUsb'
        <5>1. CASE offset = 0 /\ expected = ResponseSize /\ Working
          BY <1>1, <4>3, <5>1 DEF ReadingUsb
        <5>2. ASSUME NEW len \in 0 .. MaxData, AnsweredWith(len),
                     expected = MinOf(ResponseSize, HeaderSize + len),
                     offset \in HeaderSize .. expected - 1, Copied(offset)
              PROVE  ReadingUsb'
          <6>1. AnsweredWith(len)' /\ Copied(offset)'
            BY <1>1, <2>1, <5>2, RotKept DEF Copied
          <6>2. QED
            BY <1>1, <5>2, <6>1 DEF ReadingUsb
        <5>3. QED
          BY <4>1, <5>1, <5>2 DEF ReadingUsb
      <4>5. out.n = ReadShare /\ out.at = offset
        BY <4>1 DEF Message
      <4>6. answers' = <<Data>>
        <5>1. [ok |-> TRUE,
               cells |-> [k \in 1 .. out.n |-> mailbox[out.at + k - 1]]] = Data
          BY <4>5 DEF Data
        <5>2. QED
          BY <2>1, <4>1, <5>1, FirstAnswer
      <4>7. Data' = Data
        BY <1>1, <2>1 DEF Data, ReadShare
      <4>8. QED
        BY <1>1, <2>1, <3>1, <4>3, <4>4, <4>6, <4>7 DEF Writing, Reading
    <3>2. pc = "data" \/ pc = "idle"
      <4>1. transport = "usb"
        BY <2>2 DEF MailboxInv, Places
      <4>2. pc # "write" /\ pc # "read"
        BY <2>2 DEF MailboxInv, Writing, Reading, Quiet
      <4>3. pc # "ack"
        BY <2>1, <2>2 DEF MailboxInv, Writing, Message
      <4>4. QED
        BY <4>1, <4>2, <4>3 DEF MailboxInv, TypeOK, Places
    <3>3. CASE pc = "idle"
      BY <1>1, <3>3 DEF Writing, Reading
    <3>4. QED
      BY <3>1, <3>2, <3>3
  <2>6. WholeAnswer'
    BY <1>1, <2>1 DEF MailboxInv, WholeAnswer
  <2>7. QED
    BY <2>3, <2>4, <2>5, <2>6 DEF MailboxInv
<1>6. QED
  BY <1>2, <1>3, <1>4, <1>5 DEF Rot

\* Every step of the client and of the RoT keeps the invariant.
LEMMA MailboxStep == MailboxInv /\ [Next]_vars => MailboxInv'
<1> SUFFICES ASSUME MailboxInv, [Next]_vars PROVE MailboxInv'
  OBVIOUS
<1>1. CASE Client
  BY <1>1, SendStep, ProgramStep, BusyWaitStep, AtomicStep, ReadStep,
     UsbWriteStep, UsbReadStep, FailStep DEF Client
<1>2. CASE Rot
  BY <1>2, RotStep
<1>3. CASE UNCHANGED vars
  <2>1. UNCHANGED <<transport, pc, result, actual_size, offset, expected,
                    response, request, clean, buffered, out, answers, mailbox,
                    executing>>
    BY <1>3 DEF vars, resultVars, readVars, callVars, usbVars, rotVars
  <2>2. TypeOK' /\ Places' /\ WholeAnswer'
    BY <2>1 DEF MailboxInv, TypeOK, Places, WholeAnswer
  <2>3. clean => Writing'
    BY <2>1 DEF MailboxInv, Writing, Sent, Unwritten, Working, Answered,
       AnsweredWith, Quiet, Message, WritePiece
  <2>4. clean => Reading'
    BY <2>1 DEF MailboxInv, Reading, Working, Answered, AnsweredWith, Quiet,
       Message, ReadShare, ReadingUsb, Copied, Data
  <2>5. QED
    BY <2>1, <2>2, <2>3, <2>4 DEF MailboxInv
<1>4. QED
  BY <1>1, <1>2, <1>3 DEF Next

\* The invariant of the mailbox transports holds always.
THEOREM MailboxInvariant == Spec => []MailboxInv
  BY MailboxInit, MailboxStep, PTL DEF Spec

\* A host command over the USB mailbox, SPI (in steps or atomic) or MTD that
\* begins while the RoT is quiet and reports success has the response to its
\* own request, whole, or cut at the end of the buffer over USB.
THEOREM AnswersStayWhole == Spec => []WholeAnswer
<1>1. MailboxInv => WholeAnswer
  BY DEF MailboxInv
<1>2. QED
  BY <1>1, MailboxInvariant, PTL

\* spi_dev->buffered_request outlives no call, however the call ended: the next
\* one is not refused as busy and sends its own request.
THEOREM BufferedStaysThisCalls == Spec => []BufferedRequestIsThisCalls
<1>1. MailboxInv => BufferedRequestIsThisCalls
  BY DEF MailboxInv, TypeOK, Places, BufferedRequestIsThisCalls
<1>2. QED
  BY <1>1, MailboxInvariant, PTL
-----------------------------------------------------------------------------
(* Framing host commands                                                   *)

\* What a built frame is like: a request on the wire, or an answer of the RoT.
IsFrame(f) ==
    /\ f \in Seq(Host!Byte) /\ Len(f) >= Host!FrameHeaderSize
    /\ f[1] = Version /\ f[4] = Len(f) - Host!FrameHeaderSize
    /\ Host!ByteSum(f) = 0

\* At each place of libhoth_hostcmd_exec_v2(): what is on the wire, what the RoT
\* answered and what of that was received.
HostInv ==
    /\ host_call \in Host!Calls
    /\ host_pc \in {"idle", "sent", "answered", "received", "returned"}
    /\ wire # <<>> => IsFrame(wire)
    /\ host_pc \in {"answered", "received"} => IsFrame(answer)
    /\ host_pc = "received" => frame \in Host!Damaged(answer)
    /\ host_pc # "returned" => resp_buf = <<>>
    /\ Host!DamageIsDetected /\ Host!CallerGetsPayload

LEMMA HostSizes ==
    /\ Base \in Nat /\ Base > 1 /\ Version \in Host!Byte
    /\ Commands \subseteq Host!Byte /\ MaxPayload \in Host!Byte
    /\ Host!Byte = 0 .. Base - 1 /\ 0 \in Host!Byte
BY TransportAssumption DEF Host!HostCmdAssumption, Host!Byte

\* A set of numbers that is not empty has a least one.
LEMMA LeastNumber ==
    ASSUME NEW T, T \subseteq Nat, T # {}
    PROVE  \E x \in T : \A y \in T : x <= y
<1> DEFINE R == OpToRel(<, Nat)
<1>1. IsWellFoundedOn(R, Nat)
  BY NatLessThanWellFounded
<1>2. PICK x \in T : \A y \in T : ~(<<y, x>> \in R)
  <2> HIDE DEF R
  <2> QED
    BY <1>1, WFMin
<1>3. ASSUME NEW y \in T PROVE x <= y
  <2>1. x \in Nat /\ y \in Nat
    OBVIOUS
  <2>2. ~(y < x)
    BY <1>2, <2>1 DEF OpToRel
  <2>3. QED
    BY <2>1, <2>2
<1>4. QED
  BY <1>3

\* Induction over numbers, for a set of them: one that holds 0 and with n also
\* n + 1, up to a bound, holds all of them.
LEMMA Counting ==
    ASSUME NEW T, NEW N \in Nat, 0 \in T,
           \A n \in 0 .. N - 1 : n \in T => n + 1 \in T
    PROVE  \A n \in 0 .. N : n \in T
<1> SUFFICES ASSUME {n \in 0 .. N : n \notin T} # {} PROVE FALSE
  OBVIOUS
<1>1. PICK m \in {n \in 0 .. N : n \notin T} :
         \A n \in {k \in 0 .. N : k \notin T} : m <= n
  <2>1. {n \in 0 .. N : n \notin T} \subseteq Nat
    OBVIOUS
  <2>2. QED
    BY <2>1, LeastNumber
<1>2. m - 1 \in 0 .. N - 1 /\ m - 1 \in T
  BY <1>1
<1>3. QED
  BY <1>1, <1>2

\* The loop of libhoth_calculate_checksum() computes a sum after each byte.
LEMMA SumsExist ==
    ASSUME NEW s \in Seq(Host!Byte)
    PROVE  \E f : f = [n \in 0 .. Len(s) |->
                         IF n = 0 THEN 0 ELSE (f[n - 1] + s[n]) % Base]
<1> DEFINE Fits(f, k) == f = [n \in 0 .. k |->
                               IF n = 0 THEN 0 ELSE (f[n - 1] + s[n]) % Base]
           T == {k \in 0 .. Len(s) : \E f : Fits(f, k)}
<1>1. 0 \in T
  <2>1. Fits([n \in {0} |-> 0], 0)
    OBVIOUS
  <2> HIDE DEF Fits
  <2>2. QED
    BY <2>1
<1>2. ASSUME NEW k \in 0 .. Len(s) - 1, k \in T PROVE k + 1 \in T
  <2>1. PICK f : Fits(f, k)
    BY <1>2
  <2> DEFINE g == [n \in 0 .. k + 1 |->
                     IF n = k + 1 THEN (f[k] + s[k + 1]) % Base ELSE f[n]]
  <2>2. \A n \in 0 .. k : f[n] = IF n = 0 THEN 0 ELSE (f[n - 1] + s[n]) % Base
    BY <2>1
  <2>3. \A n \in 0 .. k + 1 :
           g[n] = IF n = 0 THEN 0 ELSE (g[n - 1] + s[n]) % Base
    BY <2>2
  <2>4. Fits(g, k + 1)
    BY <2>3
  <2> HIDE DEF Fits, g
  <2>5. QED
    BY <2>4
<1>3. Len(s) \in T
  <2>1. Len(s) \in Nat
    OBVIOUS
  <2> HIDE DEF T
  <2>2. \A n \in 0 .. Len(s) : n \in T
    BY <1>1, <1>2, <2>1, Counting
  <2>3. QED
    BY <2>1, <2>2
<1>4. QED
  BY <1>3

\* What the loop's sum is after each byte.
LEMMA SumsAre ==
    ASSUME NEW s \in Seq(Host!Byte)
    PROVE  LET f == Host!PartialSums(s)
           IN  /\ f[0] = 0
               /\ \A n \in 1 .. Len(s) : f[n] = (f[n - 1] + s[n]) % Base
<1>1. Host!PartialSums(s) =
         [n \in 0 .. Len(s) |-> IF n = 0 THEN 0
                                ELSE (Host!PartialSums(s)[n - 1] + s[n]) % Base]
  BY SumsExist DEF Host!PartialSums
<1> DEFINE f == Host!PartialSums(s)
<1> HIDE DEF f
<1>2. \A n \in 0 .. Len(s) : f[n] = IF n = 0 THEN 0 ELSE (f[n - 1] + s[n]) % Base
  BY <1>1 DEF f
<1>3. QED
  BY <1>2 DEF f

\* Two bytes added as bytes.
LEMMA AddBytes ==
    ASSUME NEW x \in Host!Byte, NEW y \in Host!Byte
    PROVE  /\ (x + y) % Base \in {x + y, x + y - Base}
           /\ (x + y) % Base \in Host!Byte
<1>1. (x + y) % Base = IF x + y < Base THEN x + y ELSE x + y - Base
  BY HostSizes
<1>2. QED
  BY <1>1, HostSizes

\* Adding the same byte to two sums keeps their difference, as bytes go.
LEMMA AddToBoth ==
    ASSUME NEW B \in Nat, NEW x \in 0 .. B - 1, NEW y \in 0 .. B - 1,
           NEW c \in Int, NEW e \in Int, NEW d \in -(B - 1) .. B - 1,
           NEW u \in 0 .. B - 1, NEW v \in 0 .. B - 1,
           u \in {x + c, x + c - B}, v \in {y + e, y + e - B},
           (y + e) - (x + c) - d \in {-B, 0, B}
    PROVE  v - u - d \in {-B, 0, B}
OBVIOUS

LEMMA SumsAreBytes ==
    ASSUME NEW s \in Seq(Host!Byte)
    PROVE  \A n \in 0 .. Len(s) : Host!PartialSums(s)[n] \in Host!Byte
<1> DEFINE f == Host!PartialSums(s)
           T == {n \in 0 .. Len(s) : f[n] \in Host!Byte}
<1>1. 0 \in T
  BY SumsAre, HostSizes
<1>2. ASSUME NEW n \in 0 .. Len(s) - 1, n \in T PROVE n + 1 \in T
  <2>1. f[n + 1] = (f[n] + s[n + 1]) % Base
    BY SumsAre
  <2>2. s[n + 1] \in Host!Byte /\ f[n] \in Host!Byte
    BY <1>2
  <2>3. (f[n] + s[n + 1]) % Base \in Host!Byte
    BY <2>2, AddBytes
  <2>4. QED
    BY <2>1, <2>3
<1>3. \A n \in 0 .. Len(s) : n \in T
  <2> HIDE DEF T
  <2> QED
    BY <1>1, <1>2, Counting
<1>4. QED
  BY <1>3

\* Changing one byte changes the sum by the difference, as bytes go.
LEMMA SumOfChanged ==
    ASSUME NEW s \in Seq(Host!Byte), NEW p \in 1 .. Len(s), NEW b \in Host!Byte
    PROVE  LET g == [s EXCEPT ![p] = b]
           IN  Host!ByteSum(g) - Host!ByteSum(s) - (b - s[p]) \in {-Base, 0, Base}
<1> DEFINE g == [s EXCEPT ![p] = b]
           F == Host!PartialSums(s)
           G == Host!PartialSums(g)
           Differ(n) == G[n] - F[n] - (b - s[p]) \in {-Base, 0, Base}
           T == {n \in 0 .. Len(s) : IF n < p THEN G[n] = F[n] ELSE Differ(n)}
<1>1. /\ g \in Seq(Host!Byte) /\ Len(g) = Len(s) /\ g[p] = b
      /\ \A n \in 1 .. Len(s) : n # p => g[n] = s[n]
  OBVIOUS
<1> HIDE DEF g
<1>2. 0 \in T
  BY <1>1, SumsAre
<1>3. ASSUME NEW n \in 0 .. Len(s) - 1, n \in T PROVE n + 1 \in T
  <2>1. /\ F[n + 1] = (F[n] + s[n + 1]) % Base
        /\ G[n + 1] = (G[n] + g[n + 1]) % Base
    BY <1>1, SumsAre
  <2>2. /\ F[n] \in Host!Byte /\ G[n] \in Host!Byte
        /\ s[n + 1] \in Host!Byte /\ g[n + 1] \in Host!Byte /\ s[p] \in Host!Byte
    BY <1>1, SumsAreBytes
  <2>3. /\ F[n + 1] \in {F[n] + s[n + 1], F[n] + s[n + 1] - Base}
        /\ G[n + 1] \in {G[n] + g[n + 1], G[n] + g[n + 1] - Base}
        /\ F[n + 1] \in Host!Byte /\ G[n + 1] \in Host!Byte
    <3>1. F[n + 1] \in Host!Byte /\ G[n + 1] \in Host!Byte
      BY <1>1, SumsAreBytes
    <3>2. QED
      BY <2>1, <2>2, <3>1, AddBytes
  <2> DEFINE d == b - s[p]
  <2>8. /\ F[n] \in 0 .. Base - 1 /\ G[n] \in 0 .. Base - 1
        /\ F[n + 1] \in 0 .. Base - 1 /\ G[n + 1] \in 0 .. Base - 1
        /\ s[n + 1] \in 0 .. Base - 1 /\ g[n + 1] \in 0 .. Base - 1
        /\ s[p] \in 0 .. Base - 1 /\ b \in 0 .. Base - 1 /\ Base \in Nat
    BY <2>2, <2>3, HostSizes
  <2> HIDE DEF F, G
  <2>9. d \in -(Base - 1) .. Base - 1 /\ s[n + 1] \in Int /\ g[n + 1] \in Int
    BY <2>8
  <2>4. CASE n + 1 < p
    BY <1>1, <1>3, <2>1, <2>4
  <2>5. CASE n + 1 = p
    <3>1. G[n] = F[n] /\ g[n + 1] = b
      BY <1>1, <1>3, <2>5
    <3>2. (G[n] + g[n + 1]) - (F[n] + s[n + 1]) - d \in {-Base, 0, Base}
      BY <2>5, <2>8, <3>1
    <3>4. Differ(n + 1)
      <4> HIDE DEF d
      <4>1. G[n + 1] - F[n + 1] - d \in {-Base, 0, Base}
        BY <2>3, <2>8, <2>9, <3>2, AddToBoth
      <4>2. QED
        BY <4>1 DEF d
    <3>5. QED
      BY <2>5, <3>4
  <2>6. CASE n + 1 > p
    <3>1. Differ(n) /\ g[n + 1] = s[n + 1]
      BY <1>1, <1>3, <2>6
    <3>2. (G[n] + g[n + 1]) - (F[n] + s[n + 1]) - d \in {-Base, 0, Base}
      BY <2>8, <3>1
    <3>4. Differ(n + 1)
      <4> HIDE DEF d
      <4>1. G[n + 1] - F[n + 1] - d \in {-Base, 0, Base}
        BY <2>3, <2>8, <2>9, <3>2, AddToBoth
      <4>2. QED
        BY <4>1 DEF d
    <3>5. QED
      BY <2>6, <3>4
  <2>7. QED
    BY <2>4, <2>5, <2>6
<1>4. Len(s) \in T
  <2>1. Len(s) \in Nat
    OBVIOUS
  <2> HIDE DEF T
  <2>2. \A n \in 0 .. Len(s) : n \in T
    BY <1>2, <1>3, <2>1, Counting
  <2>3. QED
    BY <2>1, <2>2
<1>5. QED
  BY <1>1, <1>4 DEF Host!ByteSum, g


\* The checksum of bytes that add up to nothing is zero, and only of those.
LEMMA ChecksumIsZero ==
    ASSUME NEW s \in Seq(Host!Byte)
    PROVE  /\ Host!ByteSum(s) \in 0 .. Base - 1
           /\ Host!CalculateChecksum(s) =
                 IF Host!ByteSum(s) = 0 THEN 0 ELSE Base - Host!ByteSum(s)
<1>1. Len(s) \in 0 .. Len(s)
  OBVIOUS
<1>2. Host!ByteSum(s) \in 0 .. Base - 1
  BY <1>1, SumsAreBytes, HostSizes DEF Host!ByteSum
<1>3. ASSUME NEW x \in 0 .. Base - 1
      PROVE  (Base - x) % Base = IF x = 0 THEN 0 ELSE Base - x
  <2>1. Base \in Nat /\ Base > 1
    BY HostSizes
  <2>2. QED
    BY <2>1
<1>4. QED
  BY <1>2, <1>3 DEF Host!CalculateChecksum

\* populate_ec_request_header(), and the RoT, build frames that add up to nothing.
LEMMA FrameBuilt ==
    ASSUME NEW third \in Host!Byte, NEW payload \in Seq(Host!Byte),
           Len(payload) <= MaxPayload
    PROVE  /\ IsFrame(Host!BuildFrame(third, payload))
           /\ Host!BuildFrame(third, payload)[3] = third
<1> DEFINE blank == <<Version, 0, third, Len(payload)>> \o payload
           c == Host!CalculateChecksum(blank)
           f == [blank EXCEPT ![2] = c]
<1>1. Len(payload) \in Host!Byte /\ 0 \in Host!Byte
  BY HostSizes
<1>2. /\ blank \in Seq(Host!Byte) /\ Len(blank) = 4 + Len(payload)
      /\ blank[1] = Version /\ blank[2] = 0 /\ blank[3] = third
      /\ blank[4] = Len(payload)
  <2>1. <<Version, 0, third, Len(payload)>> \in Seq(Host!Byte)
    BY <1>1, HostSizes
  <2>2. QED
    BY <2>1
<1> HIDE DEF blank
<1>3. c \in Host!Byte
  <2>1. /\ Host!ByteSum(blank) \in 0 .. Base - 1
        /\ c = IF Host!ByteSum(blank) = 0 THEN 0 ELSE Base - Host!ByteSum(blank)
    BY <1>2, ChecksumIsZero
  <2> HIDE DEF c
  <2>2. c \in 0 .. Base - 1
    BY <2>1, HostSizes
  <2>3. QED
    BY <2>2, HostSizes
<1>4. /\ f \in Seq(Host!Byte) /\ Len(f) = 4 + Len(payload)
      /\ f[1] = Version /\ f[3] = third /\ f[4] = Len(payload)
  BY <1>2, <1>3
<1>5. Host!ByteSum(f) = 0
  <2>1. Host!ByteSum(f) - Host!ByteSum(blank) - (c - blank[2]) \in {-Base, 0, Base}
    <3>1. 2 \in 1 .. Len(blank)
      BY <1>2
    <3>2. QED
      BY <1>2, <1>3, <3>1, SumOfChanged
  <2>2. /\ Host!ByteSum(f) \in 0 .. Base - 1
        /\ Host!ByteSum(blank) \in 0 .. Base - 1
        /\ c = IF Host!ByteSum(blank) = 0 THEN 0 ELSE Base - Host!ByteSum(blank)
    BY <1>2, <1>4, ChecksumIsZero
  <2> HIDE DEF c, f
  <2>3. QED
    BY <1>2, <2>1, <2>2, HostSizes
<1>6. f = Host!BuildFrame(third, payload)
  BY DEF Host!BuildFrame, blank
<1> HIDE DEF f
<1>7. Len(payload) \in Nat
  OBVIOUS
<1>8. QED
  BY <1>4, <1>5, <1>6, <1>7 DEF IsFrame, Host!FrameHeaderSize

\* validate_ec_response_header() finds every damaged byte and every cut.
LEMMA DamageFound ==
    ASSUME NEW a, IsFrame(a), NEW f \in Host!Damaged(a), Host!ValidResponse(f)
    PROVE  f = a
<1>1. /\ a \in Seq(Host!Byte) /\ Len(a) >= 4 /\ a[4] = Len(a) - 4
      /\ Host!ByteSum(a) = 0 /\ Len(a) \in Nat
  BY DEF IsFrame, Host!FrameHeaderSize
<1>2. ASSUME NEW n \in DOMAIN a, NEW b \in Host!Byte, f = [a EXCEPT ![n] = b],
             b # a[n]
      PROVE  FALSE
  <2>1. f \in Seq(Host!Byte) /\ n \in 1 .. Len(a) /\ a[n] \in Host!Byte
    BY <1>1, <1>2
  <2>2. Host!ByteSum(f) - Host!ByteSum(a) - (b - a[n]) \in {-Base, 0, Base}
    BY <1>1, <1>2, <2>1, SumOfChanged
  <2>3. Host!ByteSum(f) = 0
    <3>1. Host!CalculateChecksum(f) = 0
      BY DEF Host!ValidResponse
    <3>2. QED
      BY <2>1, <3>1, ChecksumIsZero, HostSizes
  <2>4. a[n] \in 0 .. Base - 1 /\ b \in 0 .. Base - 1 /\ Base \in Nat
    BY <2>1, HostSizes
  <2>5. QED
    BY <1>1, <1>2, <2>2, <2>3, <2>4
<1>3. ASSUME NEW n \in 0 .. Len(a), f = SubSeq(a, 1, n) PROVE f = a
  <2>1. Len(f) = n /\ n >= 4 /\ f[4] = n - 4
    <3>1. Len(f) = n
      BY <1>1, <1>3
    <3>2. QED
      BY <3>1 DEF Host!ValidResponse, Host!FrameHeaderSize
  <2>2. f[4] = a[4]
    BY <1>1, <1>3, <2>1
  <2>3. n = Len(a)
    BY <1>1, <2>1, <2>2
  <2>4. QED
    BY <1>1, <1>3, <2>3
<1>4. QED
  <2>1. CASE f = a
    BY <2>1
  <2>2. CASE \E n \in DOMAIN a, b \in Host!Byte : f = [a EXCEPT ![n] = b]
    <3>1. PICK n \in DOMAIN a, b \in Host!Byte : f = [a EXCEPT ![n] = b]
      BY <2>2
    <3>2. b = a[n]
      BY <1>2, <3>1
    <3>3. QED
      BY <1>1, <3>1, <3>2
  <2>3. CASE \E n \in 0 .. Len(a) : f = SubSeq(a, 1, n)
    BY <1>3, <2>3
  <2>4. QED
    BY <2>1, <2>2, <2>3 DEF Host!Damaged

\* What the tests after the receive let through as a success.
LEMMA SuccessPasses ==
    ASSUME NEW f, host_call \in Host!Calls, Host!Outcome(f) = Host!Success
    PROVE  /\ Host!ValidResponse(f) /\ Host!ResultOf(f) = 0
           /\ IF host_call.sized
              THEN ~(Len(f) - Host!FrameHeaderSize > host_call.buf_size)
              ELSE Len(f) - Host!FrameHeaderSize = host_call.buf_size
<1>1. \A c : /\ Host!LibhothError(c) # Host!Success
             /\ Host!Error("PIEROT_ERR", c) # Host!Success
             /\ Host!Error("EC", c) # Host!Success
  BY DEF Host!LibhothError, Host!Error, Host!Success
<1> DEFINE size == Len(f) - Host!FrameHeaderSize
<1>2. Host!ValidResponse(f)
  BY <1>1 DEF Host!Outcome
<1>3. Host!ResultOf(f) = 0
  <2> SUFFICES ASSUME Host!ResultOf(f) # 0 PROVE FALSE
    OBVIOUS
  <2>1. ErrorSize \in Nat /\ size \in Int
    BY <1>2, TransportAssumption
       DEF Host!HostCmdAssumption, Host!ValidResponse, Host!FrameHeaderSize
  <2>2. CASE size >= ErrorSize
    BY <1>1, <1>2, <2>2 DEF Host!Outcome
  <2>3. CASE size < ErrorSize
    BY <1>1, <1>2, <2>1, <2>3 DEF Host!Outcome
  <2>4. QED
    BY <2>1, <2>2, <2>3
<1>4. QED
  BY <1>1, <1>2, <1>3 DEF Host!Outcome, Host!Calls

LEMMA PayloadLength ==
    ASSUME NEW f \in Seq(Host!Byte), NEW n \in Nat, n = Len(f), n >= 4
    PROVE  Len(Host!PayloadOf(f)) = n - 4
<1>1. \A m \in 5 .. n : f[m] \in Host!Byte
  OBVIOUS
<1>2. Len(SubSeq(f, 5, n)) = IF 5 <= n THEN n - 5 + 1 ELSE 0
  BY <1>1, SubSeqProperties
<1>3. n - 4 = IF 5 <= n THEN n - 5 + 1 ELSE 0
  OBVIOUS
<1>4. Host!PayloadOf(f) = SubSeq(f, 5, n)
  BY DEF Host!PayloadOf, Host!FrameHeaderSize
<1>5. QED
  BY <1>2, <1>3, <1>4

LEMMA HostInit == ASSUME Host!Init PROVE HostInv
<1>1. host_call \in Host!Calls /\ host_call.buf_size \in Nat
  BY HostSizes DEF Host!Init, Host!Calls
<1>2. QED
  BY <1>1 DEF Host!Init, HostInv, Host!DamageIsDetected, Host!CallerGetsPayload

\* One step of a host command.
LEMMA HostStep == ASSUME HostInv, [Host!Next]_hostVars PROVE HostInv'
<1> USE DEF HostInv
<1>0. host_call.buf_size \in Nat
  BY HostSizes DEF Host!Calls
<1>1. CASE Host!RequestTooLarge \/ Host!TransportFails
  <2>1. Host!LibhothError("OUT_UNDERFLOW") # Host!Success
        /\ Host!LibhothError("TIMEOUT") # Host!Success
    BY DEF Host!LibhothError, Host!Error, Host!Success
  <2>2. QED
    BY <1>0, <1>1, <2>1
       DEF Host!RequestTooLarge, Host!TransportFails, Host!Return,
           Host!DamageIsDetected, Host!CallerGetsPayload
<1>2. CASE Host!SendRequest
  <2> DEFINE zeroes == [n \in 1 .. host_call.size |-> 0]
  <2>1. host_call.size \in Nat /\ host_call.size <= MaxPayload
    BY <1>2, HostSizes DEF Host!Calls, Host!SendRequest
  <2>5. host_call.command \in Host!Byte /\ 0 \in Host!Byte
    <3>1. host_call.command \in Commands
      BY DEF Host!Calls
    <3>2. QED
      BY <3>1, HostSizes
  <2>2. zeroes \in Seq(Host!Byte) /\ Len(zeroes) = host_call.size
    BY <2>1, <2>5
  <2>3. IsFrame(wire')
    BY <1>2, <2>1, <2>2, <2>5, FrameBuilt DEF Host!SendRequest
  <2>4. QED
    BY <1>0, <1>2, <2>3
       DEF Host!SendRequest, Host!DamageIsDetected, Host!CallerGetsPayload
<1>3. ASSUME NEW r \in Host!Byte, NEW payload \in Host!Payload,
             Host!RotAnswers(r, payload)
      PROVE  HostInv'
  <2>1. PICK n \in 0 .. MaxPayload : payload \in [1 .. n -> Host!Byte]
    BY DEF Host!Payload
  <2>2. payload \in Seq(Host!Byte) /\ Len(payload) = n
    BY <2>1, HostSizes
  <2>3. IsFrame(answer')
    BY <1>3, <2>2, FrameBuilt, HostSizes DEF Host!RotAnswers
  <2>4. QED
    BY <1>0, <1>3, <2>3
       DEF Host!RotAnswers, Host!DamageIsDetected, Host!CallerGetsPayload
<1>4. ASSUME NEW f \in Host!Damaged(answer), Host!ReceiveResponse(f)
      PROVE  HostInv'
  BY <1>0, <1>4
     DEF Host!ReceiveResponse, Host!DamageIsDetected, Host!CallerGetsPayload
<1>5. CASE Host!Finish
  <2>1. /\ host_pc = "received" /\ host_pc' = "returned"
        /\ err' = Host!Outcome(frame)
        /\ UNCHANGED <<host_call, wire, answer, frame>>
        /\ resp_buf' = IF Host!Outcome(frame) = Host!Success
                       THEN Host!PayloadOf(frame) ELSE resp_buf
        /\ resp_buf = <<>>
    BY <1>5 DEF Host!Finish, Host!Return
  <2>2. CASE Host!Outcome(frame) = Host!Success
    <3>1. /\ Host!ValidResponse(frame) /\ Host!ResultOf(frame) = 0
          /\ IF host_call.sized
             THEN ~(Len(frame) - Host!FrameHeaderSize > host_call.buf_size)
             ELSE Len(frame) - Host!FrameHeaderSize = host_call.buf_size
      BY <2>2, SuccessPasses
    <3>2. frame = answer
      BY <2>1, <3>1, DamageFound
    <3>3. /\ answer \in Seq(Host!Byte) /\ Len(answer) >= 4
      BY <2>1 DEF IsFrame, Host!FrameHeaderSize
    <3>4. Len(Host!PayloadOf(frame)) = Len(frame) - 4
      BY <3>2, <3>3, PayloadLength
    <3>5. Len(resp_buf') <= host_call'.buf_size
      BY <1>0, <2>1, <2>2, <3>1, <3>2, <3>3, <3>4 DEF Host!FrameHeaderSize
    <3>6. QED
      BY <2>1, <2>2, <3>1, <3>2, <3>5
         DEF Host!DamageIsDetected, Host!CallerGetsPayload, Host!PayloadOf
  <2>3. CASE Host!Outcome(frame) # Host!Success
    BY <1>0, <2>1, <2>3 DEF Host!DamageIsDetected, Host!CallerGetsPayload
  <2>4. QED
    BY <2>2, <2>3
<1>6. ASSUME NEW c \in Host!Calls, Host!NextCall(c) PROVE HostInv'
  <2>1. c.buf_size \in Nat
    BY HostSizes DEF Host!Calls
  <2>2. QED
    BY <1>6, <2>1
       DEF Host!NextCall, Host!DamageIsDetected, Host!CallerGetsPayload
<1>7. CASE UNCHANGED hostVars
  BY <1>7 DEF hostVars, Host!DamageIsDetected, Host!CallerGetsPayload
<1>8. QED
  BY <1>1, <1>2, <1>3, <1>4, <1>5, <1>6, <1>7 DEF Host!Next

\* The invariant of libhoth_hostcmd_exec_v2() holds always.
THEOREM HostInvariant == MCSpec => []HostInv
<1>1. MCInit => HostInv
  BY HostInit DEF MCInit
<1>2. HostInv /\ [MCNext]_<<kind, vars, hostVars, handleVars>> => HostInv'
  <2>1. [MCNext]_<<kind, vars, hostVars, handleVars>> => [Host!Next]_hostVars
    BY DEF MCNext
  <2>2. QED
    BY <2>1, HostStep
<1>3. QED
  BY <1>1, <1>2, PTL DEF MCSpec

\* Requests go out adding up to zero; libhoth_hostcmd_exec_v2() returns success
\* only for the very frame the RoT built, whichever byte the link damaged or
\* wherever it cut the response, and the caller's buffer then holds its payload.
THEOREM ExchangeStaysSound == MCSpec => []ExchangeIsSound
<1>1. HostInv => ExchangeIsSound
  BY DEF HostInv, ExchangeIsSound, Host!ExchangeIsSound,
         Host!RequestChecksumIsZero, IsFrame
<1>2. QED
  BY <1>1, HostInvariant, PTL
-----------------------------------------------------------------------------
(* The life of a USB handle                                                *)

Opening == {"descriptors", "open", "claim", "driver"}

HandleTypeOK ==
    /\ bus \in [Locations -> Devices \union {Null}]
    /\ usb_pc \in Opening \union {"closed", "search", "returned"}
    /\ usb_call \in {"open", "reconnect"}
    /\ usb_dev \in Usb!UsbDevice \union {Null}
    /\ usb_pc = "closed" => usb_dev = Null
    /\ usb_pc \in {"search", "returned", "open", "claim", "driver"} =>
          usb_dev \in Usb!UsbDevice
    /\ usb_pc = "descriptors" =>
          IF usb_call = "open" THEN usb_dev = Null ELSE usb_dev \in Usb!UsbDevice
    /\ usb_pc \in Opening => found \in [device : Devices, loc : Locations]
    /\ status # "none" => usb_pc \in {"closed", "returned"}

\* A search is part of a reconnect.
Calls == usb_pc = "search" => usb_call = "reconnect"

\* How far an open or a reconnect has come with the device it found.
Progress ==
    /\ usb_pc \in Opening => found.loc = asked
    /\ usb_pc \in {"descriptors", "open"} /\ usb_dev # Null => usb_dev.handle = Null
    /\ usb_pc \in {"open", "claim", "driver"} =>
          usb_dev.type = Usb!FindInterface(found.device)
    /\ usb_pc \in {"claim", "driver"} => usb_dev.handle = found.device
    /\ usb_pc = "driver" => usb_dev.claimed

\* What HandleIsUsable says of the device, also while a reconnect searches.
Usable(dev) ==
    dev.handle # Null =>
        /\ dev.claimed
        /\ dev.type \in {"mailbox", "fifo"}
        /\ Usb!Dispatch(dev) = Usb!FindInterface(dev.handle)
        /\ dev.type = "mailbox" => dev.data.mailbox = Usb!Endpoints
        /\ dev.type = "fifo" => /\ dev.data.fifo = Usb!Endpoints
                                /\ dev.data.memory = "live"

Fit == usb_pc \in {"search", "returned"} => Usable(usb_dev)

\* Closing leaves the driver's data as calloc() made it.
ClosesClean(dev) ==
    IF dev.handle = Null THEN dev.data = Usb!ZeroData
    ELSE dev.type = "mailbox" => dev.data.fifo = {} /\ dev.data.memory = "null"

\* As long as no driver's open failed in a reconnect, a driver finds the data
\* as calloc() made it.
Clean ==
    ~spoiled =>
        /\ usb_pc = "search" => ClosesClean(usb_dev)
        /\ usb_pc = "returned" /\ status \notin {"driver", "malloc"} =>
              ClosesClean(usb_dev)
        /\ usb_pc \in Opening /\ usb_dev # Null => usb_dev.data = Usb!ZeroData

\* The time waited is what was slept while it cannot wrap around.
Waiting ==
    /\ timeout_us \in 0 .. Space - 1
    /\ slept \in Nat /\ wait_time_us \in Nat
    /\ usb_pc # "open" => slept = 0 /\ wait_time_us = 0
    /\ timeout_us <= Space - Step => wait_time_us = slept

\* No driver can use the device.
Unfit(device) == ~Usb!FillEndpoints({}, device.endpoints).ok \/ ~device.fits

\* The inductive invariant.
UsbInv ==
    /\ HandleTypeOK /\ Calls /\ Progress /\ Fit /\ Clean /\ Waiting
    /\ Usb!OneHandle /\ Usb!SameLocation
    /\ Usb!RefusesOnlyUnusable /\ Usb!SleepsNoLonger
-----------------------------------------------------------------------------
(* What the operators compute                                              *)

\* The constants' types.
LEMMA ConstantsFacts ==
    ASSUME Usb!UsbAssumption
    PROVE  /\ Null \notin Devices /\ Null \notin Usb!UsbDevice
           /\ Space \in Nat /\ Step \in 1 .. Space - 1
           /\ \A t \in Timeouts : t \in 0 .. Space - 1
           /\ \A d \in Devices : d \in Usb!DeviceType
<1>1. /\ Null \notin Devices /\ Null \notin Usb!UsbDevice
      /\ Space \in Nat /\ Step \in 1 .. Space - 1
  BY DEF Usb!UsbAssumption
<1>2. \A t \in Timeouts : t \in 0 .. Space - 1
  BY Zenon DEF Usb!UsbAssumption
<1>3. \A d \in Devices : d \in Usb!DeviceType
  BY Zenon DEF Usb!UsbAssumption
<1>4. QED
  BY <1>1, <1>2, <1>3

\* The interface found is one of a known kind, or none.
LEMMA FindInterfaceType ==
    ASSUME Usb!UsbAssumption, NEW d \in Devices
    PROVE  Usb!FindInterface(d) \in {"unknown", "mailbox", "fifo"}
<1> DEFINE known == {n \in DOMAIN d.interfaces : d.interfaces[n] # "other"}
           first == CHOOSE n \in known : \A m \in known : n <= m
<1>1. d.interfaces \in Seq({"mailbox", "fifo", "other"})
  BY ConstantsFacts DEF Usb!DeviceType
<1>2. CASE known = {}
  BY <1>2 DEF Usb!FindInterface
<1>3. CASE known # {}
  <2>1. known \subseteq Nat
    BY <1>1
  <2>2. \E n \in known : \A m \in known : n <= m
    <3> HIDE DEF known
    <3> QED
      BY <1>3, <2>1, LeastNumber
  <2>3. first \in known
    <3> HIDE DEF known
    <3> QED
      BY <2>2
  <2>4. d.interfaces[first] \in {"mailbox", "fifo"}
    <3> HIDE DEF first
    <3> QED
      BY <1>1, <2>3
  <2>5. Usb!FindInterface(d) = d.interfaces[first]
    BY <1>3 DEF Usb!FindInterface
  <2>6. QED
    BY <2>4, <2>5
<1>4. QED
  BY <1>2, <1>3

\* The loop over the endpoints sets endpoint fields only, and all of them when
\* it succeeds.
LEMMA FillEndpointsFacts ==
    ASSUME Usb!UsbAssumption, NEW d \in Devices, NEW set \in SUBSET Usb!Endpoints
    PROVE  /\ Usb!FillEndpoints(set, d.endpoints).set \in SUBSET Usb!Endpoints
           /\ Usb!FillEndpoints(set, d.endpoints).ok =>
                 Usb!FillEndpoints(set, d.endpoints).set = Usb!Endpoints
<1> DEFINE e == d.endpoints
           again == {n \in DOMAIN e : \/ e[n] \in set
                                      \/ \E m \in 1 .. n - 1 : e[m] = e[n]}
           least == CHOOSE n \in again : \A m \in again : n <= m
           stop == IF again = {} THEN Len(e) + 1 ELSE least
           now == set \union {e[n] : n \in 1 .. stop - 1}
<1>1. e \in Seq(Usb!Endpoints)
  BY ConstantsFacts DEF Usb!DeviceType
<1>2. stop \in 1 .. Len(e) + 1
  <2>1. CASE again = {}
    BY <1>1, <2>1
  <2>2. CASE again # {}
    <3>1. again \subseteq Nat
      BY <1>1
    <3>2. \E n \in again : \A m \in again : n <= m
      <4> HIDE DEF again
      <4> QED
        BY <2>2, <3>1, LeastNumber
    <3>3. least \in again
      <4> HIDE DEF again
      <4> QED
        BY <3>2
    <3>4. stop = least
      BY <2>2
    <3>5. QED
      <4> HIDE DEF least
      <4> QED
        BY <1>1, <3>3, <3>4
  <2>3. QED
    BY <2>1, <2>2
<1>3. now \in SUBSET Usb!Endpoints
  <2> HIDE DEF stop
  <2>1. \A n \in 1 .. stop - 1 : e[n] \in Usb!Endpoints
    BY <1>1, <1>2
  <2>2. QED
    BY <2>1
<1>4. Usb!FillEndpoints(set, e) = [set |-> now, ok |-> again = {} /\ now = Usb!Endpoints]
  BY DEF Usb!FillEndpoints
<1> HIDE DEF now, again
<1>5. /\ Usb!FillEndpoints(set, e).set = now
      /\ Usb!FillEndpoints(set, e).ok = (again = {} /\ now = Usb!Endpoints)
  BY <1>4
<1>6. QED
  BY <1>3, <1>5

\* calloc() and releasing a handle.
LEMMA DeviceOps ==
    ASSUME Usb!UsbAssumption, NEW dev \in Usb!UsbDevice
    PROVE  /\ Usb!NewDevice \in Usb!UsbDevice /\ Usb!NewDevice.handle = Null
           /\ Usb!NewDevice.data = Usb!ZeroData
           /\ Usb!Unhandled(dev) \in Usb!UsbDevice /\ Usb!Unhandled(dev).handle = Null
           /\ Usb!Unhandled(dev).loc = dev.loc /\ Usb!Unhandled(dev).data = dev.data
           /\ dev # Null
  BY ConstantsFacts DEF Usb!UsbDevice, Usb!DriverData, Usb!NewDevice,
                        Usb!ZeroData, Usb!Unhandled, Usb!Endpoints

\* libhoth_usb_close_internal() closes the handle and clears what a driver
\* that was opened has set.
LEMMA ClosedInternalFacts ==
    ASSUME Usb!UsbAssumption, NEW dev \in Usb!UsbDevice
    PROVE  /\ Usb!ClosedInternal(dev) \in Usb!UsbDevice
           /\ Usb!ClosedInternal(dev).handle = Null
           /\ Usb!ClosedInternal(dev).loc = dev.loc
           /\ Usable(dev) /\ ClosesClean(dev) =>
                 Usb!ClosedInternal(dev).data = Usb!ZeroData
<1>1. Usb!ClosedData(dev) \in Usb!DriverData /\ Usb!ZeroData \in Usb!DriverData
  BY DEF Usb!ClosedData, Usb!ZeroData, Usb!DriverData, Usb!UsbDevice,
         Usb!Endpoints
<1>2. CASE dev.handle = Null
  BY <1>2 DEF Usb!ClosedInternal, ClosesClean
<1>3. CASE dev.handle # Null
  <2>1. Usb!ClosedInternal(dev) = [Usb!Unhandled(dev) EXCEPT !.data = Usb!ClosedData(dev)]
    BY <1>3 DEF Usb!ClosedInternal
  <2>2. Usable(dev) /\ ClosesClean(dev) => Usb!ClosedData(dev) = Usb!ZeroData
    BY <1>3 DEF Usable, ClosesClean, Usb!ClosedData, Usb!ZeroData,
                Usb!UsbDevice, Usb!DriverData
  <2>3. QED
    BY <1>1, <2>1, <2>2, DeviceOps DEF Usb!UsbDevice
<1>4. QED
  BY <1>2, <1>3
-----------------------------------------------------------------------------
(* The invariant holds initially and is kept by every step.                *)

\* At first no device is open.
LEMMA UsbInit == ASSUME Usb!UsbAssumption PROVE Usb!Init => UsbInv
<1> SUFFICES ASSUME Usb!Init PROVE UsbInv
  OBVIOUS
<1>1. Space \in Nat /\ Step \in 1 .. Space - 1
  BY ConstantsFacts
<1>2. HandleTypeOK
  BY DEF Usb!Init, HandleTypeOK, Opening
<1>3. Waiting /\ Usb!SleepsNoLonger
  BY <1>1 DEF Usb!Init, Waiting, Usb!SleepsNoLonger
<1>4. QED
  BY <1>2, <1>3 DEF Usb!Init, UsbInv, Calls, Progress, Fit, Clean,
                    Usb!OneHandle, Usb!HandleCount, Usb!SameLocation,
                    Usb!RefusesOnlyUnusable, Opening

\* From err_out on, whatever failed: the handle is closed, and the driver's
\* data are dirty only if a driver's open failed.
LEMMA ErrOutStep ==
    ASSUME Usb!UsbAssumption, UsbInv, usb_pc \in Opening,
           NEW dev \in Usb!UsbDevice, NEW why, why # "none", Usb!ErrOut(dev, why),
           open_handles = Usb!HandleCount(dev),
           usb_call = "reconnect" => dev.loc = asked,
           ~spoiled /\ usb_call = "reconnect" /\ why \notin {"driver", "malloc"} =>
              dev.data = Usb!ZeroData,
           why = "driver" /\ ~spoiled => Unfit(found.device)
    PROVE  UsbInv'
<1>1. /\ status' = why /\ wait_time_us' = 0 /\ slept' = 0
      /\ UNCHANGED <<bus, usb_call, found, timeout_us, via, spoiled>>
      /\ open_handles' = open_handles - Usb!HandleCount(dev)
      /\ HandleTypeOK /\ Waiting
  BY DEF Usb!ErrOut, Usb!callVars, UsbInv
<1>2. open_handles' = 0
  BY <1>1 DEF Usb!HandleCount
<1>3. Space \in Nat /\ Step \in 1 .. Space - 1 /\ Null \notin Usb!UsbDevice
  BY ConstantsFacts
<1>4. Waiting' /\ Usb!SleepsNoLonger'
  BY <1>1, <1>3 DEF Waiting, Usb!SleepsNoLonger
<1>5. Usb!RefusesOnlyUnusable'
  BY <1>1 DEF Usb!RefusesOnlyUnusable, Unfit
<1>6. CASE usb_call = "open"
  <2>1. usb_dev' = Null /\ usb_pc' = "closed"
    BY <1>6 DEF Usb!ErrOut
  <2>2. HandleTypeOK'
    BY <1>1, <2>1 DEF HandleTypeOK, Opening
  <2>3. QED
    BY <1>2, <1>4, <1>5, <2>1, <2>2
       DEF UsbInv, Calls, Progress, Fit, Clean, Usb!OneHandle, Usb!HandleCount,
           Usb!SameLocation, Opening
<1>7. CASE usb_call = "reconnect"
  <2>1. usb_dev' = Usb!Unhandled(dev) /\ usb_pc' = "returned" /\ asked' = asked
    BY <1>7 DEF Usb!ErrOut
  <2>2. /\ usb_dev' \in Usb!UsbDevice /\ usb_dev'.handle = Null
        /\ usb_dev'.loc = asked' /\ usb_dev'.data = dev.data
    BY <1>7, <2>1, DeviceOps
  <2>3. HandleTypeOK'
    BY <1>1, <2>1, <2>2 DEF HandleTypeOK, Opening
  <2>4. Clean'
    BY <1>1, <1>7, <2>1, <2>2 DEF Clean, ClosesClean, Opening
  <2>5. QED
    BY <1>2, <1>4, <1>5, <2>1, <2>2, <2>3, <2>4
       DEF UsbInv, Calls, Progress, Fit, Usable, Usb!OneHandle,
           Usb!HandleCount, Usb!SameLocation, Opening
<1>8. QED
  BY <1>1, <1>6, <1>7 DEF HandleTypeOK

\* Steps outside of an open: RoTs come and go, the caller transfers, closes,
\* opens and asks for a reconnect.
LEMMA CallerStep ==
    ASSUME Usb!UsbAssumption, UsbInv,
           \/ \E l \in Locations, d \in Devices \union {Null} : Usb!Replug(l, d)
           \/ \E l \in Locations, t \in Timeouts : Usb!Open(l, t)
           \/ Usb!Reconnect \/ Usb!SearchTimesOut \/ Usb!Transfer \/ Usb!Close
    PROVE  UsbInv'
<1>0. /\ Space \in Nat /\ Step \in 1 .. Space - 1 /\ Null \notin Usb!UsbDevice
      /\ \A t \in Timeouts : t \in 0 .. Space - 1
  BY ConstantsFacts
<1>1. CASE \E l \in Locations, d \in Devices \union {Null} : Usb!Replug(l, d)
  <2>1. /\ bus' \in [Locations -> Devices \union {Null}]
        /\ UNCHANGED <<asked, usb_dev, usb_pc, usb_call, found, timeout_us,
                       wait_time_us, status, open_handles, spoiled, slept>>
    BY <1>1 DEF Usb!Replug, UsbInv, HandleTypeOK, Usb!callVars
  <2>2. QED
    BY <2>1 DEF UsbInv, Calls, HandleTypeOK, Progress, Fit, Clean, Waiting,
                Usb!OneHandle, Usb!SameLocation, Usb!RefusesOnlyUnusable,
                Usb!SleepsNoLonger
<1>2. ASSUME NEW l \in Locations, NEW t \in Timeouts, Usb!Open(l, t)
      PROVE  UsbInv'
  <2>1. /\ usb_pc = "closed" /\ usb_pc' = "descriptors" /\ usb_call' = "open"
        /\ found' = [device |-> bus[l], loc |-> l] /\ bus[l] # Null
        /\ timeout_us' = t /\ asked' = l /\ status' = "none"
        /\ UNCHANGED <<bus, usb_dev, wait_time_us, open_handles, spoiled, slept>>
    BY <1>2 DEF Usb!Open
  <2>2. usb_dev = Null /\ slept = 0 /\ wait_time_us = 0
    BY <2>1 DEF UsbInv, HandleTypeOK, Waiting
  <2>3. found' \in [device : Devices, loc : Locations] /\ found'.loc = l
    BY <2>1 DEF UsbInv, HandleTypeOK
  <2>4. HandleTypeOK'
    BY <2>1, <2>2, <2>3 DEF UsbInv, HandleTypeOK, Opening
  <2>5. Waiting' /\ Usb!SleepsNoLonger'
    BY <1>0, <2>1, <2>2 DEF Waiting, Usb!SleepsNoLonger
  <2>6. QED
    BY <2>1, <2>2, <2>3, <2>4, <2>5
       DEF UsbInv, Calls, Progress, Fit, Clean, Usb!OneHandle, Usb!HandleCount,
           Usb!SameLocation, Usb!RefusesOnlyUnusable, Opening
<1>3. CASE Usb!Reconnect
  <2>1. /\ usb_pc = "returned" /\ usb_pc' = "search" /\ usb_call' = "reconnect"
        /\ status' = "none"
        /\ spoiled' = (spoiled \/ status \in {"driver", "malloc"})
        /\ UNCHANGED <<bus, asked, usb_dev, found, timeout_us, wait_time_us,
                       open_handles, slept>>
    BY <1>3 DEF Usb!Reconnect, Usb!envVars
  <2>2. HandleTypeOK'
    BY <2>1 DEF UsbInv, HandleTypeOK, Opening
  <2>3. Clean'
    BY <2>1 DEF UsbInv, Clean, Opening
  <2>4. QED
    BY <2>1, <2>2, <2>3 DEF UsbInv, Calls, Progress, Fit, Waiting,
                            Usb!OneHandle, Usb!SameLocation,
                            Usb!RefusesOnlyUnusable, Usb!SleepsNoLonger,
                            Opening
<1>4. CASE Usb!SearchTimesOut
  <2>1. /\ usb_pc = "search" /\ usb_pc' = "returned" /\ status' = "not_found"
        /\ UNCHANGED <<bus, asked, usb_dev, usb_call, found, timeout_us,
                       wait_time_us, open_handles, spoiled, slept>>
    BY <1>4 DEF Usb!SearchTimesOut, Usb!envVars, Usb!callVars
  <2>2. QED
    BY <2>1 DEF UsbInv, Calls, HandleTypeOK, Progress, Fit, Clean, Waiting,
                Usb!OneHandle, Usb!SameLocation, Usb!RefusesOnlyUnusable,
                Usb!SleepsNoLonger, Opening
<1>5. CASE Usb!Transfer
  <2>1. UNCHANGED <<bus, asked, usb_dev, usb_pc, usb_call, found, timeout_us,
                    wait_time_us, status, open_handles, spoiled, slept>>
    BY <1>5 DEF Usb!Transfer, Usb!envVars, Usb!callVars
  <2>2. QED
    BY <2>1 DEF UsbInv, Calls, HandleTypeOK, Progress, Fit, Clean, Waiting,
                Usb!OneHandle, Usb!SameLocation, Usb!RefusesOnlyUnusable,
                Usb!SleepsNoLonger
<1>6. CASE Usb!Close
  <2>1. /\ usb_pc = "returned" /\ usb_pc' = "closed" /\ usb_dev' = Null
        /\ open_handles' = open_handles - Usb!HandleCount(usb_dev)
        /\ usb_call' = "open" /\ timeout_us' = 0 /\ status' = "none"
        /\ UNCHANGED <<bus, wait_time_us, slept>>
    BY <1>6 DEF Usb!Close
  <2>2. open_handles' = 0
    BY <2>1 DEF UsbInv, Usb!OneHandle, Usb!HandleCount
  <2>3. HandleTypeOK'
    BY <2>1 DEF UsbInv, HandleTypeOK, Opening
  <2>4. Waiting' /\ Usb!SleepsNoLonger'
    BY <1>0, <2>1 DEF UsbInv, Waiting, Usb!SleepsNoLonger
  <2>5. QED
    BY <2>1, <2>2, <2>3, <2>4 DEF UsbInv, Calls, Progress, Fit, Clean,
                                  Usb!OneHandle, Usb!HandleCount,
                                  Usb!SameLocation, Usb!RefusesOnlyUnusable,
                                  Opening
<1>7. QED
  BY <1>1, <1>2, <1>3, <1>4, <1>5, <1>6
\* The device is found again: the old handle is closed.
LEMMA GetDeviceStep ==
    ASSUME Usb!UsbAssumption, UsbInv, NEW l \in Locations, Usb!GetDevice(l)
    PROVE  UsbInv'
<1>1. /\ usb_pc = "search" /\ usb_pc' = "descriptors" /\ l = usb_dev.loc
      /\ bus[l] # Null /\ found' = [device |-> bus[l], loc |-> l]
      /\ usb_dev' = Usb!ClosedInternal(usb_dev)
      /\ open_handles' = open_handles - Usb!HandleCount(usb_dev)
      /\ UNCHANGED <<bus, asked, usb_call, timeout_us, wait_time_us, status,
                     spoiled, slept>>
  BY DEF Usb!GetDevice, Usb!FoundAt, Usb!envVars
<1>2. usb_dev \in Usb!UsbDevice /\ usb_dev # Null /\ Usable(usb_dev)
  BY <1>1, ConstantsFacts DEF UsbInv, HandleTypeOK, Fit
<1>3. /\ usb_dev' \in Usb!UsbDevice /\ usb_dev'.handle = Null
      /\ usb_dev'.loc = usb_dev.loc
      /\ ~spoiled => usb_dev'.data = Usb!ZeroData
  BY <1>1, <1>2, ClosedInternalFacts DEF UsbInv, Clean
<1>4. /\ found' \in [device : Devices, loc : Locations]
      /\ found'.loc = asked /\ usb_dev.loc = asked
  BY <1>1, <1>2 DEF UsbInv, HandleTypeOK, Usb!SameLocation
<1>5. open_handles' = 0
  BY <1>1 DEF UsbInv, Usb!OneHandle, Usb!HandleCount
<1>6. usb_call = "reconnect" /\ status = "none"
  BY <1>1 DEF UsbInv, Calls, HandleTypeOK
<1>7. HandleTypeOK'
  BY <1>1, <1>3, <1>4, <1>6 DEF UsbInv, HandleTypeOK, Opening
<1>8. QED
  BY <1>1, <1>3, <1>4, <1>5, <1>6, <1>7
     DEF UsbInv, Calls, Progress, Fit, Clean, Waiting, Usb!OneHandle,
         Usb!HandleCount, Usb!SameLocation, Usb!RefusesOnlyUnusable,
         Usb!SleepsNoLonger, Opening

\* The descriptors are read, or not.
LEMMA DescriptorsStep ==
    ASSUME Usb!UsbAssumption, UsbInv, Usb!Descriptors \/ Usb!DescriptorsFail
    PROVE  UsbInv'
<1> DEFINE dev == IF usb_dev = Null THEN Usb!NewDevice ELSE usb_dev
<1>0. Null \notin Usb!UsbDevice
  BY ConstantsFacts
<1>1. /\ usb_pc = "descriptors" /\ found \in [device : Devices, loc : Locations]
      /\ IF usb_call = "open" THEN usb_dev = Null ELSE usb_dev \in Usb!UsbDevice
      /\ usb_call \in {"open", "reconnect"} /\ found.loc = asked
  BY DEF Usb!Descriptors, Usb!DescriptorsFail, UsbInv, HandleTypeOK, Progress,
         Opening
<1>2. /\ Usb!NewDevice \in Usb!UsbDevice /\ Usb!NewDevice.handle = Null
      /\ Usb!NewDevice.data = Usb!ZeroData
  BY ConstantsFacts DEF Usb!UsbDevice, Usb!DriverData, Usb!NewDevice,
                        Usb!ZeroData, Usb!Endpoints
<1>3. /\ dev \in Usb!UsbDevice /\ dev.handle = Null
      /\ usb_call = "reconnect" => dev.loc = asked
      /\ ~spoiled => dev.data = Usb!ZeroData
      /\ dev # Null
  BY <1>0, <1>1, <1>2 DEF UsbInv, Progress, Clean, Usb!SameLocation, Opening
<1>4. open_handles = Usb!HandleCount(dev) /\ open_handles = 0
  BY <1>0, <1>1, <1>3 DEF UsbInv, Progress, Usb!OneHandle, Usb!HandleCount
<1> HIDE DEF dev
<1>5. CASE Usb!DescriptorsFail
  <2>1. PICK why \in {"vendor", "interface", "error"} : Usb!ErrOut(dev, why)
    BY <1>5 DEF Usb!DescriptorsFail, dev
  <2>2. usb_pc \in Opening /\ why # "none" /\ why \notin {"driver", "malloc"}
    BY <1>1, <2>1 DEF Opening
  <2>3. QED
    BY <1>3, <1>4, <2>1, <2>2, ErrOutStep
<1>6. CASE Usb!Descriptors
  <2>1. /\ usb_pc' = "open"
        /\ usb_dev' = [dev EXCEPT !.loc = found.loc,
                                  !.type = Usb!FindInterface(found.device)]
        /\ UNCHANGED <<bus, asked, usb_call, found, timeout_us, wait_time_us,
                       status, open_handles, spoiled, slept>>
    BY <1>6 DEF Usb!Descriptors, Usb!envVars, Usb!callVars, dev
  <2>2. Usb!FindInterface(found.device) \in {"unknown", "mailbox", "fifo"}
    BY <1>1, FindInterfaceType
  <2>3. /\ usb_dev' \in Usb!UsbDevice /\ usb_dev'.handle = Null
        /\ usb_dev'.loc = asked /\ usb_dev'.data = dev.data
        /\ usb_dev'.type = Usb!FindInterface(found.device)
    BY <1>1, <1>3, <2>1, <2>2 DEF Usb!UsbDevice
  <2>4. HandleTypeOK'
    BY <1>1, <2>1, <2>3 DEF UsbInv, HandleTypeOK, Opening
  <2>5. QED
    BY <1>1, <1>3, <1>4, <2>1, <2>3, <2>4
       DEF UsbInv, Calls, Progress, Fit, Clean, Waiting, Usb!OneHandle,
           Usb!HandleCount, Usb!SameLocation, Usb!RefusesOnlyUnusable,
           Usb!SleepsNoLonger, Opening
<1>7. QED
  BY <1>5, <1>6

\* libusb_open() and the claim, with their failures and the wait for access.
LEMMA OpenStep ==
    ASSUME Usb!UsbAssumption, UsbInv,
           \/ Usb!LibusbOpen \/ Usb!LibusbOpenDenied \/ Usb!LibusbOpenFails
           \/ Usb!Claim \/ Usb!ClaimFails
    PROVE  UsbInv'
<1>0. /\ Null \notin Usb!UsbDevice /\ Null \notin Devices
      /\ Space \in Nat /\ Step \in 1 .. Space - 1
  BY ConstantsFacts
<1>1. /\ usb_pc \in {"open", "claim"} /\ usb_pc \in Opening
      /\ usb_dev \in Usb!UsbDevice /\ usb_dev # Null
      /\ found \in [device : Devices, loc : Locations]
      /\ open_handles = Usb!HandleCount(usb_dev) /\ usb_dev.loc = asked
      /\ ~spoiled => usb_dev.data = Usb!ZeroData
  BY <1>0 DEF Usb!LibusbOpen, Usb!LibusbOpenDenied, Usb!LibusbOpenFails,
              Usb!Claim, Usb!ClaimFails, UsbInv, HandleTypeOK, Usb!OneHandle,
              Usb!SameLocation, Clean, Opening
<1>2. CASE \E why \in {"access", "error", "busy"} : Usb!ErrOut(usb_dev, why)
  <2>1. PICK why \in {"access", "error", "busy"} : Usb!ErrOut(usb_dev, why)
    BY <1>2
  <2>2. why # "none" /\ why \notin {"driver", "malloc"}
    BY <2>1
  <2>3. QED
    BY <1>1, <2>1, <2>2, ErrOutStep
<1>3. CASE Usb!LibusbOpen
  <2>1. /\ usb_pc = "open" /\ usb_pc' = "claim" /\ open_handles' = open_handles + 1
        /\ usb_dev' = [usb_dev EXCEPT !.handle = found.device]
        /\ wait_time_us' = 0 /\ slept' = 0
        /\ UNCHANGED <<bus, asked, usb_call, found, timeout_us, status, spoiled>>
    BY <1>3 DEF Usb!LibusbOpen, Usb!envVars, Usb!callVars
  <2>2. /\ usb_dev' \in Usb!UsbDevice /\ usb_dev'.handle = found.device
        /\ usb_dev'.loc = usb_dev.loc /\ usb_dev'.data = usb_dev.data
        /\ usb_dev'.type = usb_dev.type /\ usb_dev' # Null
    BY <1>0, <1>1, <2>1 DEF Usb!UsbDevice
  <2>3. Usb!OneHandle'
    BY <1>0, <1>1, <2>1, <2>2 DEF UsbInv, Progress, Usb!OneHandle,
                                  Usb!HandleCount
  <2>4. HandleTypeOK'
    BY <2>1, <2>2 DEF UsbInv, HandleTypeOK, Opening
  <2>5. Waiting' /\ Usb!SleepsNoLonger'
    BY <1>0, <2>1 DEF UsbInv, Waiting, Usb!SleepsNoLonger
  <2>6. QED
    BY <1>1, <2>1, <2>2, <2>3, <2>4, <2>5
       DEF UsbInv, Calls, Progress, Fit, Clean, Usb!SameLocation,
           Usb!RefusesOnlyUnusable, Opening
<1>4. CASE Usb!LibusbOpenDenied /\ ~(wait_time_us >= timeout_us)
  <2>1. /\ usb_pc = "open" /\ wait_time_us' = (wait_time_us + Step) % Space
        /\ slept' = slept + Step
        /\ UNCHANGED <<bus, asked, usb_dev, usb_pc, usb_call, found, timeout_us, status,
                       open_handles, spoiled>>
    BY <1>4 DEF Usb!LibusbOpenDenied, Usb!envVars, Usb!callVars
  <2>2. /\ timeout_us \in 0 .. Space - 1 /\ slept \in Nat
        /\ wait_time_us \in Nat
        /\ timeout_us <= Space - Step => wait_time_us = slept
    BY DEF UsbInv, Waiting
  <2>3. wait_time_us' \in Nat
    BY <1>0, <2>1, <2>2
  <2>4. ASSUME timeout_us <= Space - Step
        PROVE  wait_time_us' = slept' /\ slept' < timeout_us + Step
    <3>1. wait_time_us + Step \in 0 .. Space - 1
      BY <1>0, <1>4, <2>2, <2>4
    <3>2. (wait_time_us + Step) % Space = wait_time_us + Step
      BY <1>0, <3>1
    <3>3. QED
      BY <1>0, <1>4, <2>1, <2>2, <2>4, <3>2
  <2>5. slept' \in Nat
    BY <1>0, <2>1, <2>2
  <2>6. Waiting' /\ Usb!SleepsNoLonger'
    BY <2>1, <2>2, <2>3, <2>4, <2>5 DEF Waiting, Usb!SleepsNoLonger
  <2>7. QED
    BY <2>1, <2>6
       DEF UsbInv, Calls, HandleTypeOK, Progress, Fit, Clean, Usb!OneHandle,
           Usb!SameLocation, Usb!RefusesOnlyUnusable
<1>5. CASE Usb!Claim
  <2>1. /\ usb_pc = "claim" /\ usb_pc' = "driver"
        /\ usb_dev' = [usb_dev EXCEPT !.claimed = TRUE]
        /\ UNCHANGED <<bus, asked, usb_call, found, timeout_us, wait_time_us,
                       status, open_handles, spoiled, slept>>
    BY <1>5 DEF Usb!Claim, Usb!envVars, Usb!callVars
  <2>2. /\ usb_dev' \in Usb!UsbDevice /\ usb_dev'.handle = usb_dev.handle
        /\ usb_dev'.loc = usb_dev.loc /\ usb_dev'.data = usb_dev.data
        /\ usb_dev'.type = usb_dev.type /\ usb_dev' # Null
        /\ usb_dev'.claimed
    BY <1>0, <1>1, <2>1 DEF Usb!UsbDevice
  <2>3. HandleTypeOK'
    BY <2>1, <2>2 DEF UsbInv, HandleTypeOK, Opening
  <2>4. QED
    BY <1>1, <2>1, <2>2, <2>3 DEF UsbInv, Calls, Progress, Fit, Clean, Waiting,
                                  Usb!OneHandle, Usb!HandleCount,
                                  Usb!SameLocation, Usb!RefusesOnlyUnusable,
                                  Usb!SleepsNoLonger, Opening
<1>6. QED
  BY <1>2, <1>3, <1>4, <1>5 DEF Usb!LibusbOpenDenied, Usb!LibusbOpenFails,
                                Usb!ClaimFails
\* The drivers' opens: a success leaves the endpoints set, and without an
\* earlier failure only a device that no driver can use is refused.
LEMMA DriverStep ==
    ASSUME Usb!UsbAssumption, UsbInv,
           \/ usb_pc = "driver" /\ \E f \in Usb!MailboxFields(usb_dev.data) : Usb!MailboxOpen(f)
           \/ Usb!FifoOpen \/ Usb!FifoSeedZero
           \/ \E m \in {"live", "freed"} : Usb!FifoAllocFails(m)
    PROVE  UsbInv'
<1>0. Null \notin Usb!UsbDevice /\ Null \notin Devices
  BY ConstantsFacts
<1>1. /\ usb_pc = "driver" /\ usb_pc \in Opening
      /\ usb_dev \in Usb!UsbDevice /\ usb_dev # Null
      /\ usb_dev.handle = found.device /\ usb_dev.claimed
      /\ usb_dev.type = Usb!FindInterface(found.device)
      /\ found \in [device : Devices, loc : Locations]
      /\ open_handles = Usb!HandleCount(usb_dev) /\ usb_dev.loc = asked
      /\ ~spoiled => usb_dev.data = Usb!ZeroData
  BY <1>0 DEF Usb!FifoOpen, Usb!FifoSeedZero, Usb!FifoAllocFails, UsbInv,
              HandleTypeOK, Progress, Usb!OneHandle, Usb!SameLocation, Clean,
              Opening
<1>2. usb_dev.data \in Usb!DriverData /\ found.device \in Devices
  BY <1>1 DEF Usb!UsbDevice
<1>3. ASSUME NEW data \in Usb!DriverData, NEW why \in {"driver", "malloc", "seed"},
             Usb!DriverFails(data, why),
             why = "seed" => data = usb_dev.data,
             why = "driver" /\ ~spoiled => Unfit(found.device)
      PROVE  UsbInv'
  <2> DEFINE dev == [usb_dev EXCEPT !.data = data]
  <2>1. /\ dev \in Usb!UsbDevice /\ dev.loc = asked /\ dev.data = data
        /\ dev.handle = usb_dev.handle
    BY <1>1, <1>3 DEF Usb!UsbDevice
  <2>2. Usb!ErrOut(dev, why)
    BY <1>3 DEF Usb!DriverFails
  <2> HIDE DEF dev
  <2>3. open_handles = Usb!HandleCount(dev)
    BY <1>0, <1>1, <2>1 DEF Usb!HandleCount
  <2>4. ~spoiled /\ why \notin {"driver", "malloc"} => dev.data = Usb!ZeroData
    BY <1>1, <1>3, <2>1
  <2>5. why # "none"
    BY <1>3
  <2>6. QED
    BY <1>1, <1>3, <2>1, <2>2, <2>3, <2>4, <2>5, ErrOutStep
<1>4. ASSUME NEW data \in Usb!DriverData, Usb!DriverDone(data),
             \/ /\ usb_dev.type = "mailbox" /\ data.mailbox = Usb!Endpoints
                /\ ~spoiled => data.fifo = {} /\ data.memory = "null"
             \/ /\ usb_dev.type = "fifo" /\ data.fifo = Usb!Endpoints
                /\ data.memory = "live"
      PROVE  UsbInv'
  <2>1. /\ usb_pc' = "returned" /\ status' = "ok"
        /\ usb_dev' = [usb_dev EXCEPT !.data = data]
        /\ UNCHANGED <<bus, asked, usb_call, found, timeout_us, wait_time_us,
                       open_handles, spoiled, slept>>
    BY <1>4 DEF Usb!DriverDone, Usb!envVars, Usb!callVars
  <2>2. /\ usb_dev' \in Usb!UsbDevice /\ usb_dev'.handle = usb_dev.handle
        /\ usb_dev'.loc = usb_dev.loc /\ usb_dev'.data = data
        /\ usb_dev'.type = usb_dev.type /\ usb_dev' # Null
        /\ usb_dev'.claimed = usb_dev.claimed
    BY <1>0, <1>1, <1>4, <2>1 DEF Usb!UsbDevice
  <2>3. usb_dev.handle # Null
    BY <1>0, <1>1, <1>2
  <2>4. Usable(usb_dev')
    BY <1>1, <1>4, <2>2, <2>3 DEF Usable, Usb!Dispatch
  <2>5. ~spoiled => ClosesClean(usb_dev')
    BY <1>4, <2>2, <2>3 DEF ClosesClean
  <2>6. HandleTypeOK'
    BY <2>1, <2>2 DEF UsbInv, HandleTypeOK, Opening
  <2>7. QED
    BY <1>1, <2>1, <2>2, <2>4, <2>5, <2>6
       DEF UsbInv, Calls, Progress, Fit, Clean, Waiting, Usb!OneHandle,
           Usb!HandleCount, Usb!SameLocation, Usb!RefusesOnlyUnusable,
           Usb!SleepsNoLonger, Opening
<1>5. ASSUME NEW f \in Usb!MailboxFields(usb_dev.data), Usb!MailboxOpen(f)
      PROVE  UsbInv'
  <2> DEFINE fill == Usb!FillEndpoints(f, found.device.endpoints)
             data == [usb_dev.data EXCEPT !.mailbox = fill.set]
  <2>1. f \in SUBSET Usb!Endpoints /\ (~spoiled => f = {})
    BY <1>1, <1>2, <1>5 DEF Usb!MailboxFields, Usb!DriverData, Usb!ZeroData
  <2>2. fill.set \in SUBSET Usb!Endpoints /\ (fill.ok => fill.set = Usb!Endpoints)
    BY <1>2, <2>1, FillEndpointsFacts
  <2>3. /\ usb_dev.type = "mailbox"
        /\ IF fill.ok /\ found.device.fits THEN Usb!DriverDone(data)
                                           ELSE Usb!DriverFails(data, "driver")
    BY <1>5 DEF Usb!MailboxOpen
  <2>4. ~spoiled /\ ~(fill.ok /\ found.device.fits) => Unfit(found.device)
    BY <2>1 DEF Unfit
  <2> HIDE DEF fill
  <2>5. /\ data \in Usb!DriverData /\ data.mailbox = fill.set
        /\ data.fifo = usb_dev.data.fifo /\ data.memory = usb_dev.data.memory
    BY <1>2, <2>2 DEF Usb!DriverData
  <2> HIDE DEF data
  <2>6. CASE fill.ok /\ found.device.fits
    BY <1>1, <1>4, <2>2, <2>3, <2>5, <2>6 DEF Usb!ZeroData
  <2>7. CASE ~(fill.ok /\ found.device.fits)
    BY <1>3, <2>3, <2>4, <2>5, <2>7
  <2>8. QED
    BY <2>6, <2>7
<1>6. ASSUME usb_dev.type = "fifo" PROVE
        Usb!FifoOpen \/ (\E m \in {"live", "freed"} : Usb!FifoAllocFails(m)) => UsbInv'
  <2> DEFINE fill == Usb!FillEndpoints(usb_dev.data.fifo, found.device.endpoints)
             data == [usb_dev.data EXCEPT !.fifo = fill.set]
             with(m) == [usb_dev.data EXCEPT !.fifo = fill.set, !.memory = m]
  <2>1. usb_dev.data.fifo \in SUBSET Usb!Endpoints
        /\ (~spoiled => usb_dev.data.fifo = {})
    BY <1>1, <1>2 DEF Usb!DriverData, Usb!ZeroData
  <2>2. fill.set \in SUBSET Usb!Endpoints /\ (fill.ok => fill.set = Usb!Endpoints)
    BY <1>2, <2>1, FillEndpointsFacts
  <2>3. Usb!FifoOpen => IF fill.ok THEN Usb!DriverDone([data EXCEPT !.memory = "live"])
                               ELSE Usb!DriverFails(data, "driver")
    BY DEF Usb!FifoOpen
  <2>4. ~spoiled /\ ~fill.ok => Unfit(found.device)
    BY <2>1 DEF Unfit
  <2>5. \A m \in {"live", "freed"} : Usb!FifoAllocFails(m) => Usb!DriverFails(with(m), "malloc")
    BY DEF Usb!FifoAllocFails
  <2> HIDE DEF fill
  <2>6. /\ data \in Usb!DriverData /\ [data EXCEPT !.memory = "live"] \in Usb!DriverData
        /\ [data EXCEPT !.memory = "live"].fifo = fill.set
        /\ [data EXCEPT !.memory = "live"].memory = "live"
        /\ \A m \in {"live", "freed"} : with(m) \in Usb!DriverData
    BY <1>2, <2>2 DEF Usb!DriverData
  <2> HIDE DEF data, with
  <2>7. ASSUME Usb!FifoOpen PROVE UsbInv'
    <3>1. CASE fill.ok
      BY <1>4, <1>6, <2>2, <2>3, <2>6, <2>7, <3>1
    <3>2. CASE ~fill.ok
      BY <1>3, <2>3, <2>4, <2>6, <2>7, <3>2
    <3>3. QED
      BY <3>1, <3>2
  <2>8. ASSUME NEW m \in {"live", "freed"}, Usb!FifoAllocFails(m) PROVE UsbInv'
    BY <1>3, <2>5, <2>6, <2>8
  <2>9. QED
    BY <2>7, <2>8
<1>7. CASE Usb!FifoSeedZero
  BY <1>2, <1>3, <1>7 DEF Usb!FifoSeedZero
<1>8. QED
  BY <1>5, <1>6, <1>7 DEF Usb!FifoOpen, Usb!FifoAllocFails

\* Every step of the library, the bus and the caller keeps the invariant.
LEMMA UsbStep ==
    ASSUME Usb!UsbAssumption PROVE UsbInv /\ [Usb!Next]_handleVars => UsbInv'
<1> SUFFICES ASSUME UsbInv, [Usb!Next]_handleVars PROVE UsbInv'
  OBVIOUS
<1>1. CASE Usb!Next
  BY <1>1, CallerStep, GetDeviceStep, DescriptorsStep, OpenStep, DriverStep
     DEF Usb!Next
<1>2. CASE UNCHANGED handleVars
  <2>1. UNCHANGED <<bus, asked, usb_dev, usb_pc, usb_call, found, timeout_us,
                    wait_time_us, status, open_handles, spoiled, slept>>
    BY <1>2 DEF handleVars
  <2>2. QED
    BY <2>1 DEF UsbInv, Calls, HandleTypeOK, Progress, Fit, Clean, Waiting,
                Usb!OneHandle, Usb!SameLocation, Usb!RefusesOnlyUnusable,
                Usb!SleepsNoLonger
<1>3. QED
  BY <1>1, <1>2

\* The invariant of the USB handle's life holds always.
THEOREM UsbInvariant == MCSpec => []UsbInv
<1>0. Usb!UsbAssumption
  BY TransportAssumption
<1>1. MCInit => UsbInv
  BY <1>0, UsbInit DEF MCInit
<1>2. UsbInv /\ [MCNext]_<<kind, vars, hostVars, handleVars>> => UsbInv'
  <2>1. [MCNext]_<<kind, vars, hostVars, handleVars>> => [Usb!Next]_handleVars
    BY DEF MCNext
  <2>2. QED
    BY <1>0, <2>1, UsbStep
<1>3. QED
  BY <1>1, <1>2, PTL DEF MCSpec

\* After any opens, reconnects, failures and replugs the handle is fit for use
\* (libhoth_usb_device_open()), the only one that is open, and that of the RoT
\* at the location that was asked for (libhoth_usb_reconnect()).
THEOREM HandlesStaySound == MCSpec => []HandleIsSound
<1>1. UsbInv => HandleIsSound
  BY DEF UsbInv, Fit, Usable, HandleIsSound, Usb!HandleIsSound,
         Usb!HandleIsUsable
<1>2. QED
  BY <1>1, UsbInvariant, PTL

\* libhoth_usb_mailbox_open() and libhoth_usb_fifo_open() refuse a device for
\* what it is, and not for what an earlier connection left in driver_data.
THEOREM RefusedForItself == MCSpec => []RefusesOnlyUnusable
<1>1. UsbInv => RefusesOnlyUnusable
  BY DEF UsbInv, RefusesOnlyUnusable
<1>2. QED
  BY <1>1, UsbInvariant, PTL

\* The wait for access of libhoth_usb_device_open() ends with the timeout,
\* unless that is within one sleep of 2^32.
THEOREM WaitsAreBounded == MCSpec => []SleepsNoLonger
<1>1. UsbInv => SleepsNoLonger
  BY DEF UsbInv, SleepsNoLonger
<1>2. QED
  BY <1>1, UsbInvariant, PTL
=============================================================================
