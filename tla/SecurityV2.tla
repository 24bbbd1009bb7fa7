----------------------------- MODULE SecurityV2 -----------------------------
(***************************************************************************)
(* The SECURITY_V2 framing of htool_security_v2.c: parameters, each with a *)
(* header and padded to the alignment, behind a header that counts them.   *)
(* htool_exec_security_v2_cmd() builds the request and takes parameters of *)
(* given sizes out of the response, htool_exec_security_v2_serialized_cmd()*)
(* takes parameters of any size.  The response may be any byte sequence    *)
(* that is close to one the RoT would build.  A 16-bit field is one byte   *)
(* here, and so is the pair of command codes; the alignment is scaled down *)
(* with them.                                                              *)
(***************************************************************************)
EXTENDS Integers, SequencesExt

CONSTANTS
    ByteMax,        \* the largest byte
    Align,          \* sizeof(uint32_t), the size of each of the headers
    MaxParams,      \* parameters of a command
    MaxParamSize,
    StorageSizes    \* sizes of the caller's request storage

Byte == 0 .. ByteMax
Value == UNION {[1 .. n -> Byte] : n \in 0 .. MaxParamSize}
Params == UNION {[1 .. n -> Value] : n \in 0 .. MaxParams}

V2Assumption ==
    /\ Align = 2
    /\ {ByteMax, MaxParams, MaxParamSize} \subseteq Nat
    /\ MaxParamSize <= ByteMax /\ MaxParams <= ByteMax
    /\ StorageSizes \subseteq Nat

VARIABLES
    phase,          \* "none", "sent", "received" or "refused"
    args,           \* [params, storage, expected]: the caller's arguments
    request,        \* what was sent
    received,       \* what came back
    fixed,          \* what htool_exec_security_v2_cmd() made of it,
    serialized      \* and htool_exec_security_v2_serialized_cmd()

vars == <<phase, args, request, received, fixed, serialized>>

padding_size(n) == IF n % Align = 0 THEN 0 ELSE Align - (n % Align)

Zeros(n) == [k \in 1 .. n |-> 0]

-----------------------------------------------------------------------------
(* struct security_v2_buffer                                               *)

\* data, bytes_consumed, and whether consume_bytes() found enough so far.
Buffer(data) == [data |-> data, consumed |-> 0, ok |-> TRUE, out |-> <<>>]

Left(buffer) == Len(buffer.data) - buffer.consumed

consume_bytes(buffer, n) ==
    IF Left(buffer) < n THEN [buffer EXCEPT !.ok = FALSE]
                        ELSE [buffer EXCEPT !.consumed = @ + n]

\* The next n bytes.
Region(buffer, n) ==
    SubSeq(buffer.data, buffer.consumed + 1, buffer.consumed + n)

\* Consumes the size of bytes and writes them.
Put(buffer, bytes) ==
    LET after == consume_bytes(buffer, Len(bytes))
    IN  IF ~buffer.ok \/ ~after.ok THEN [buffer EXCEPT !.ok = FALSE]
        ELSE [after EXCEPT !.data =
                [k \in DOMAIN @ |-> IF k \in buffer.consumed + 1 .. after.consumed
                                    THEN bytes[k - buffer.consumed] ELSE @[k]]]

-----------------------------------------------------------------------------
(* htool_exec_security_v2_cmd()                                            *)

PutParam(buffer, value) ==
    Put(Put(buffer, <<Len(value), 0>>),
        value \o Zeros(padding_size(Len(value))))

\* The buffer after so many parameters.  The storage is zero at first.
Building(code, params, storage) ==
    LET after[i \in 0 .. Len(params)] ==
            IF i = 0 THEN Put(Buffer(Zeros(storage)), <<code, Len(params)>>)
                     ELSE PutParam(after[i - 1], params[i])
    IN  after

BuildRequest(code, params, storage) == Building(code, params, storage)[Len(params)]

\* A parameter of a given size; reserved bytes and padding are not looked at.
TakeFixed(buffer, size) ==
    LET header == consume_bytes(buffer, Align)
        value == consume_bytes(header, size + padding_size(size))
    IN  IF ~buffer.ok \/ ~header.ok THEN [buffer EXCEPT !.ok = FALSE]
        ELSE IF Region(buffer, 1) # <<size>> \/ ~value.ok
        THEN [buffer EXCEPT !.ok = FALSE]
        ELSE [value EXCEPT !.out = Append(@, Region(header, size))]

TakingFixed(header, sizes) ==
    LET after[i \in 0 .. Len(sizes)] ==
            IF i = 0 THEN header ELSE TakeFixed(after[i - 1], sizes[i])
    IN  after

\* Without parameters to take, the response is not looked at.
ParseFixed(bytes, sizes) ==
    LET buffer == Buffer(bytes)
        header == consume_bytes(buffer, Align)
    IN  IF sizes = <<>> THEN buffer
        ELSE IF ~header.ok THEN header
        ELSE IF Region(buffer, 1) # <<Len(sizes)>> THEN [header EXCEPT !.ok = FALSE]
        ELSE TakingFixed(header, sizes)[Len(sizes)]

-----------------------------------------------------------------------------
(* htool_exec_security_v2_serialized_cmd()                                 *)

\* Mutant: the padding is skipped.
validate_param_paddingSkipped(buffer, size) == consume_bytes(buffer, padding_size(size))

validate_param_padding(buffer, size) ==
    LET n == padding_size(size)
        after == consume_bytes(buffer, n)
    IN  IF after.ok /\ Region(buffer, n) # Zeros(n)
        THEN [buffer EXCEPT !.ok = FALSE] ELSE after

\* read_security_v2_serialized_params()
TakeSerialized(buffer) ==
    LET header == consume_bytes(buffer, Align)
        size == Region(buffer, 1)[1]
        value == consume_bytes(header, size)
        padded == validate_param_padding(value, size)
    IN  IF ~buffer.ok \/ ~header.ok THEN [buffer EXCEPT !.ok = FALSE]
        ELSE IF Region(buffer, 2)[2] # 0 THEN [buffer EXCEPT !.ok = FALSE]
        ELSE IF ~value.ok THEN value
        ELSE [padded EXCEPT !.out = Append(@, Region(header, size))]

TakingSerialized(header, count) ==
    LET after[i \in 0 .. count] ==
            IF i = 0 THEN header ELSE TakeSerialized(after[i - 1])
    IN  after

ParseSerialized(bytes, count) ==
    LET buffer == Buffer(bytes)
        header == consume_bytes(buffer, Align)
    IN  IF ~header.ok THEN header
        ELSE IF Region(buffer, 2) # <<count, 0>> THEN [header EXCEPT !.ok = FALSE]
        ELSE TakingSerialized(header, count)[count]

-----------------------------------------------------------------------------
(* The RoT, and the frame as the host commands' headers describe it        *)

Encoded(value) ==
    <<Len(value), 0>> \o value \o Zeros(padding_size(Len(value)))

\* The frame up to so many of its parameters.
Frames(first, second, params) ==
    LET upTo[i \in 0 .. Len(params)] ==
            IF i = 0 THEN <<first, second>> ELSE upTo[i - 1] \o Encoded(params[i])
    IN  upTo

Frame(first, second, params) == Frames(first, second, params)[Len(params)]

\* What may arrive: the frame, cut, with a byte changed, or with bytes behind it.
Near(frame) ==
    {frame} \union {SubSeq(frame, 1, n) : n \in 0 .. Len(frame)}
            \union {[frame EXCEPT ![k] = b] : k \in DOMAIN frame, b \in Byte}
            \union {frame \o Zeros(1)}

-----------------------------------------------------------------------------

NoArgs == [params |-> <<>>, storage |-> 0, expected |-> <<>>]

Init ==
    /\ phase = "none" /\ args = NoArgs
    /\ request = <<>> /\ received = <<>>
    /\ fixed = Buffer(<<>>) /\ serialized = Buffer(<<>>)

Code == 1

\* The whole storage is sent, once everything fits.
Send(params, storage, expected) ==
    /\ phase = "none"
    /\ args' = [params |-> params, storage |-> storage, expected |-> expected]
    /\ LET buffer == BuildRequest(Code, params, storage)
       IN  IF buffer.ok THEN phase' = "sent" /\ request' = buffer.data
                        ELSE phase' = "refused" /\ UNCHANGED request
    /\ UNCHANGED <<received, fixed, serialized>>

Receive(bytes) ==
    /\ phase = "sent"
    /\ phase' = "received"
    /\ received' = bytes
    /\ fixed' = ParseFixed(bytes, args.expected)
    /\ serialized' = ParseSerialized(bytes, Len(args.expected))
    /\ UNCHANGED <<args, request>>

Sizes == UNION {[1 .. n -> 0 .. MaxParamSize] : n \in 0 .. MaxParams}

\* To keep requests and responses apart, one of the two is the smallest.
Next ==
    \/ \E params \in Params, n \in StorageSizes : Send(params, n, <<>>)
    \/ \E sizes \in Sizes : Send(<<>>, Align, sizes)
    \/ /\ phase = "sent" /\ args.params = <<>>
       /\ \E answer \in Params :
            \E bytes \in Near(Frame(Len(answer), 0, answer)) : Receive(bytes)

-----------------------------------------------------------------------------
(* Properties                                                              *)

\* The request the RoT sees is the frame of the caller's parameters, with zeros
\* in the padding, the reserved fields and behind it, or none at all when the
\* storage is too small for one.
RequestIsFrame ==
    LET frame == Frame(Code, Len(args.params), args.params)
    IN  /\ phase \in {"sent", "received"} =>
              request = frame \o Zeros(args.storage - Len(frame))
        /\ phase = "refused" => Len(frame) > args.storage

\* htool_exec_security_v2_serialized_cmd() accepts a response just when it
\* begins with the frame of so many parameters, and points at their values.
SerializedIsExact ==
    phase = "received" =>
        LET n == Len(args.expected)
        IN  IF serialized.ok
            THEN /\ Len(serialized.out) = n
                 /\ IsPrefix(Frame(n, 0, serialized.out), received)
            ELSE \A params \in [1 .. n -> Value] :
                    ~IsPrefix(Frame(n, 0, params), received)

\* Where parameters of these sizes end.
Extents(sizes) ==
    LET upTo[i \in 0 .. Len(sizes)] ==
            IF i = 0 THEN Align
            ELSE upTo[i - 1] + Align + sizes[i] + padding_size(sizes[i])
    IN  upTo

\* htool_exec_security_v2_cmd() hands out parameters of the sizes asked for that
\* lie where the frame has them, all within the bytes received; it takes every
\* response that the serialized variant takes with these sizes.
FixedIsExact ==
    phase = "received" /\ args.expected # <<>> =>
        LET extent == Extents(args.expected)[Len(args.expected)]
            sizes == [i \in DOMAIN serialized.out |-> Len(serialized.out[i])]
        IN  /\ fixed.ok => /\ extent <= Len(received)
                           /\ [i \in DOMAIN fixed.out |-> Len(fixed.out[i])]
                                = args.expected
                           /\ serialized.ok => fixed.out = serialized.out
            /\ serialized.ok /\ sizes = args.expected => fixed.ok

\* Both sides see the same parameters: the request is their frame, and each way
\* of taking a response apart finds the ones the RoT put in.
FramingIsExact == RequestIsFrame /\ SerializedIsExact /\ FixedIsExact
=============================================================================
