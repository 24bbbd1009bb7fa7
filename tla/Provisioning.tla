---------------------------- MODULE Provisioning ----------------------------
(***************************************************************************)
(* Provisioning a RoT: reading the provisioning log, writing and           *)
(* committing one, having a blob signed and loading the ML-DSA key, of     *)
(* protocol/provisioning.c and the htool commands on it.  Each goes by     *)
(* host commands that fail with or without having been carried out, and    *)
(* the tool may die between two of them.  The RoT keeps what is written    *)
(* until the commit; other clients write and commit in between, over a     *)
(* transport that has no lock.                                             *)
(***************************************************************************)
EXTENDS Integers, Sequences

CONSTANTS
    Bytes,          \* contents of a byte
    Blank,          \* a byte nobody wrote
    LogMax,         \* PROVISIONING_LOG_MAX_SIZE, the client's limit
    RotMax,         \* the RoT's own limit; it reports sizes in 16 bits
    WriteMax,       \* PROVISIONING_LOG_WRITE_CHUNK_MAX_SIZE
    ReadMax,        \* PROVISIONING_LOG_CHUNK_MAX_SIZE
    KeySize,        \* HOTH_KEY_PROVISIONING_MLDSA44_PUBLIC_KEY_BYTES
    KeyChunk,       \* HOTH_KEY_PROVISIONING_LOAD_KEY_CHUNK_MAX_SIZE
    Space           \* 2^16: sizes and offsets of a request

ProvisioningAssumption ==
    /\ \A n \in {LogMax, WriteMax, ReadMax, KeySize, KeyChunk} : n \in Nat \ {0}
    /\ Space \in Nat /\ RotMax \in Nat
    /\ RotMax >= LogMax /\ RotMax < Space /\ KeySize < Space
    /\ Blank \notin Bytes

VARIABLES
    log,            \* the RoT: the committed log,
    staging,        \* what was written,
    key, key_buf,   \* the loaded key, and what has arrived of the next one
    pc,             \* idle, header, read, write, commit, sign, key, returned
    kind, file,     \* the command, and the file it was given
    done,           \* bytes_read, bytes_written or offset
    size,           \* prov_log_hdr_resp.size
    buf,            \* the caller's buffer
    result,
    faulty          \* history: a command failed, or another client came between

rotVars == <<log, staging, key, key_buf>>
callVars == <<kind, file, size, buf>>
vars == <<rotVars, pc, callVars, done, result, faulty>>

MinOf(a, b) == IF a <= b THEN a ELSE b
Files(max) == UNION {[1 .. n -> Bytes] : n \in 0 .. max}
Untouched(n) == [a \in 1 .. n |-> Blank]

Init ==
    /\ log \in Files(RotMax)
    /\ staging = Untouched(RotMax)
    /\ key = <<>> /\ key_buf = Untouched(KeySize)
    /\ pc = "idle"
    /\ kind = "none" /\ file = <<>>
    /\ done = 0 /\ size = 0 /\ buf = <<>>
    /\ result = "none" /\ faulty = FALSE

-----------------------------------------------------------------------------
(* The RoT                                                                 *)

\* n bytes of the file from position at on replace those of an area.
Overlaid(area, at, n) ==
    [a \in DOMAIN area |-> IF a \in at + 1 .. at + n THEN file[a] ELSE area[a]]

\* Commits if the first n bytes written have the checksum the client gives.
CommitAccepts(data, n) == SubSeq(staging, 1, n) = data

\* Signs if the blob the RoT has is the one of that size and checksum; the blob
\* itself is not sent.
SignAccepts(blob, n) == n <= Len(log) /\ SubSeq(log, 1, n) = blob

-----------------------------------------------------------------------------
(* htool's commands                                                        *)

Return(r) ==
    /\ pc' = "returned"
    /\ result' = r

Start(command, f, place) ==
    /\ pc = "idle"
    /\ kind' = command
    /\ file' = f
    /\ faulty' = FALSE
    /\ UNCHANGED <<rotVars, done, size, buf>>
    /\ IF place = "returned" THEN Return("invalid")
                             ELSE pc' = place /\ UNCHANGED result

GetLog == Start("read", <<>>, "header")

\* read_binary_file(): between one byte and the maximum.
WriteLog(f) ==
    Start("write", f, IF Len(f) \in 1 .. LogMax THEN "write" ELSE "returned")

\* read_binary_file(): exactly that many bytes.
LoadKey(f) == Start("key", f, IF Len(f) = KeySize THEN "key" ELSE "returned")

\* Any blob that is not empty.
Sign(f) == Start("sign", f, IF f # <<>> THEN "sign" ELSE "returned")

\* The tool exits, also in the middle of a command when it is killed.
Exit ==
    /\ pc # "idle"
    /\ pc' = "idle"
    /\ kind' = "none" /\ file' = <<>>
    /\ done' = 0 /\ size' = 0 /\ buf' = <<>>
    /\ result' = "none" /\ faulty' = FALSE
    /\ UNCHANGED rotVars

-----------------------------------------------------------------------------
(* libhoth_provisioning_log_read()                                         *)

ReadHeader ==
    /\ pc = "header"
    /\ size' = Len(log)
    /\ IF size' = 0 THEN Return("ok") ELSE pc' = "read" /\ UNCHANGED result
    /\ UNCHANGED <<rotVars, kind, file, buf, done, faulty>>

\* min_u16()
ReadSize == MinOf(size - done, ReadMax)

\* One turn of the loop.  A log that has become shorter gives a response of
\* another size; the checksum of the header is not looked at.
ReadLogChunk ==
    /\ pc = "read"
    /\ IF done + ReadSize > Len(log) THEN Return("size") /\ UNCHANGED <<done, buf>>
       ELSE IF done + ReadSize > LogMax THEN Return("too_large") /\ UNCHANGED <<done, buf>>
       ELSE /\ buf' = buf \o SubSeq(log, done + 1, done + ReadSize)
            /\ done' = done + ReadSize
            /\ IF done' < size THEN UNCHANGED <<pc, result>> ELSE Return("ok")
    /\ UNCHANGED <<rotVars, kind, file, size, faulty>>

-----------------------------------------------------------------------------
(* libhoth_provisioning_log_write(), _commit() and _validate_and_sign()    *)

WriteSize == MinOf((Len(file) - done) % Space, WriteMax)

\* Mutant: chunks are written over one another.
WriteChunkAtStart ==
    /\ pc = "write"
    /\ staging' = Overlaid(staging, 0, WriteSize)
    /\ done' = (done + WriteSize) % Space
    /\ pc' = IF done' < Len(file) THEN "write" ELSE "commit"
    /\ UNCHANGED <<log, key, key_buf, callVars, result, faulty>>

WriteChunk ==
    /\ pc = "write"
    /\ staging' = Overlaid(staging, done, WriteSize)
    /\ done' = (done + WriteSize) % Space
    /\ pc' = IF done' < Len(file) THEN "write" ELSE "commit"
    /\ UNCHANGED <<log, key, key_buf, callVars, result, faulty>>

Commit ==
    /\ pc = "commit"
    /\ IF CommitAccepts(file, Len(file) % Space)
       THEN log' = file /\ Return("ok")
       ELSE UNCHANGED log /\ Return("error")
    /\ UNCHANGED <<staging, key, key_buf, callVars, done, faulty>>

ValidateAndSign ==
    /\ pc = "sign"
    /\ Return(IF SignAccepts(file, Len(file) % Space) THEN "ok" ELSE "error")
    /\ UNCHANGED <<rotVars, callVars, done, faulty>>

-----------------------------------------------------------------------------
(* libhoth_key_provisioning_load_mldsa_key()                               *)

KeyChunkSize == MinOf(KeySize - done, KeyChunk)

\* The last chunk completes the key.
LoadKeyChunk ==
    /\ pc = "key"
    /\ key_buf' = Overlaid(key_buf, done, KeyChunkSize)
    /\ done' = done + KeyChunkSize
    /\ IF done' < KeySize THEN UNCHANGED <<pc, result, key>>
       ELSE key' = key_buf' /\ Return("ok")
    /\ UNCHANGED <<log, staging, callVars, faulty>>

-----------------------------------------------------------------------------
(* What goes wrong                                                         *)

\* Mutant: a commit that fails is not noticed.
CommandFailsUnnoticed ==
    /\ pc \in {"header", "read", "write", "commit", "sign", "key"}
    /\ \/ UNCHANGED rotVars
       \/ /\ pc = "write"
          /\ staging' = Overlaid(staging, done, WriteSize)
          /\ UNCHANGED <<log, key, key_buf>>
       \/ /\ pc = "commit" /\ CommitAccepts(file, Len(file) % Space)
          /\ log' = file
          /\ UNCHANGED <<staging, key, key_buf>>
       \/ /\ pc = "key"
          /\ key_buf' = Overlaid(key_buf, done, KeyChunkSize)
          /\ UNCHANGED <<log, staging, key>>
    /\ Return(IF pc = "commit" THEN "ok" ELSE "error")
    /\ faulty' = TRUE
    /\ UNCHANGED <<callVars, done>>

\* A host command fails; the RoT may have carried it out.
CommandFails ==
    /\ pc \in {"header", "read", "write", "commit", "sign", "key"}
    /\ \/ UNCHANGED rotVars
       \/ /\ pc = "write"
          /\ staging' = Overlaid(staging, done, WriteSize)
          /\ UNCHANGED <<log, key, key_buf>>
       \/ /\ pc = "commit" /\ CommitAccepts(file, Len(file) % Space)
          /\ log' = file
          /\ UNCHANGED <<staging, key, key_buf>>
       \/ /\ pc = "key"
          /\ key_buf' = Overlaid(key_buf, done, KeyChunkSize)
          /\ UNCHANGED <<log, staging, key>>
    /\ Return("error")
    /\ faulty' = TRUE
    /\ UNCHANGED <<callVars, done>>

\* Another client stages a byte of a log or of a key, or commits a log of its
\* own.
OtherClient ==
    /\ pc \in {"read", "write", "commit", "key"}
    /\ \/ /\ \E a \in DOMAIN staging, b \in Bytes : staging' = [staging EXCEPT ![a] = b]
          /\ UNCHANGED <<log, key_buf>>
       \/ log' \in Files(RotMax) /\ UNCHANGED <<staging, key_buf>>
       \/ /\ \E a \in DOMAIN key_buf, b \in Bytes : key_buf' = [key_buf EXCEPT ![a] = b]
          /\ UNCHANGED <<log, staging>>
    /\ faulty' = TRUE
    /\ UNCHANGED <<key, pc, callVars, done, result>>

-----------------------------------------------------------------------------
Next ==
    \/ GetLog
    \/ \E f \in Files(LogMax + 1) : WriteLog(f)
    \/ \E f \in Files(KeySize + 1) : LoadKey(f)
    \/ \E f \in Files(RotMax) : Sign(f)
    \/ ReadHeader
    \/ ReadLogChunk
    \/ WriteChunk
    \/ Commit
    \/ ValidateAndSign
    \/ LoadKeyChunk
    \/ CommandFails
    \/ OtherClient
    \/ Exit

Spec == Init /\ [][Next]_vars

-----------------------------------------------------------------------------
(* Properties                                                              *)

\* A command that reports success has done its work on the RoT, though other
\* clients stage and commit meanwhile and earlier commands broke off: the log
\* is the file, the blob signed is the file.  A key is the file unless another
\* client's chunk came between: its chunks have no checksum.
SuccessMeansStored ==
    result = "ok" =>
        /\ kind = "write" => log = file
        /\ kind = "key" /\ ~faulty => key = file
        /\ kind = "sign" => SubSeq(log, 1, Len(file)) = file

\* A log read with success is the RoT's, whole; only one that another client
\* replaced between two chunks may be a mixture.  The caller's buffer is never
\* overrun, whatever the RoT says the size is.
ReadIsWholeLog ==
    /\ Len(buf) <= LogMax
    /\ result = "ok" /\ kind = "read" /\ ~faulty => buf = log

\* A command that nothing disturbs succeeds, whatever earlier ones left behind,
\* unless its file or the RoT's log is too large or the blob is another one.
UndisturbedSucceeds ==
    pc = "returned" /\ ~faulty =>
        /\ kind = "write" =>
              result = IF Len(file) \in 1 .. LogMax THEN "ok" ELSE "invalid"
        /\ kind = "key" => result = IF Len(file) = KeySize THEN "ok" ELSE "invalid"
        /\ kind = "read" => result = IF Len(log) <= LogMax THEN "ok" ELSE "too_large"
        /\ kind = "sign" =>
              result = IF file = <<>> THEN "invalid"
                       ELSE IF file = SubSeq(log, 1, MinOf(Len(file), Len(log)))
                       THEN "ok" ELSE "error"

\* A provisioning command that reports success has done what it says: the RoT
\* holds what was written, the caller what was read.
SuccessIsTrue == SuccessMeansStored /\ ReadIsWholeLog
=============================================================================
