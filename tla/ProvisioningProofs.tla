------------------------- MODULE ProvisioningProofs -------------------------
(***************************************************************************)
(* Proofs about Provisioning, for any limits and any files: a command that *)
(* reports success has done its work, and one that nothing disturbs        *)
(* succeeds, whatever failed or was interrupted before it.                 *)
(***************************************************************************)
EXTENDS Provisioning, TLAPS

\* A file of at most max bytes, as a sequence.
FileOf(max) == {f \in Seq(Bytes) : Len(f) <= max}

TypeOK ==
    /\ log \in FileOf(RotMax)
    /\ staging \in [1 .. RotMax -> Bytes \union {Blank}]
    /\ key_buf \in [1 .. KeySize -> Bytes \union {Blank}]
    /\ pc \in {"idle", "header", "read", "write", "commit", "sign", "key",
               "returned"}
    /\ file \in Seq(Bytes)
    /\ done \in Nat /\ size \in Nat
    /\ faulty \in BOOLEAN

\* The first n bytes of an area are those of the file.
Stored(area, n) == \A a \in 1 .. n : area[a] = file[a]

\* A write that nothing disturbed has staged the file up to its position.
Writing ==
    /\ pc \in {"write", "commit"} => kind = "write" /\ Len(file) \in 1 .. LogMax
    /\ pc = "write" => done < Len(file)
    /\ pc = "commit" => done = Len(file)
    /\ pc \in {"write", "commit"} /\ ~faulty => Stored(staging, done)

\* What has arrived of a key is the file's while no other client's chunk came.
Loading ==
    pc = "key" => /\ kind = "key" /\ Len(file) = KeySize
                  /\ done < KeySize
                  /\ ~faulty => Stored(key_buf, done)

\* A read that nothing disturbed has the log up to its position.
Reading ==
    /\ pc = "header" => kind = "read" /\ done = 0 /\ buf = <<>>
    /\ pc = "read" =>
          /\ kind = "read" /\ done < size /\ done <= LogMax
          /\ buf \in Seq(Bytes) /\ Len(buf) = done
          /\ ~faulty => size = Len(log) /\ buf = SubSeq(log, 1, done)

Signing ==
    pc = "sign" => /\ kind = "sign" /\ file # <<>>
                   /\ Len(file) <= RotMax

Quiet ==
    /\ pc = "idle" => done = 0 /\ buf = <<>>
    /\ result # "none" => pc = "returned"
    /\ pc = "returned" => kind \in {"write", "key", "read", "sign"}

\* The inductive invariant.
ProvInv ==
    /\ TypeOK /\ Writing /\ Loading /\ Reading /\ Signing /\ Quiet
    /\ SuccessMeansStored /\ ReadIsWholeLog /\ UndisturbedSucceeds
-----------------------------------------------------------------------------
(* What the operators compute                                              *)

\* The constants are numbers.
LEMMA ConstantsAreNumbers ==
    ASSUME ProvisioningAssumption
    PROVE  /\ LogMax \in Nat \ {0} /\ WriteMax \in Nat \ {0}
           /\ ReadMax \in Nat \ {0} /\ KeySize \in Nat \ {0}
           /\ KeyChunk \in Nat \ {0} /\ Space \in Nat /\ RotMax \in Nat
           /\ LogMax <= RotMax /\ RotMax < Space
  BY DEF ProvisioningAssumption

\* The files of a command are sequences of bytes.
LEMMA FilesAreSequences ==
    ASSUME NEW max \in Nat, NEW f \in Files(max)
    PROVE  f \in FileOf(max)
<1>1. PICK n \in 0 .. max : f \in [1 .. n -> Bytes]
  BY DEF Files
<1>2. f \in Seq(Bytes) /\ Len(f) = n
  BY <1>1
<1>3. QED
  BY <1>2 DEF FileOf

\* A size that fits is not changed by being sent as 16 bits.
LEMMA SizeExact ==
    ASSUME NEW n \in Nat, NEW m \in Nat, n < m PROVE n % m = n
  OBVIOUS

\* Writing the next n bytes of the file to an area stores them, and keeps what
\* was stored before.
LEMMA OverlaidExtends ==
    ASSUME NEW max \in Nat, NEW area \in [1 .. max -> Bytes \union {Blank}],
           NEW at \in Nat, NEW n \in Nat, file \in Seq(Bytes),
           at + n <= Len(file), at + n <= max
    PROVE  /\ Overlaid(area, at, n) \in [1 .. max -> Bytes \union {Blank}]
           /\ Stored(area, at) => Stored(Overlaid(area, at, n), at + n)
<1>1. \A a \in 1 .. max : a \in at + 1 .. at + n => file[a] \in Bytes
  OBVIOUS
<1>2. Overlaid(area, at, n) \in [1 .. max -> Bytes \union {Blank}]
  BY <1>1 DEF Overlaid
<1>3. ASSUME Stored(area, at), NEW a \in 1 .. at + n
      PROVE  Overlaid(area, at, n)[a] = file[a]
  <2>1. a \in 1 .. max /\ (a \in 1 .. at \/ a \in at + 1 .. at + n)
    OBVIOUS
  <2>2. QED
    BY <1>3, <2>1 DEF Overlaid, Stored
<1>4. QED
  BY <1>2, <1>3 DEF Stored

\* An area that stores all of the file begins with it.
LEMMA StoredIsPrefix ==
    ASSUME NEW max \in Nat, NEW area \in [1 .. max -> Bytes \union {Blank}],
           file \in Seq(Bytes), Len(file) <= max, Stored(area, Len(file))
    PROVE  SubSeq(area, 1, Len(file)) = file
<1>1. area \in Seq(Bytes \union {Blank}) /\ Len(area) = max
  OBVIOUS
<1>2. \A a \in 1 .. Len(file) : area[a] = file[a]
  BY DEF Stored
<1>3. QED
  BY <1>1, <1>2

\* A part of a sequence, and the part after it, make the part up to its end.
LEMMA PartsJoin ==
    ASSUME NEW s \in Seq(Bytes), NEW m \in Nat, NEW n \in Nat, m + n <= Len(s)
    PROVE  /\ SubSeq(s, m + 1, m + n) \in Seq(Bytes)
           /\ Len(SubSeq(s, m + 1, m + n)) = n
           /\ SubSeq(s, 1, m) \o SubSeq(s, m + 1, m + n) = SubSeq(s, 1, m + n)
  OBVIOUS

-----------------------------------------------------------------------------
(* The steps                                                               *)

\* A RoT that nothing was written to, and no command.
LEMMA ProvInit == ASSUME ProvisioningAssumption, Init PROVE ProvInv
<1>1. RotMax \in Nat /\ KeySize \in Nat /\ LogMax \in Nat
  BY ConstantsAreNumbers
<1>2. log \in FileOf(RotMax)
  BY <1>1, FilesAreSequences DEF Init
<1>3. TypeOK
  <2>1. \A n : Untouched(n) \in [1 .. n -> Bytes \union {Blank}]
    BY DEF Untouched
  <2>2. <<>> \in Seq(Bytes)
    OBVIOUS
  <2>3. QED
    BY <1>2, <2>1, <2>2 DEF Init, TypeOK
<1>4. Writing /\ Loading /\ Reading /\ Signing /\ Quiet
  BY DEF Init, Writing, Loading, Reading, Signing, Quiet
<1>5. SuccessMeansStored /\ ReadIsWholeLog /\ UndisturbedSucceeds
  BY <1>1 DEF Init, SuccessMeansStored, ReadIsWholeLog, UndisturbedSucceeds
<1>6. QED
  BY <1>3, <1>4, <1>5 DEF ProvInv

\* A command starts with a file, which it refuses at once when its size is not
\* one the command takes.
LEMMA StartStep ==
    ASSUME ProvisioningAssumption, ProvInv,
           \/ GetLog
           \/ \E f \in Files(LogMax + 1) : WriteLog(f)
           \/ \E f \in Files(KeySize + 1) : LoadKey(f)
           \/ \E f \in Files(RotMax) : Sign(f)
    PROVE  ProvInv'
<1>1. /\ LogMax \in Nat \ {0} /\ KeySize \in Nat \ {0} /\ RotMax \in Nat
  BY ConstantsAreNumbers
<1> DEFINE Began(command, f, place, r) ==
             /\ kind' = command /\ file' = f /\ faulty' = FALSE
             /\ UNCHANGED <<log, staging, key, key_buf, done, size, buf>>
             /\ pc' = place /\ result' = r
<1>2. pc = "idle" /\ done = 0 /\ buf = <<>> /\ result = "none"
  BY DEF GetLog, WriteLog, LoadKey, Sign, Start, ProvInv, Quiet
<1>3. CASE GetLog
  <2>1. Began("read", <<>>, "header", "none")
    BY <1>2, <1>3 DEF GetLog, Start, rotVars
  <2>2. <<>> \in Seq(Bytes)
    OBVIOUS
  <2>3. TypeOK' /\ Quiet'
    BY <1>1, <1>2, <2>1, <2>2 DEF ProvInv, TypeOK, Quiet
  <2>4. Writing' /\ Loading' /\ Reading' /\ Signing'
    BY <1>1, <1>2, <2>1 DEF Writing, Loading, Reading, Signing
  <2>5. SuccessMeansStored' /\ ReadIsWholeLog' /\ UndisturbedSucceeds'
    BY <1>1, <1>2, <2>1 DEF SuccessMeansStored, ReadIsWholeLog,
       UndisturbedSucceeds
  <2>6. QED
    BY <2>3, <2>4, <2>5 DEF ProvInv
<1>4. ASSUME NEW f \in Files(LogMax + 1), WriteLog(f) PROVE ProvInv'
  <2>1. f \in Seq(Bytes) /\ Len(f) <= LogMax + 1
    BY <1>1, FilesAreSequences DEF FileOf
  <2>2. CASE Len(f) \in 1 .. LogMax
    <3>1. Began("write", f, "write", "none")
      BY <1>2, <1>4, <2>2 DEF WriteLog, Start, Return, rotVars
    <3>2. TypeOK' /\ Quiet'
      BY <1>1, <1>2, <2>1, <3>1 DEF ProvInv, TypeOK, Quiet
    <3>3. Writing' /\ Loading' /\ Reading' /\ Signing'
      BY <1>1, <1>2, <2>1, <2>2, <3>1 DEF Writing, Loading, Reading, Signing, Stored
    <3>4. SuccessMeansStored' /\ ReadIsWholeLog' /\ UndisturbedSucceeds'
      BY <1>1, <1>2, <2>1, <2>2, <3>1 DEF SuccessMeansStored, ReadIsWholeLog,
         UndisturbedSucceeds
    <3>5. QED
      BY <3>2, <3>3, <3>4 DEF ProvInv
  <2>3. CASE Len(f) \notin 1 .. LogMax
    <3>1. Began("write", f, "returned", "invalid")
      BY <1>2, <1>4, <2>3 DEF WriteLog, Start, Return, rotVars
    <3>2. TypeOK' /\ Quiet'
      BY <1>1, <1>2, <2>1, <3>1 DEF ProvInv, TypeOK, Quiet
    <3>3. Writing' /\ Loading' /\ Reading' /\ Signing'
      BY <1>1, <1>2, <2>1, <2>3, <3>1 DEF Writing, Loading, Reading, Signing, Stored
    <3>4. SuccessMeansStored' /\ ReadIsWholeLog' /\ UndisturbedSucceeds'
      BY <1>1, <1>2, <2>1, <2>3, <3>1 DEF SuccessMeansStored, ReadIsWholeLog,
         UndisturbedSucceeds
    <3>5. QED
      BY <3>2, <3>3, <3>4 DEF ProvInv
  <2>4. QED
    BY <2>2, <2>3
<1>5. ASSUME NEW f \in Files(KeySize + 1), LoadKey(f) PROVE ProvInv'
  <2>1. f \in Seq(Bytes) /\ Len(f) <= KeySize + 1
    BY <1>1, FilesAreSequences DEF FileOf
  <2>2. CASE Len(f) = KeySize
    <3>1. Began("key", f, "key", "none")
      BY <1>2, <1>5, <2>2 DEF LoadKey, Start, Return, rotVars
    <3>2. TypeOK' /\ Quiet'
      BY <1>1, <1>2, <2>1, <3>1 DEF ProvInv, TypeOK, Quiet
    <3>3. Writing' /\ Loading' /\ Reading' /\ Signing'
      BY <1>1, <1>2, <2>1, <2>2, <3>1 DEF Writing, Loading, Reading, Signing, Stored
    <3>4. SuccessMeansStored' /\ ReadIsWholeLog' /\ UndisturbedSucceeds'
      BY <1>1, <1>2, <2>1, <2>2, <3>1 DEF SuccessMeansStored, ReadIsWholeLog,
         UndisturbedSucceeds
    <3>5. QED
      BY <3>2, <3>3, <3>4 DEF ProvInv
  <2>3. CASE Len(f) # KeySize
    <3>1. Began("key", f, "returned", "invalid")
      BY <1>2, <1>5, <2>3 DEF LoadKey, Start, Return, rotVars
    <3>2. TypeOK' /\ Quiet'
      BY <1>1, <1>2, <2>1, <3>1 DEF ProvInv, TypeOK, Quiet
    <3>3. Writing' /\ Loading' /\ Reading' /\ Signing'
      BY <1>1, <1>2, <2>1, <2>3, <3>1 DEF Writing, Loading, Reading, Signing, Stored
    <3>4. SuccessMeansStored' /\ ReadIsWholeLog' /\ UndisturbedSucceeds'
      BY <1>1, <1>2, <2>1, <2>3, <3>1 DEF SuccessMeansStored, ReadIsWholeLog,
         UndisturbedSucceeds
    <3>5. QED
      BY <3>2, <3>3, <3>4 DEF ProvInv
  <2>4. QED
    BY <2>2, <2>3
<1>6. ASSUME NEW f \in Files(RotMax), Sign(f) PROVE ProvInv'
  <2>1. f \in Seq(Bytes) /\ Len(f) <= RotMax
    BY <1>1, FilesAreSequences DEF FileOf
  <2>2. CASE f # <<>>
    <3>1. Began("sign", f, "sign", "none")
      BY <1>2, <1>6, <2>2 DEF Sign, Start, Return, rotVars
    <3>2. TypeOK' /\ Quiet'
      BY <1>1, <1>2, <2>1, <3>1 DEF ProvInv, TypeOK, Quiet
    <3>3. Writing' /\ Loading' /\ Reading' /\ Signing'
      BY <1>1, <1>2, <2>1, <2>2, <3>1 DEF Writing, Loading, Reading, Signing, Stored
    <3>4. SuccessMeansStored' /\ ReadIsWholeLog' /\ UndisturbedSucceeds'
      BY <1>1, <1>2, <2>1, <2>2, <3>1 DEF SuccessMeansStored, ReadIsWholeLog,
         UndisturbedSucceeds
    <3>5. QED
      BY <3>2, <3>3, <3>4 DEF ProvInv
  <2>3. CASE f = <<>>
    <3>1. Began("sign", f, "returned", "invalid")
      BY <1>2, <1>6, <2>3 DEF Sign, Start, Return, rotVars
    <3>2. TypeOK' /\ Quiet'
      BY <1>1, <1>2, <2>1, <3>1 DEF ProvInv, TypeOK, Quiet
    <3>3. Writing' /\ Loading' /\ Reading' /\ Signing'
      BY <1>1, <1>2, <2>1, <2>3, <3>1 DEF Writing, Loading, Reading, Signing, Stored
    <3>4. SuccessMeansStored' /\ ReadIsWholeLog' /\ UndisturbedSucceeds'
      BY <1>1, <1>2, <2>1, <2>3, <3>1 DEF SuccessMeansStored, ReadIsWholeLog,
         UndisturbedSucceeds
    <3>5. QED
      BY <3>2, <3>3, <3>4 DEF ProvInv
  <2>4. QED
    BY <2>2, <2>3
<1>7. QED
  BY <1>3, <1>4, <1>5, <1>6

\* libhoth_provisioning_log_read(): the header gives the size, and the chunks
\* add up to a prefix of the log as long as nobody replaces it.
LEMMA ReadStep ==
    ASSUME ProvisioningAssumption, ProvInv, ReadHeader \/ ReadLogChunk
    PROVE  ProvInv'
<1>1. LogMax \in Nat \ {0} /\ ReadMax \in Nat \ {0} /\ RotMax \in Nat
  BY ConstantsAreNumbers
<1>2. /\ log \in Seq(Bytes) /\ file \in Seq(Bytes) /\ done \in Nat /\ size \in Nat
      /\ faulty \in BOOLEAN
  BY DEF ProvInv, TypeOK, FileOf
<1>3. CASE ReadHeader
  <2>1. /\ pc = "header" /\ kind = "read" /\ done = 0 /\ buf = <<>>
        /\ size' = Len(log) /\ result = "none"
        /\ UNCHANGED <<log, staging, key, key_buf, kind, file, buf, done, faulty>>
    BY <1>3 DEF ReadHeader, rotVars, ProvInv, Reading, Quiet
  <2>2. CASE Len(log) = 0
    <3>1. log = <<>> /\ pc' = "returned" /\ result' = "ok"
      BY <1>2, <1>3, <2>1, <2>2 DEF ReadHeader, Return
    <3>2. QED
      BY <1>1, <1>2, <2>1, <2>2, <3>1 DEF ProvInv, TypeOK, Writing, Loading,
         Reading, Signing, Quiet, SuccessMeansStored, ReadIsWholeLog,
         UndisturbedSucceeds
  <2>3. CASE Len(log) # 0
    <3>1. pc' = "read" /\ result' = "none"
      BY <1>3, <2>1, <2>3 DEF ReadHeader
    <3>2. SubSeq(log, 1, 0) = <<>> /\ <<>> \in Seq(Bytes)
      BY <1>2
    <3>3. QED
      BY <1>1, <1>2, <2>1, <2>3, <3>1, <3>2 DEF ProvInv, TypeOK, Writing,
         Loading, Reading, Signing, Quiet, SuccessMeansStored, ReadIsWholeLog,
         UndisturbedSucceeds
  <2>4. QED
    BY <2>2, <2>3
<1>4. CASE ReadLogChunk
  <2>1. /\ pc = "read" /\ kind = "read" /\ done < size /\ done <= LogMax
        /\ buf \in Seq(Bytes) /\ Len(buf) = done
        /\ ~faulty => size = Len(log) /\ buf = SubSeq(log, 1, done)
        /\ UNCHANGED <<log, staging, key, key_buf, kind, file, size, faulty>>
        /\ result = "none"
    BY <1>4 DEF ReadLogChunk, rotVars, ProvInv, Reading, Quiet
  <2>2. ReadSize \in Nat /\ ReadSize > 0 /\ done + ReadSize <= size
    BY <1>1, <1>2, <2>1 DEF ReadSize, MinOf
  <2>3. CASE done + ReadSize > Len(log)
    <3>1. /\ pc' = "returned" /\ result' = "size" /\ UNCHANGED <<done, buf>>
          /\ faulty
      BY <1>2, <1>4, <2>1, <2>2, <2>3 DEF ReadLogChunk, Return
    <3>2. QED
      BY <1>1, <1>2, <2>1, <3>1 DEF ProvInv, TypeOK, Writing, Loading,
         Reading, Signing, Quiet, SuccessMeansStored, ReadIsWholeLog,
         UndisturbedSucceeds
  <2>4. CASE done + ReadSize <= Len(log) /\ done + ReadSize > LogMax
    <3>1. /\ pc' = "returned" /\ result' = "too_large"
          /\ UNCHANGED <<done, buf>> /\ ~(Len(log) <= LogMax)
      BY <1>1, <1>2, <1>4, <2>1, <2>2, <2>4 DEF ReadLogChunk, Return
    <3>2. QED
      BY <1>1, <1>2, <2>1, <3>1 DEF ProvInv, TypeOK, Writing, Loading,
         Reading, Signing, Quiet, SuccessMeansStored, ReadIsWholeLog,
         UndisturbedSucceeds
  <2>5. CASE done + ReadSize <= Len(log) /\ done + ReadSize <= LogMax
    <3>0. ~(done + ReadSize > Len(log)) /\ ~(done + ReadSize > LogMax)
      BY <1>1, <1>2, <2>2, <2>5
    <3>1. /\ buf' = buf \o SubSeq(log, done + 1, done + ReadSize)
          /\ done' = done + ReadSize
          /\ done' < size => pc' = "read" /\ result' = "none"
          /\ ~(done' < size) => pc' = "returned" /\ result' = "ok"
      <4> HIDE DEF ReadSize
      <4>1. QED
        BY <1>4, <2>1, <3>0, Zenon DEF ReadLogChunk, Return
    <3>2. /\ SubSeq(log, done + 1, done + ReadSize) \in Seq(Bytes)
          /\ Len(SubSeq(log, done + 1, done + ReadSize)) = ReadSize
          /\ SubSeq(log, 1, done) \o SubSeq(log, done + 1, done + ReadSize)
               = SubSeq(log, 1, done + ReadSize)
      BY <1>2, <2>2, <2>5, PartsJoin
    <3>3. /\ buf' \in Seq(Bytes) /\ Len(buf') = done' /\ done' \in Nat
          /\ done' <= LogMax /\ done' <= size /\ done' <= Len(log)
          /\ ~faulty => buf' = SubSeq(log, 1, done')
      <4>1. done' \in Nat /\ done' <= LogMax /\ done' <= size /\ done' <= Len(log)
        BY <1>2, <2>2, <2>5, <3>1
      <4>2. ASSUME NEW t \in Seq(Bytes)
            PROVE  buf \o t \in Seq(Bytes) /\ Len(buf \o t) = done + Len(t)
        BY <2>1
      <4>3. buf' \in Seq(Bytes) /\ Len(buf') = done'
        BY <3>1, <3>2, <4>2
      <4>4. ~faulty => buf' = SubSeq(log, 1, done')
        BY <2>1, <3>1, <3>2
      <4>5. QED
        BY <4>1, <4>3, <4>4
    <3>4. SubSeq(log, 1, Len(log)) = log
      BY <1>2
    <3>5. CASE done' < size
      BY <1>1, <1>2, <2>1, <3>1, <3>3, <3>5 DEF ProvInv, TypeOK, Writing,
         Loading, Reading, Signing, Quiet, SuccessMeansStored, ReadIsWholeLog,
         UndisturbedSucceeds
    <3>6. CASE ~(done' < size)
      <4>1. ~faulty => buf' = log /\ Len(log) <= LogMax
        <5> SUFFICES ASSUME ~faulty PROVE buf' = log /\ Len(log) <= LogMax
          OBVIOUS
        <5>1. size = Len(log) /\ buf' = SubSeq(log, 1, done')
          BY <2>1, <3>3
        <5>2. done' = Len(log)
          BY <1>2, <3>3, <3>6, <5>1
        <5>3. QED
          BY <3>3, <3>4, <5>1, <5>2
      <4>2. QED
        BY <1>1, <1>2, <2>1, <3>1, <3>3, <3>6, <4>1 DEF ProvInv, TypeOK,
           Writing, Loading, Reading, Signing, Quiet, SuccessMeansStored,
           ReadIsWholeLog, UndisturbedSucceeds
    <3>7. QED
      BY <3>5, <3>6
  <2>6. QED
    BY <1>1, <1>2, <2>2, <2>3, <2>4, <2>5
<1>5. QED
  BY <1>3, <1>4

\* libhoth_provisioning_log_write(): the chunks follow one another, and the
\* positions fit in the 16 bits they are sent in.
LEMMA WriteStep ==
    ASSUME ProvisioningAssumption, ProvInv, WriteChunk PROVE ProvInv'
<1>1. /\ LogMax \in Nat \ {0} /\ WriteMax \in Nat \ {0} /\ RotMax \in Nat
      /\ Space \in Nat /\ LogMax <= RotMax /\ RotMax < Space
  BY ConstantsAreNumbers
<1>2. /\ file \in Seq(Bytes) /\ done \in Nat /\ faulty \in BOOLEAN
      /\ staging \in [1 .. RotMax -> Bytes \union {Blank}]
      /\ pc = "write" /\ kind = "write" /\ result = "none" /\ done < Len(file)
      /\ Len(file) \in 1 .. LogMax
      /\ ~faulty => Stored(staging, done)
  BY DEF ProvInv, TypeOK, Writing, Quiet, WriteChunk
<1>3. WriteSize \in Nat /\ done + WriteSize <= Len(file)
  <2>0. Len(file) - done \in Nat /\ Len(file) - done < Space
    BY <1>1, <1>2
  <2>1. (Len(file) - done) % Space = Len(file) - done
    BY <1>1, <2>0, SizeExact
  <2>2. QED
    BY <1>1, <1>2, <2>1 DEF WriteSize, MinOf
<1>4. /\ staging' = Overlaid(staging, done, WriteSize)
      /\ done' = done + WriteSize /\ done' \in Nat /\ done' <= Len(file)
      /\ pc' = IF done' < Len(file) THEN "write" ELSE "commit"
      /\ UNCHANGED <<log, key, key_buf, kind, file, size, buf, result, faulty>>
  <2>0. done + WriteSize \in Nat /\ done + WriteSize < Space
    BY <1>1, <1>2, <1>3
  <2>1. (done + WriteSize) % Space = done + WriteSize
    BY <1>1, <2>0, SizeExact
  <2>2. QED
    BY <1>2, <1>3, <2>1 DEF WriteChunk, callVars
<1>5. /\ staging' \in [1 .. RotMax -> Bytes \union {Blank}]
      /\ ~faulty => \A a \in 1 .. done' : staging'[a] = file[a]
  <2>1. done + WriteSize <= RotMax
    BY <1>1, <1>2, <1>3
  <2>2. /\ Overlaid(staging, done, WriteSize)
              \in [1 .. RotMax -> Bytes \union {Blank}]
        /\ ~faulty =>
              Stored(Overlaid(staging, done, WriteSize), done + WriteSize)
    BY <1>1, <1>2, <1>3, <2>1, OverlaidExtends
  <2>3. QED
    BY <1>4, <2>2 DEF Stored
<1>6. TypeOK' /\ Quiet'
  BY <1>2, <1>4, <1>5 DEF ProvInv, TypeOK, Quiet
<1>7. Writing'
  BY <1>2, <1>4, <1>5 DEF Writing, Stored
<1>8. Loading' /\ Reading' /\ Signing'
  BY <1>4 DEF Loading, Reading, Signing
<1>9. SuccessMeansStored' /\ ReadIsWholeLog' /\ UndisturbedSucceeds'
  BY <1>2, <1>4 DEF ProvInv, SuccessMeansStored, ReadIsWholeLog,
     UndisturbedSucceeds
<1>10. QED
  BY <1>6, <1>7, <1>8, <1>9 DEF ProvInv

\* libhoth_provisioning_log_commit(): what was staged undisturbed is the file.
LEMMA CommitStep ==
    ASSUME ProvisioningAssumption, ProvInv, Commit PROVE ProvInv'
<1>1. /\ LogMax \in Nat /\ RotMax \in Nat /\ Space \in Nat
      /\ LogMax <= RotMax /\ RotMax < Space
  BY ConstantsAreNumbers
<1>2. /\ file \in Seq(Bytes) /\ faulty \in BOOLEAN
      /\ staging \in [1 .. RotMax -> Bytes \union {Blank}]
      /\ pc = "commit" /\ kind = "write" /\ done = Len(file)
      /\ Len(file) \in 1 .. LogMax
      /\ ~faulty => Stored(staging, Len(file))
  BY DEF ProvInv, TypeOK, Writing, Commit
<1>3. ~faulty => CommitAccepts(file, Len(file) % Space)
  <2>0. Len(file) \in Nat /\ Len(file) < Space /\ Len(file) <= RotMax
    BY <1>1, <1>2
  <2>1. Len(file) % Space = Len(file) /\ Len(file) <= RotMax
    BY <1>1, <2>0, SizeExact
  <2>2. ~faulty => SubSeq(staging, 1, Len(file)) = file
    BY <1>1, <1>2, <2>1, StoredIsPrefix
  <2>3. QED
    BY <2>1, <2>2 DEF CommitAccepts
<1>4. /\ pc' = "returned"
      /\ \/ log' = file /\ result' = "ok"
         \/ log' = log /\ result' = "error" /\ faulty
      /\ UNCHANGED <<staging, key, key_buf, kind, file, size, buf, done, faulty>>
  BY <1>3 DEF Commit, Return, callVars
<1>5. TypeOK' /\ Quiet'
  BY <1>1, <1>2, <1>4 DEF ProvInv, TypeOK, Quiet, FileOf
<1>6. Writing' /\ Loading' /\ Reading' /\ Signing'
  BY <1>4 DEF Writing, Loading, Reading, Signing
<1>7. SuccessMeansStored' /\ ReadIsWholeLog' /\ UndisturbedSucceeds'
  BY <1>2, <1>4 DEF ProvInv, SuccessMeansStored, ReadIsWholeLog,
     UndisturbedSucceeds
<1>8. QED
  BY <1>5, <1>6, <1>7 DEF ProvInv

\* libhoth_provisioning_validate_and_sign(): the RoT signs exactly when its log
\* begins with the blob.
LEMMA SignStep ==
    ASSUME ProvisioningAssumption, ProvInv, ValidateAndSign PROVE ProvInv'
<1>1. RotMax \in Nat /\ Space \in Nat /\ RotMax < Space
  BY ConstantsAreNumbers
<1>2. /\ file \in Seq(Bytes) /\ log \in Seq(Bytes) /\ pc = "sign"
      /\ kind = "sign" /\ file # <<>> /\ Len(file) <= RotMax
  BY DEF ProvInv, TypeOK, FileOf, Signing, ValidateAndSign
<1>3. Len(file) % Space = Len(file)
  BY <1>1, <1>2, SizeExact
<1>4. SignAccepts(file, Len(file) % Space) <=>
        file = SubSeq(log, 1, MinOf(Len(file), Len(log)))
  <2>1. CASE Len(file) <= Len(log)
    <3>1. MinOf(Len(file), Len(log)) = Len(file)
      BY <2>1 DEF MinOf
    <3>2. QED
      BY <1>3, <2>1, <3>1 DEF SignAccepts
  <2>2. CASE ~(Len(file) <= Len(log))
    <3>1. MinOf(Len(file), Len(log)) = Len(log)
      BY <2>2 DEF MinOf
    <3>2. Len(SubSeq(log, 1, Len(log))) = Len(log)
      BY <1>2
    <3>3. Len(file) \in Nat /\ Len(log) \in Nat
      BY <1>2
    <3>4. file # SubSeq(log, 1, Len(log))
      BY <2>2, <3>2, <3>3
    <3>5. QED
      BY <1>3, <2>2, <3>1, <3>4 DEF SignAccepts
  <2>3. QED
    BY <2>1, <2>2
<1>5. /\ pc' = "returned"
      /\ result' = IF file = SubSeq(log, 1, MinOf(Len(file), Len(log)))
                   THEN "ok" ELSE "error"
      /\ UNCHANGED <<log, staging, key, key_buf, kind, file, size, buf, done,
                     faulty>>
  BY <1>4 DEF ValidateAndSign, Return, callVars, rotVars
<1>6. result' = "ok" => SubSeq(log, 1, Len(file)) = file
  BY <1>3, <1>4, <1>5 DEF SignAccepts
<1>7. TypeOK' /\ Quiet'
  BY <1>2, <1>5 DEF ProvInv, TypeOK, Quiet
<1>8. Writing' /\ Loading' /\ Reading' /\ Signing'
  BY <1>5 DEF Writing, Loading, Reading, Signing
<1>9. SuccessMeansStored' /\ ReadIsWholeLog'
  BY <1>2, <1>5, <1>6 DEF ProvInv, SuccessMeansStored, ReadIsWholeLog
<1>10. UndisturbedSucceeds'
  BY <1>2, <1>5 DEF UndisturbedSucceeds
<1>11. QED
  BY <1>7, <1>8, <1>9, <1>10 DEF ProvInv

\* libhoth_key_provisioning_load_mldsa_key(): the last chunk completes the key.
LEMMA KeyStep ==
    ASSUME ProvisioningAssumption, ProvInv, LoadKeyChunk PROVE ProvInv'
<1>1. KeySize \in Nat /\ KeyChunk \in Nat \ {0}
  BY ConstantsAreNumbers
<1>2. /\ file \in Seq(Bytes) /\ done \in Nat /\ pc = "key" /\ kind = "key"
      /\ key_buf \in [1 .. KeySize -> Bytes \union {Blank}]
      /\ Len(file) = KeySize /\ done < KeySize /\ result = "none"
      /\ ~faulty => Stored(key_buf, done)
      /\ faulty \in BOOLEAN
  BY DEF ProvInv, TypeOK, Loading, Quiet, LoadKeyChunk
<1>3. KeyChunkSize \in Nat /\ done + KeyChunkSize <= KeySize
  BY <1>1, <1>2 DEF KeyChunkSize, MinOf
<1>4. /\ key_buf' = Overlaid(key_buf, done, KeyChunkSize)
      /\ done' = done + KeyChunkSize /\ done' \in Nat /\ done' <= KeySize
      /\ UNCHANGED <<log, staging, kind, file, size, buf, faulty>>
      /\ \/ done' < KeySize /\ pc' = "key" /\ result' = "none" /\ key' = key
         \/ done' = KeySize /\ pc' = "returned" /\ result' = "ok"
            /\ key' = key_buf'
  BY <1>1, <1>2, <1>3 DEF LoadKeyChunk, Return, callVars
<1>5. /\ key_buf' \in [1 .. KeySize -> Bytes \union {Blank}]
      /\ ~faulty => \A a \in 1 .. done' : key_buf'[a] = file[a]
  <2>1. /\ Overlaid(key_buf, done, KeyChunkSize)
              \in [1 .. KeySize -> Bytes \union {Blank}]
        /\ ~faulty =>
              Stored(Overlaid(key_buf, done, KeyChunkSize), done + KeyChunkSize)
    BY <1>1, <1>2, <1>3, OverlaidExtends
  <2>2. QED
    BY <1>4, <2>1 DEF Stored
<1>6. pc' = "returned" /\ ~faulty => key' = file
  BY <1>2, <1>4, <1>5
<1>7. TypeOK' /\ Quiet'
  BY <1>2, <1>4, <1>5 DEF ProvInv, TypeOK, Quiet
<1>8. Writing' /\ Loading' /\ Reading' /\ Signing'
  BY <1>2, <1>4, <1>5 DEF Writing, Loading, Reading, Signing, Stored
<1>9. SuccessMeansStored' /\ ReadIsWholeLog' /\ UndisturbedSucceeds'
  BY <1>2, <1>4, <1>6 DEF ProvInv, SuccessMeansStored, ReadIsWholeLog,
     UndisturbedSucceeds
<1>10. QED
  BY <1>7, <1>8, <1>9 DEF ProvInv

\* A host command fails, carried out or not; another client comes between two
\* commands; the tool exits.  None of these makes a result look better.
LEMMA DisturbedStep ==
    ASSUME ProvisioningAssumption, ProvInv, CommandFails \/ OtherClient \/ Exit
    PROVE  ProvInv'
<1>1. /\ LogMax \in Nat \ {0} /\ WriteMax \in Nat \ {0} /\ RotMax \in Nat
      /\ KeySize \in Nat /\ KeyChunk \in Nat \ {0}
      /\ Space \in Nat /\ LogMax <= RotMax /\ RotMax < Space
  BY ConstantsAreNumbers
<1>2. /\ log \in FileOf(RotMax) /\ file \in Seq(Bytes) /\ done \in Nat
      /\ staging \in [1 .. RotMax -> Bytes \union {Blank}]
      /\ key_buf \in [1 .. KeySize -> Bytes \union {Blank}]
  BY DEF ProvInv, TypeOK
<1>3. CASE CommandFails
  <2>1. /\ pc \in {"header", "read", "write", "commit", "sign", "key"}
        /\ pc' = "returned" /\ result' = "error" /\ faulty' = TRUE
        /\ UNCHANGED <<kind, file, size, buf, done>>
    BY <1>3 DEF CommandFails, Return, callVars
  <2>2. /\ log' \in FileOf(RotMax)
        /\ staging' \in [1 .. RotMax -> Bytes \union {Blank}]
        /\ key_buf' \in [1 .. KeySize -> Bytes \union {Blank}]
    <3>1. CASE UNCHANGED rotVars
      BY <1>2, <3>1 DEF rotVars
    <3>2. CASE /\ pc = "write"
               /\ staging' = Overlaid(staging, done, WriteSize)
               /\ UNCHANGED <<log, key, key_buf>>
      <4>1. Len(file) \in 1 .. LogMax /\ done < Len(file)
        BY <3>2 DEF ProvInv, Writing
      <4>2. Len(file) - done \in Nat /\ Len(file) - done < Space
        BY <1>1, <1>2, <4>1
      <4>3. (Len(file) - done) % Space = Len(file) - done
        BY <1>1, <4>2, SizeExact
      <4>4. /\ WriteSize \in Nat /\ done + WriteSize <= Len(file)
            /\ done + WriteSize <= RotMax
        BY <1>1, <1>2, <4>1, <4>3 DEF WriteSize, MinOf
      <4>5. Overlaid(staging, done, WriteSize)
               \in [1 .. RotMax -> Bytes \union {Blank}]
        BY <1>1, <1>2, <4>4, OverlaidExtends
      <4>6. QED
        BY <1>2, <3>2, <4>5
    <3>3. CASE pc = "commit" /\ log' = file /\ UNCHANGED <<staging, key, key_buf>>
      <4>1. Len(file) \in 1 .. LogMax
        BY <3>3 DEF ProvInv, Writing
      <4>2. QED
        BY <1>1, <1>2, <3>3, <4>1 DEF FileOf
    <3>4. CASE /\ pc = "key"
               /\ key_buf' = Overlaid(key_buf, done, KeyChunkSize)
               /\ UNCHANGED <<log, staging, key>>
      <4>1. Len(file) = KeySize /\ done < KeySize
        BY <3>4 DEF ProvInv, Loading
      <4>2. KeyChunkSize \in Nat /\ done + KeyChunkSize <= KeySize
        BY <1>1, <1>2, <4>1 DEF KeyChunkSize, MinOf
      <4>3. Overlaid(key_buf, done, KeyChunkSize)
               \in [1 .. KeySize -> Bytes \union {Blank}]
        BY <1>1, <1>2, <4>1, <4>2, OverlaidExtends
      <4>4. QED
        BY <1>2, <3>4, <4>3
    <3>5. QED
      BY <1>3, <3>1, <3>2, <3>3, <3>4 DEF CommandFails
  <2>3. TypeOK'
    BY <2>1, <2>2 DEF ProvInv, TypeOK
  <2>4. Quiet'
    BY <2>1 DEF ProvInv, Quiet, Writing, Loading, Reading, Signing
  <2>5. Writing' /\ Loading' /\ Reading' /\ Signing'
    BY <2>1 DEF Writing, Loading, Reading, Signing
  <2>6. SuccessMeansStored' /\ ReadIsWholeLog' /\ UndisturbedSucceeds'
    BY <2>1 DEF ProvInv, SuccessMeansStored, ReadIsWholeLog, UndisturbedSucceeds
  <2>7. QED
    BY <2>3, <2>4, <2>5, <2>6 DEF ProvInv
<1>4. CASE OtherClient
  <2>1. /\ pc \in {"read", "write", "commit", "key"} /\ faulty' = TRUE
        /\ UNCHANGED <<key, pc, kind, file, size, buf, done, result>>
        /\ result = "none"
    BY <1>4 DEF OtherClient, callVars, ProvInv, Quiet
  <2>2. /\ log' \in FileOf(RotMax)
        /\ staging' \in [1 .. RotMax -> Bytes \union {Blank}]
        /\ key_buf' \in [1 .. KeySize -> Bytes \union {Blank}]
    <3>1. ASSUME NEW a \in DOMAIN staging, NEW b \in Bytes,
                 staging' = [staging EXCEPT ![a] = b]
          PROVE  staging' \in [1 .. RotMax -> Bytes \union {Blank}]
      BY <1>2, <3>1
    <3>2. ASSUME NEW a \in DOMAIN key_buf, NEW b \in Bytes,
                 key_buf' = [key_buf EXCEPT ![a] = b]
          PROVE  key_buf' \in [1 .. KeySize -> Bytes \union {Blank}]
      BY <1>2, <3>2
    <3>3. log' \in Files(RotMax) => log' \in FileOf(RotMax)
      BY <1>1, FilesAreSequences
    <3>4. QED
      BY <1>2, <1>4, <3>1, <3>2, <3>3 DEF OtherClient
  <2>3. TypeOK' /\ Quiet'
    BY <2>1, <2>2 DEF ProvInv, TypeOK, Quiet
  <2>4. Writing' /\ Loading' /\ Reading' /\ Signing'
    BY <2>1 DEF ProvInv, Writing, Loading, Reading, Signing
  <2>5. SuccessMeansStored' /\ ReadIsWholeLog' /\ UndisturbedSucceeds'
    BY <2>1 DEF ProvInv, SuccessMeansStored, ReadIsWholeLog, UndisturbedSucceeds
  <2>6. QED
    BY <2>3, <2>4, <2>5 DEF ProvInv
<1>5. CASE Exit
  <2>1. <<>> \in Seq(Bytes) /\ Len(<<>>) = 0
    OBVIOUS
  <2>2. TypeOK' /\ Quiet'
    BY <1>2, <1>5, <2>1 DEF Exit, rotVars, TypeOK, Quiet
  <2>3. Writing' /\ Loading' /\ Reading' /\ Signing'
    BY <1>5 DEF Exit, Writing, Loading, Reading, Signing
  <2>4. SuccessMeansStored' /\ ReadIsWholeLog' /\ UndisturbedSucceeds'
    BY <1>1, <1>5, <2>1 DEF Exit, SuccessMeansStored, ReadIsWholeLog,
       UndisturbedSucceeds
  <2>5. QED
    BY <2>2, <2>3, <2>4 DEF ProvInv
<1>6. QED
  BY <1>3, <1>4, <1>5

\* Every step of a command, of the RoT and of other clients keeps the invariant.
LEMMA ProvStep ==
    ASSUME ProvisioningAssumption PROVE ProvInv /\ [Next]_vars => ProvInv'
<1> SUFFICES ASSUME ProvInv, [Next]_vars PROVE ProvInv'
  OBVIOUS
<1>1. CASE Next
  BY <1>1, StartStep, ReadStep, WriteStep, CommitStep, SignStep, KeyStep,
     DisturbedStep DEF Next
<1>2. CASE UNCHANGED vars
  BY <1>2 DEF vars, rotVars, callVars, ProvInv, TypeOK, Stored, Writing, Loading,
     Reading, Signing, Quiet, SuccessMeansStored, ReadIsWholeLog,
     UndisturbedSucceeds
<1>3. QED
  BY <1>1, <1>2

\* The invariant of the provisioning commands and the RoT holds always.
THEOREM ProvInvariant == ASSUME ProvisioningAssumption PROVE Spec => []ProvInv
  BY ProvInit, ProvStep, PTL DEF Spec

\* A provisioning command that reports success has done its work, though other
\* clients stage and commit meanwhile and earlier commands broke off; only a key
\* may have got another client's chunk (libhoth_provisioning_log_write(),
\* _read(), _validate_and_sign(), libhoth_key_provisioning_load_mldsa_key()).
THEOREM SuccessStaysTrue ==
    ASSUME ProvisioningAssumption PROVE Spec => []SuccessIsTrue
<1>1. ProvInv => SuccessIsTrue
  BY DEF ProvInv, SuccessIsTrue
<1>2. QED
  BY <1>1, ProvInvariant, PTL

\* A provisioning command that nothing disturbs succeeds, whatever the commands
\* before it left staged.
THEOREM UndisturbedAlwaysSucceeds ==
    ASSUME ProvisioningAssumption PROVE Spec => []UndisturbedSucceeds
<1>1. ProvInv => UndisturbedSucceeds
  BY DEF ProvInv
<1>2. QED
  BY <1>1, ProvInvariant, PTL
=============================================================================
