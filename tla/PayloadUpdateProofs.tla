------------------------ MODULE PayloadUpdateProofs ------------------------
(***************************************************************************)
(* Proofs about PayloadUpdate, for any flash, sector, block and chunk      *)
(* sizes: a successful update holds its image, only whole images are       *)
(* finalized, and no command touches flash outside of its range.           *)
(***************************************************************************)
EXTENDS PayloadUpdate, TLAPS, WellFoundedInduction, FiniteSetTheorems

\* The image is on a side where it can be programmed.
Erasable == ~job.skip_erase \/ job.compatible

TypeOK ==
    /\ pc \in {"idle", "erase", "program", "finalize", "read", "returned"}
    /\ flash \in [Cells -> {FF, Data, Old, Mixed}]
    /\ done \in Nat
    /\ job.kind \in {"none", "update", "erase", "read"}
    /\ job.skip_erase \in BOOLEAN /\ job.compatible \in BOOLEAN
    /\ job.binary_file \in BOOLEAN
    /\ job.offset \in Nat /\ job.len \in Nat
    /\ job.kind = "update" => job.image \in Images

\* The erase loop goes on in whole sectors inside of its range, and what it
\* has passed is erased.
Erasing ==
    pc = "erase" =>
        /\ job.kind \in {"update", "erase"}
        /\ job.len % Sector = 0 /\ done % Sector = 0 /\ done <= job.len
        /\ job.kind = "update" =>
              /\ job.offset = 0 /\ ~job.skip_erase
              /\ \A n \in DOMAIN job.image : n < job.len
              /\ \A a \in Cells : a < done => flash[a] = FF

\* Behind the programming loop the flash holds the image, and before it the
\* image can still be programmed.
Programming ==
    pc = "program" =>
        /\ job.kind = "update"
        /\ Erasable => \A n \in DOMAIN job.image :
              IF n < done THEN flash[n] = job.image[n]
                          ELSE flash[n] \in {FF, job.image[n]}

Finalizing ==
    pc = "finalize" =>
        job.kind = "update" /\ ~job.binary_file /\ (Erasable => Holds(job.image))

\* The n bytes of the flash from a given one on.
Slice(mem, from, n) == [k \in 1 .. n |-> mem[from + k - 1]]

\* A read has written what it has read, in order.
Reading ==
    pc = "read" =>
        /\ job.kind = "read" /\ done < job.len
        /\ file = Slice(flash, job.offset, done)

Quiet ==
    /\ result # "none" => pc = "returned"
    /\ pc = "idle" => file = <<>> /\ done = 0

\* The inductive invariant.
PayloadInv ==
    /\ TypeOK /\ Erasing /\ Programming /\ Finalizing /\ Reading /\ Quiet
    /\ UpdateHoldsImage /\ ReadIsExact
-----------------------------------------------------------------------------
(* Numbers                                                                 *)

\* The constants are positive numbers, and an image fits the flash.
LEMMA ConstantsAreNumbers ==
    /\ Space \in Nat \ {0} /\ FlashSize \in Nat \ {0} /\ Sector \in Nat \ {0}
    /\ Block \in Nat \ {0} /\ MaxChunk \in Nat \ {0}
    /\ MaxReadChunk \in Nat \ {0} /\ Block % Sector = 0
    /\ \A n \in ImageSizes : n \in 0 .. FlashSize
    /\ \A n \in Offsets : n \in Nat
    /\ \A n \in Lengths : n \in Nat
<1>1. /\ ImageSizes \subseteq 0 .. FlashSize
      /\ Offsets \subseteq 0 .. Space - 1 /\ Lengths \subseteq 0 .. Space - 1
  BY PayloadAssumption
<1>2. /\ \A n \in ImageSizes : n \in 0 .. FlashSize
      /\ \A n \in Offsets : n \in 0 .. Space - 1
      /\ \A n \in Lengths : n \in 0 .. Space - 1
  BY <1>1, Zenon
<1>3. /\ Space \in Nat \ {0} /\ FlashSize \in Nat \ {0} /\ Sector \in Nat \ {0}
      /\ Block \in Nat \ {0} /\ MaxChunk \in Nat \ {0}
      /\ MaxReadChunk \in Nat \ {0} /\ Block % Sector = 0
  BY PayloadAssumption
<1>4. QED
  BY <1>2, <1>3

\* A multiple of m is m times its quotient.
LEMMA Quotient ==
    ASSUME NEW a \in Nat, NEW m \in Nat \ {0}, a % m = 0
    PROVE  a \div m \in Nat /\ a = m * (a \div m)
  OBVIOUS

\* And such a product is a multiple.
LEMMA Product ==
    ASSUME NEW k \in Nat, NEW m \in Nat \ {0}
    PROVE  (m * k) % m = 0
  OBVIOUS

\* The sum of two multiples is one.
LEMMA MultiplesAdd ==
    ASSUME NEW a \in Nat, NEW b \in Nat, NEW m \in Nat \ {0},
           a % m = 0, b % m = 0
    PROVE  (a + b) % m = 0
<1> DEFINE k == a \div m
           l == b \div m
<1>1. k \in Nat /\ l \in Nat /\ a = m * k /\ b = m * l
  BY Quotient
<1> HIDE DEF k, l
<1>2. a + b = m * (k + l)
  BY <1>1
<1>3. (m * (k + l)) % m = 0
  BY <1>1, Product
<1>4. QED
  BY <1>2, <1>3

\* A multiple that is less than another one is so by at least m.
LEMMA MultiplesApart ==
    ASSUME NEW a \in Nat, NEW b \in Nat, NEW m \in Nat \ {0},
           a % m = 0, b % m = 0, a < b
    PROVE  a + m <= b
<1> DEFINE k == a \div m
           l == b \div m
<1>1. k \in Nat /\ l \in Nat /\ a = m * k /\ b = m * l
  BY Quotient
<1> HIDE DEF k, l
<1>2. k < l
  <2>1. SUFFICES ASSUME l <= k PROVE m * l <= m * k
    BY <1>1
  <2>2. QED
    BY <1>1, <2>1
<1>3. m * (k + 1) <= m * l
  BY <1>1, <1>2
<1>4. QED
  BY <1>1, <1>3

\* A set of numbers that is not empty has a least one.
LEMMA LeastNumber ==
    ASSUME NEW T, T \subseteq Nat, T # {}
    PROVE  \E x \in T : \A y \in T : x <= y
<1> DEFINE R == OpToRel(<, Nat)
<1>1. IsWellFoundedOn(R, Nat)
  BY NatLessThanWellFounded
<1>2. PICK x \in T : \A y \in T : ~(<<y, x>> \in R)
  <2> HIDE DEF R
  <2> QED
    BY <1>1, WFMin
<1>3. ASSUME NEW y \in T PROVE x <= y
  <2>1. x \in Nat /\ y \in Nat
    OBVIOUS
  <2>2. ~(y < x)
    BY <1>2, <2>1 DEF OpToRel
  <2>3. QED
    BY <2>1, <2>2
<1>4. QED
  BY <1>3

\* A set of numbers that is bounded and not empty has a greatest one.
LEMMA GreatestNumber ==
    ASSUME NEW b \in Nat, NEW T, T \subseteq 1 .. b, T # {}
    PROVE  \E x \in T : \A y \in T : y <= x
<1> DEFINE U == {n \in Nat : \E y \in T : n = b - y}
<1>1. PICK n \in U : \A m \in U : n <= m
  <2>1. U \subseteq Nat
    OBVIOUS
  <2>2. U # {}
    <3>1. PICK y : y \in T
      OBVIOUS
    <3>2. b - y \in Nat
      BY <3>1
    <3>3. b - y \in U
      BY <3>1, <3>2
    <3>4. QED
      BY <3>3
  <2> HIDE DEF U
  <2>3. QED
    BY <2>1, <2>2, LeastNumber
<1>2. PICK x \in T : n = b - x
  BY <1>1
<1>3. ASSUME NEW y \in T PROVE y <= x
  <2>1. b - y \in U /\ x \in 1 .. b /\ y \in 1 .. b
    OBVIOUS
  <2>2. b - x <= b - y
    BY <1>1, <1>2, <2>1
  <2>3. QED
    BY <2>1, <2>2
<1>4. QED
  BY <1>3
-----------------------------------------------------------------------------
(* What the operators compute                                              *)

\* An image is a function on the numbers below its size, inside the flash.
LEMMA ImageShape ==
    ASSUME NEW img \in Images
    PROVE  /\ SizeOf(img) \in 0 .. FlashSize
           /\ DOMAIN img = 0 .. SizeOf(img) - 1
           /\ DOMAIN img \subseteq Cells
<1>1. PICK n \in ImageSizes : img \in [0 .. n - 1 -> {FF, Data}]
  BY DEF Images
<1>2. n \in 0 .. FlashSize /\ FlashSize \in Nat
  BY ConstantsAreNumbers
<1>3. DOMAIN img = 0 .. n - 1
  BY <1>1
<1>4. Cardinality(0 .. n - 1) = n
  BY <1>2, FS_Interval
<1>5. QED
  BY <1>2, <1>3, <1>4 DEF SizeOf, Cells

\* The padded size of a file covers the file.
LEMMA EraseSizeCovers ==
    ASSUME NEW size \in Nat, NEW binary \in BOOLEAN
    PROVE  EraseSize(size, binary) \in Nat /\ EraseSize(size, binary) >= size
<1>1. Sector \in Nat \ {0}
  BY ConstantsAreNumbers
<1>2. size % Sector \in 0 .. Sector - 1
  BY <1>1
<1>3. QED
  BY <1>1, <1>2 DEF EraseSize

\* One turn of the erase loop takes whole sectors and stays in its range.
LEMMA EraseChunkInRange ==
    ASSUME job.offset \in Nat, job.len \in Nat, done \in Nat, done < job.len,
           job.len % Sector = 0, done % Sector = 0
    PROVE  /\ EraseChunkSize \in Nat \ {0}
           /\ done + EraseChunkSize <= job.len
           /\ (done + EraseChunkSize) % Sector = 0
<1>1. Sector \in Nat \ {0} /\ Block \in Nat \ {0} /\ Block % Sector = 0
  BY ConstantsAreNumbers
<1>2. Sector % Sector = 0
  BY <1>1, Product
<1>3. done + Sector <= job.len
  BY <1>1, MultiplesApart
<1>4. CASE EraseChunkSize = Block /\ job.len - done >= Block
  BY <1>1, <1>4, MultiplesAdd
<1>5. CASE EraseChunkSize = Sector
  BY <1>1, <1>2, <1>3, <1>5, MultiplesAdd
<1>6. QED
  BY <1>4, <1>5 DEF EraseChunkSize

\* A chunk of the programming loop starts at the first byte that has to be
\* sent and ends in one.
LEMMA ChunkInImage ==
    ASSUME job.image \in Images, done \in Nat, ToSend # {}
    PROVE  /\ ChunkStart \in ToSend /\ \A m \in ToSend : ChunkStart <= m
           /\ ChunkSize \in 1 .. MaxChunk
           /\ ChunkStart + ChunkSize - 1 \in ToSend
<1>0. MaxChunk \in Nat \ {0} /\ FlashSize \in Nat
  BY ConstantsAreNumbers
<1>1. ToSend \subseteq Nat
  BY ImageShape DEF ToSend
<1>2. ChunkStart \in ToSend /\ \A m \in ToSend : ChunkStart <= m
  <2>1. \E n \in ToSend : \A m \in ToSend : n <= m
    BY <1>1, LeastNumber
  <2> HIDE DEF ToSend
  <2>2. QED
    BY <2>1, Zenon DEF ChunkStart
<1> DEFINE in_reach == {c \in 1 .. MaxChunk : ChunkStart + c - 1 \in ToSend}
<1>3. ChunkSize \in in_reach
  <2>1. in_reach \subseteq 1 .. MaxChunk
    OBVIOUS
  <2>2. in_reach # {}
    <3>1. ChunkStart + 1 - 1 = ChunkStart /\ 1 \in 1 .. MaxChunk
      BY <1>0, <1>1, <1>2
    <3>2. 1 \in in_reach
      BY <1>2, <3>1
    <3>3. QED
      BY <3>2
  <2>3. ChunkSize = CHOOSE c \in in_reach : \A d \in in_reach : d <= c
    BY DEF ChunkSize
  <2> HIDE DEF in_reach
  <2>4. \E c \in in_reach : \A d \in in_reach : d <= c
    BY <1>0, <2>1, <2>2, GreatestNumber
  <2>5. QED
    BY <2>3, <2>4, Zenon
<1>4. QED
  BY <1>2, <1>3

\* A chunk lies in the image.
LEMMA ChunkCells ==
    ASSUME job.image \in Images, done \in Nat, ToSend # {}
    PROVE  /\ ChunkStart \in Nat /\ ChunkSize \in Nat \ {0}
           /\ ChunkStart >= done
           /\ ChunkStart .. ChunkStart + ChunkSize - 1 \subseteq DOMAIN job.image
<1>1. /\ ChunkStart \in DOMAIN job.image /\ ChunkStart >= done
      /\ ChunkStart + ChunkSize - 1 \in DOMAIN job.image
      /\ ChunkSize \in 1 .. MaxChunk
  BY ChunkInImage DEF ToSend
<1>2. DOMAIN job.image = 0 .. SizeOf(job.image) - 1 /\ SizeOf(job.image) \in Nat
  BY ImageShape, ConstantsAreNumbers
<1>3. MaxChunk \in Nat
  BY ConstantsAreNumbers
<1>4. QED
  BY <1>1, <1>2, <1>3

\* Programming a byte that is erased or already right makes it right.
LEMMA ProgrammedIsRight ==
    ASSUME NEW v, NEW byte \in {FF, v} PROVE Programmed(byte, v) = v
  BY DEF Programmed

\* What is programmed stays a byte.
LEMMA ProgrammedType ==
    ASSUME NEW v \in {FF, Data}, NEW byte \in {FF, Data, Old, Mixed}
    PROVE  Programmed(byte, v) \in {FF, Data, Old, Mixed}
  BY DEF Programmed
\* A packet appended to what was read is what is read up to its end.
LEMMA SliceExtends ==
    ASSUME NEW mem, NEW m \in Nat, NEW n \in Nat, NEW from \in Nat
    PROVE  Slice(mem, from, m) \o Slice(mem, from + m, n)
              = Slice(mem, from, m + n)
<1> DEFINE s == Slice(mem, from, m)
           t == Slice(mem, from + m, n)
<1>1. s \in Seq({mem[x] : x \in Int}) /\ t \in Seq({mem[x] : x \in Int})
  BY DEF Slice
<1>2. Len(s) = m /\ Len(t) = n
  BY DEF Slice
<1>3. QED
  BY <1>1, <1>2 DEF Slice

-----------------------------------------------------------------------------
(* The invariant holds initially and is kept by every step.                *)

\* Between two commands everything of the last one is gone.
LEMMA PayloadInit == Init => PayloadInv
<1> SUFFICES ASSUME Init PROVE PayloadInv
  OBVIOUS
<1>1. TypeOK
  BY DEF Init, TypeOK, RangeJob
<1>2. QED
  BY <1>1 DEF Init, PayloadInv, Erasing, Programming, Finalizing, Reading,
              Quiet, UpdateHoldsImage, ReadIsExact

\* An erase starts at its first byte, in whole sectors, or not at all.
LEMMA EnterEraseFacts ==
    ASSUME NEW offset \in Nat, NEW len \in Nat, EnterErase(offset, len)
    PROVE  /\ done' = 0 /\ pc' \in {"erase", "returned"} /\ result' # "ok"
           /\ pc' = "erase" => len % Sector = 0 /\ result' = "none"
  BY DEF EnterErase, EraseError, Goto, Return

\* The arguments of an update: what is erased covers the image.
LEMMA UpdateStep ==
    ASSUME PayloadInv, NEW img \in Images, NEW skip \in BOOLEAN,
           NEW binary \in BOOLEAN, NEW has \in BOOLEAN,
           Update(img, skip, binary, has)
    PROVE  PayloadInv'
<1> DEFINE size == EraseSize(SizeOf(img), binary)
<1>1. SizeOf(img) \in Nat /\ DOMAIN img = 0 .. SizeOf(img) - 1
  BY ImageShape, ConstantsAreNumbers
<1>2. size \in Nat /\ size >= SizeOf(img)
  BY <1>1, EraseSizeCovers
<1>3. /\ job'.kind = "update" /\ job'.image = img /\ job'.skip_erase = skip
      /\ job'.binary_file = binary /\ job'.offset = 0 /\ job'.len = size
      /\ job'.compatible = Compatible(img)
  BY DEF Update, UpdateJob
<1>4. Compatible(img) \in BOOLEAN
  BY DEF Compatible
<1>5. UNCHANGED <<flash, file>> /\ flash \in [Cells -> {FF, Data, Old, Mixed}]
  BY DEF PayloadInv, TypeOK, Update
<1> HIDE DEF size
<1>6. /\ done' = 0 /\ pc' \in {"erase", "program", "returned"}
      /\ result' # "ok"
      /\ result' # "none" => pc' = "returned"
      /\ pc' = "erase" => ~skip /\ size % Sector = 0
      /\ pc' = "program" => skip
  <2>1. CASE ~binary /\ ~has
    BY <2>1 DEF Update, Return
  <2>2. CASE ~(~binary /\ ~has) /\ skip
    BY <2>2 DEF Update, Goto
  <2>3. CASE ~(~binary /\ ~has) /\ ~skip
    <3>1. EnterErase(0, size)
      BY <2>3 DEF Update, size
    <3>2. QED
      BY <1>2, <2>3, <3>1, EnterEraseFacts
  <2>4. QED
    BY <2>1, <2>2, <2>3
<1>7. TypeOK'
  BY <1>2, <1>3, <1>4, <1>5, <1>6 DEF TypeOK
<1>8. Erasing'
  <2>1. 0 % Sector = 0
    BY ConstantsAreNumbers
  <2>2. \A n \in DOMAIN img : n < size
    BY <1>1, <1>2
  <2>3. \A a \in Cells : ~(a < 0)
    BY ConstantsAreNumbers DEF Cells
  <2>4. QED
    BY <1>2, <1>3, <1>6, <2>1, <2>2, <2>3 DEF Erasing
<1>9. Programming'
  <2>1. \A n \in DOMAIN img : ~(n < 0)
    BY <1>1
  <2>2. QED
    BY <1>3, <1>5, <1>6, <2>1 DEF Programming, Erasable, Compatible
<1>10. QED
  BY <1>3, <1>6, <1>7, <1>8, <1>9
     DEF PayloadInv, Finalizing, Reading, Quiet, UpdateHoldsImage, ReadIsExact

\* payload erase and payload read start on their range; Exit forgets it.
LEMMA RangeStep ==
    ASSUME PayloadInv,
           \/ \E offset \in Offsets, len \in Lengths : EraseCommand(offset, len)
           \/ \E offset \in Offsets, len \in Lengths : ReadCommand(offset, len)
           \/ Exit
    PROVE  PayloadInv'
<1>0. flash \in [Cells -> {FF, Data, Old, Mixed}]
  BY DEF PayloadInv, TypeOK
<1>1. ASSUME NEW offset \in Offsets, NEW len \in Lengths,
             EraseCommand(offset, len)
      PROVE  PayloadInv'
  <2>1. offset \in Nat /\ len \in Nat
    BY ConstantsAreNumbers
  <2>2. /\ job' = RangeJob("erase", offset, len) /\ UNCHANGED <<flash, file>>
        /\ EnterErase(offset, len)
    BY <1>1 DEF EraseCommand
  <2>3. /\ done' = 0 /\ pc' \in {"erase", "returned"} /\ result' # "ok"
        /\ pc' = "erase" => len % Sector = 0 /\ result' = "none"
    BY <2>1, <2>2, EnterEraseFacts
  <2>4. 0 % Sector = 0
    BY ConstantsAreNumbers
  <2>5. TypeOK'
    BY <1>0, <2>1, <2>2, <2>3 DEF TypeOK, RangeJob
  <2>6. QED
    BY <2>1, <2>2, <2>3, <2>4, <2>5
       DEF RangeJob, PayloadInv, Erasing, Programming, Finalizing, Reading,
           Quiet, UpdateHoldsImage, ReadIsExact
<1>2. ASSUME NEW offset \in Offsets, NEW len \in Lengths,
             ReadCommand(offset, len)
      PROVE  PayloadInv'
  <2>1. offset \in Nat /\ len \in Nat /\ len > 0
    BY <1>2, ConstantsAreNumbers DEF ReadCommand
  <2>2. /\ job' = RangeJob("read", offset, len) /\ flash' = flash
        /\ file' = <<>> /\ done' = 0 /\ pc' = "read" /\ result' = "none"
    BY <1>2 DEF ReadCommand, Goto, PayloadInv, Quiet
  <2>3. TypeOK'
    BY <1>0, <2>1, <2>2 DEF TypeOK, RangeJob
  <2>4. <<>> = Slice(flash', offset, 0)
    BY DEF Slice
  <2>5. QED
    BY <2>1, <2>2, <2>3, <2>4
       DEF RangeJob, PayloadInv, Erasing, Programming, Finalizing, Reading,
           Quiet, UpdateHoldsImage, ReadIsExact
<1>3. CASE Exit
  <2>1. TypeOK'
    BY <1>0, <1>3 DEF Exit, Goto, TypeOK, RangeJob
  <2>2. QED
    BY <1>3, <2>1 DEF Exit, Goto, PayloadInv, Erasing, Programming,
                      Finalizing, Reading, Quiet, UpdateHoldsImage,
                      ReadIsExact
<1>4. QED
  BY <1>1, <1>2, <1>3
\* One turn of the erase loop, carried out or not, reported or not.
LEMMA EraseStep ==
    ASSUME PayloadInv, EraseChunk \/ EraseFails \/ EraseDone
    PROVE  PayloadInv'
<1>1. /\ pc = "erase" /\ UNCHANGED <<job, file>>
      /\ TypeOK /\ Erasing /\ Quiet
  BY DEF PayloadInv, EraseChunk, EraseFails, EraseDone
<1>2. /\ job.kind \in {"update", "erase"} /\ job.len \in Nat
      /\ job.offset \in Nat /\ done \in Nat
      /\ job.len % Sector = 0 /\ done % Sector = 0 /\ done <= job.len
      /\ flash \in [Cells -> {FF, Data, Old, Mixed}]
      /\ result = "none"
  BY <1>1 DEF TypeOK, Erasing, Quiet
<1>3. ErasedFlash \in [Cells -> {FF, Data, Old, Mixed}]
  BY <1>2 DEF ErasedFlash
<1>4. CASE EraseChunk
  <2>1. /\ EraseChunkSize \in Nat \ {0} /\ done + EraseChunkSize <= job.len
        /\ (done + EraseChunkSize) % Sector = 0
    BY <1>2, <1>4, EraseChunkInRange DEF EraseChunk
  <2>2. /\ done' = done + EraseChunkSize /\ flash' = ErasedFlash
        /\ pc' = "erase" /\ result' = "none"
    BY <1>1, <1>2, <1>4 DEF EraseChunk
  <2>3. ASSUME job.kind = "update", NEW a \in Cells, a < done'
        PROVE  flash'[a] = FF
    <3>1. a \in Int /\ a >= 0
      BY ConstantsAreNumbers DEF Cells
    <3>2. job.offset = 0 /\ (a < done => flash[a] = FF)
      BY <1>1, <2>3 DEF Erasing
    <3>3. a < done \/ a \in job.offset + done .. job.offset + done + EraseChunkSize - 1
      BY <1>2, <2>1, <2>2, <2>3, <3>1, <3>2
    <3>4. QED
      BY <2>2, <3>2, <3>3 DEF ErasedFlash
  <2>4. TypeOK'
    BY <1>1, <1>3, <2>1, <2>2, <1>2 DEF TypeOK
  <2>5. Erasing'
    BY <1>1, <1>2, <2>1, <2>2, <2>3 DEF Erasing
  <2>6. QED
    BY <1>1, <2>2, <2>4, <2>5
       DEF PayloadInv, Programming, Finalizing, Reading, Quiet,
           UpdateHoldsImage, ReadIsExact
<1>5. CASE EraseFails
  <2>1. /\ flash' \in [Cells -> {FF, Data, Old, Mixed}] /\ done' = 0
        /\ pc' = "returned" /\ result' = "error"
    BY <1>2, <1>3, <1>5 DEF EraseFails, Return
  <2>2. TypeOK'
    BY <1>1, <2>1 DEF TypeOK
  <2>3. QED
    BY <2>1, <2>2 DEF PayloadInv, Erasing, Programming, Finalizing, Reading,
                      Quiet, UpdateHoldsImage, ReadIsExact
<1>6. CASE EraseDone /\ job.kind = "update"
  <2>1. /\ done' = 0 /\ pc' = "program" /\ result' = "none" /\ flash' = flash
        /\ done >= job.len
    BY <1>6 DEF EraseDone, Goto
  <2>2. ASSUME NEW n \in DOMAIN job.image
        PROVE  flash[n] = FF /\ ~(n < 0)
    <3>1. n \in Cells /\ n \in Nat
      BY <1>1, <1>6, ImageShape, ConstantsAreNumbers DEF TypeOK, Cells
    <3>2. n < job.len
      BY <1>1, <1>6 DEF Erasing
    <3>3. QED
      BY <1>1, <1>2, <1>6, <2>1, <3>1, <3>2 DEF Erasing
  <2>3. TypeOK'
    BY <1>1, <2>1 DEF TypeOK
  <2>4. Programming'
    BY <1>1, <1>6, <2>1, <2>2 DEF Programming
  <2>5. QED
    BY <2>1, <2>3, <2>4 DEF PayloadInv, Erasing, Finalizing, Reading, Quiet,
                            UpdateHoldsImage, ReadIsExact
<1>7. CASE EraseDone /\ job.kind = "erase"
  <2>1. done' = 0 /\ pc' = "returned" /\ flash' = flash
    BY <1>7 DEF EraseDone, Return
  <2>2. TypeOK'
    BY <1>1, <2>1 DEF TypeOK
  <2>3. QED
    BY <1>1, <1>7, <2>1, <2>2
       DEF PayloadInv, Erasing, Programming, Finalizing, Reading, Quiet,
           UpdateHoldsImage, ReadIsExact
<1>8. QED
  BY <1>2, <1>4, <1>5, <1>6, <1>7

\* One turn of the programming loop, carried out or not, reported or not.
LEMMA ProgramStep ==
    ASSUME PayloadInv, ProgramChunk \/ ProgramFails \/ ProgramDone
    PROVE  PayloadInv'
<1>1. /\ pc = "program" /\ UNCHANGED <<job, file>>
      /\ TypeOK /\ Programming /\ Quiet
  BY DEF PayloadInv, ProgramChunk, ProgramFails, ProgramDone
<1>2. /\ job.kind = "update" /\ job.image \in Images /\ done \in Nat
      /\ flash \in [Cells -> {FF, Data, Old, Mixed}] /\ result = "none"
  BY <1>1 DEF TypeOK, Programming, Quiet
<1>3. DOMAIN job.image \subseteq Cells /\ \A n \in DOMAIN job.image : n \in Nat
  BY <1>2, ImageShape, ConstantsAreNumbers DEF Cells
<1>4. \A n \in DOMAIN job.image : job.image[n] \in {FF, Data}
  BY <1>2 DEF Images
<1>5. ToSend # {} => ProgrammedFlash \in [Cells -> {FF, Data, Old, Mixed}]
  <2> SUFFICES ASSUME ToSend # {}
               PROVE  ProgrammedFlash \in [Cells -> {FF, Data, Old, Mixed}]
    OBVIOUS
  <2>1. ChunkStart .. ChunkStart + ChunkSize - 1 \subseteq DOMAIN job.image
    BY <1>2, ChunkCells
  <2>2. ASSUME NEW a \in Cells, a \in ChunkStart .. ChunkStart + ChunkSize - 1
        PROVE  Programmed(flash[a], job.image[a]) \in {FF, Data, Old, Mixed}
    <3>1. job.image[a] \in {FF, Data} /\ flash[a] \in {FF, Data, Old, Mixed}
      BY <1>2, <1>4, <2>1, <2>2
    <3>2. QED
      BY <3>1, ProgrammedType
  <2>3. QED
    BY <1>2, <2>2 DEF ProgrammedFlash
<1>6. CASE ProgramChunk
  <2>1. /\ ToSend # {} /\ flash' = ProgrammedFlash /\ pc' = "program"
        /\ done' = ChunkStart + ChunkSize /\ result' = "none"
    BY <1>1, <1>2, <1>6 DEF ProgramChunk
  <2>2. /\ ChunkStart \in Nat /\ ChunkSize \in Nat \ {0} /\ ChunkStart >= done
        /\ \A m \in ToSend : ChunkStart <= m
    BY <1>2, <2>1, ChunkCells, ChunkInImage
  <2>3. TypeOK'
    BY <1>1, <1>5, <2>1, <2>2 DEF TypeOK
  <2>4. ASSUME Erasable, NEW n \in DOMAIN job.image
        PROVE  IF n < done' THEN flash'[n] = job.image[n]
                            ELSE flash'[n] \in {FF, job.image[n]}
    <3>1. /\ n \in Nat /\ n \in Cells
          /\ IF n < done THEN flash[n] = job.image[n]
                         ELSE flash[n] \in {FF, job.image[n]}
      BY <1>1, <1>3, <2>4 DEF Programming
    <3>2. CASE n < ChunkStart
      <4>1. n < done \/ job.image[n] = FF
        BY <1>2, <2>2, <3>1, <3>2 DEF ToSend
      <4>2. flash'[n] = flash[n] /\ flash[n] = job.image[n]
        BY <1>2, <2>1, <2>2, <3>1, <3>2, <4>1 DEF ProgrammedFlash
      <4>3. QED
        BY <4>2
    <3>3. CASE n \in ChunkStart .. ChunkStart + ChunkSize - 1
      <4>1. flash[n] \in {FF, job.image[n]}
        BY <3>1
      <4>2. flash'[n] = Programmed(flash[n], job.image[n])
        BY <2>1, <3>1, <3>3 DEF ProgrammedFlash
      <4>3. flash'[n] = job.image[n]
        BY <4>1, <4>2, ProgrammedIsRight
      <4>4. QED
        BY <4>3
    <3>4. CASE n >= ChunkStart + ChunkSize
      <4>1. flash'[n] = flash[n]
        BY <2>1, <2>2, <3>1, <3>4 DEF ProgrammedFlash
      <4>2. ~(n < done') /\ ~(n < done)
        BY <1>2, <2>1, <2>2, <3>1, <3>4
      <4>3. QED
        BY <3>1, <4>1, <4>2
    <3>5. QED
      BY <2>2, <3>1, <3>2, <3>3, <3>4
  <2>5. Programming'
    BY <1>1, <1>2, <2>4 DEF Programming, Erasable
  <2>6. QED
    BY <2>1, <2>3, <2>5 DEF PayloadInv, Erasing, Finalizing, Reading, Quiet,
                            UpdateHoldsImage, ReadIsExact
<1>7. CASE ProgramFails
  <2>1. /\ flash' \in [Cells -> {FF, Data, Old, Mixed}] /\ done' = 0
        /\ pc' = "returned" /\ result' = "error"
    BY <1>2, <1>5, <1>7 DEF ProgramFails, Return
  <2>2. TypeOK'
    BY <1>1, <2>1 DEF TypeOK
  <2>3. QED
    BY <2>1, <2>2 DEF PayloadInv, Erasing, Programming, Finalizing, Reading,
                      Quiet, UpdateHoldsImage, ReadIsExact
<1>8. CASE ProgramDone
  <2>1. /\ done' = 0 /\ flash' = flash /\ ToSend = {}
        /\ \/ pc' = "returned"
           \/ pc' = "finalize" /\ ~job.binary_file /\ result' = "none"
    BY <1>8 DEF ProgramDone, Return, Goto
  <2>2. Erasable => Holds(job.image)
    <3> SUFFICES ASSUME Erasable, NEW n \in DOMAIN job.image
                 PROVE  flash[n] = job.image[n]
      BY DEF Holds
    <3>1. n < done \/ job.image[n] = FF
      BY <1>2, <1>3, <2>1 DEF ToSend
    <3>2. QED
      BY <1>1, <3>1 DEF Programming
  <2>3. TypeOK'
    BY <1>1, <2>1 DEF TypeOK
  <2>4. QED
    BY <1>1, <1>2, <2>1, <2>2, <2>3
       DEF PayloadInv, Erasing, Programming, Finalizing, Reading, Quiet,
           UpdateHoldsImage, ReadIsExact, Erasable, Holds
<1>9. QED
  BY <1>6, <1>7, <1>8

\* FINALIZE, reported or not, changes no byte.
LEMMA FinalizeStep ==
    ASSUME PayloadInv, Finalize \/ FinalizeFails
    PROVE  PayloadInv'
<1>1. /\ pc = "finalize" /\ pc' = "returned" /\ done' = 0
      /\ UNCHANGED <<job, file, flash>> /\ TypeOK /\ Finalizing
  BY DEF PayloadInv, Finalize, FinalizeFails, Return
<1>2. TypeOK'
  BY <1>1 DEF TypeOK
<1>3. QED
  BY <1>1, <1>2 DEF PayloadInv, Erasing, Programming, Finalizing, Reading,
                    Quiet, UpdateHoldsImage, ReadIsExact, Erasable, Holds

\* One turn of the read loop.
LEMMA ReadStep ==
    ASSUME PayloadInv, ReadChunk \/ ReadFails
    PROVE  PayloadInv'
<1>1. /\ pc = "read" /\ UNCHANGED <<job, flash>>
      /\ TypeOK /\ Reading /\ Quiet
  BY DEF PayloadInv, ReadChunk, ReadFails
<1>2. /\ job.kind = "read" /\ job.len \in Nat /\ job.offset \in Nat
      /\ done \in Nat /\ done < job.len /\ result = "none"
      /\ file = Slice(flash, job.offset, done)
  BY <1>1 DEF TypeOK, Reading, Quiet
<1>3. ReadSize \in Nat \ {0} /\ done + ReadSize <= job.len
  BY <1>2, ConstantsAreNumbers DEF ReadSize
<1>4. CASE ReadChunk
  <2>1. file' = file \o Slice(flash, job.offset + done, ReadSize)
    BY <1>2, <1>4 DEF ReadChunk, Slice
  <2>2. file' = Slice(flash, job.offset, done + ReadSize)
    <3>1. /\ job.offset \in Nat /\ done \in Nat /\ ReadSize \in Nat
          /\ file' = Slice(flash, job.offset, done)
                       \o Slice(flash, job.offset + done, ReadSize)
      BY <1>2, <1>3, <2>1
    <3>2. QED
      BY <3>1, SliceExtends
  <2>3. CASE done + ReadSize = job.len
    <3>1. pc' = "returned" /\ done' = 0
      BY <1>4, <2>3 DEF ReadChunk, Return
    <3>2. TypeOK'
      BY <1>1, <3>1 DEF TypeOK
    <3>3. ReadIsExact'
      BY <1>1, <2>2, <2>3 DEF ReadIsExact, Slice
    <3>4. QED
      BY <1>1, <1>2, <3>1, <3>2, <3>3
         DEF PayloadInv, Erasing, Programming, Finalizing, Reading, Quiet,
             UpdateHoldsImage
  <2>4. CASE done + ReadSize # job.len
    <3>1. pc' = "read" /\ done' = done + ReadSize /\ result' = "none"
      BY <1>1, <1>2, <1>4, <2>4 DEF ReadChunk
    <3>2. done' < job.len /\ done' \in Nat
      BY <1>2, <1>3, <2>4, <3>1
    <3>3. TypeOK'
      BY <1>1, <3>1, <3>2 DEF TypeOK
    <3>4. QED
      BY <1>1, <1>2, <2>2, <3>1, <3>2, <3>3
         DEF PayloadInv, Erasing, Programming, Finalizing, Reading, Quiet,
             UpdateHoldsImage, ReadIsExact
  <2>5. QED
    BY <2>3, <2>4
<1>5. CASE ReadFails
  <2>1. pc' = "returned" /\ done' = 0 /\ result' = "error"
    BY <1>5 DEF ReadFails, Return
  <2>2. TypeOK'
    BY <1>1, <2>1 DEF TypeOK
  <2>3. QED
    BY <2>1, <2>2 DEF PayloadInv, Erasing, Programming, Finalizing, Reading,
                      Quiet, UpdateHoldsImage, ReadIsExact
<1>6. QED
  BY <1>4, <1>5
\* Every step of a command, and every failure of one, keeps the invariant.
LEMMA PayloadStep == PayloadInv /\ [Next]_vars => PayloadInv'
<1> SUFFICES ASSUME PayloadInv, [Next]_vars PROVE PayloadInv'
  OBVIOUS
<1>1. CASE \E img \in Images, skip, binary, has \in BOOLEAN :
              Update(img, skip, binary, has)
  BY <1>1, UpdateStep
<1>2. CASE \/ \E offset \in Offsets, len \in Lengths : EraseCommand(offset, len)
           \/ \E offset \in Offsets, len \in Lengths : ReadCommand(offset, len)
  BY <1>2, RangeStep
<1>3. CASE Step \/ Failure
  BY <1>3, EraseStep, ProgramStep, FinalizeStep, ReadStep, RangeStep
     DEF Step, Failure
<1>4. CASE UNCHANGED vars
  BY <1>4 DEF vars, PayloadInv, TypeOK, Erasing, Programming, Finalizing,
              Reading, Quiet, UpdateHoldsImage, ReadIsExact, Erasable, Holds
<1>5. QED
  BY <1>1, <1>2, <1>3, <1>4 DEF Next

\* The invariant of the payload commands holds always.
THEOREM PayloadInvariant == Spec => []PayloadInv
  BY PayloadInit, PayloadStep, PTL DEF Spec

\* libhoth_payload_update() returns PAYLOAD_UPDATE_OK only with the image on
\* the staging side, whatever failed commands left there, and payload read
\* hands out exactly the bytes asked for.
THEOREM TransfersStayExact == Spec => []TransfersAreExact
<1>1. PayloadInv => TransfersAreExact
  BY DEF PayloadInv, TransfersAreExact
<1>2. QED
  BY <1>1, PayloadInvariant, PTL

\* FINALIZE is sent for a whole image with a descriptor only.
THEOREM WholeImagesFinalized == Spec => OnlyWholeImagesFinalized
<1> DEFINE Good == staged' /\ ~staged =>
                      /\ ~job.binary_file
                      /\ ~job.skip_erase \/ job.compatible => Holds(job.image)
<1>1. PayloadInv /\ [Next]_vars => [Good]_vars
  <2> SUFFICES ASSUME PayloadInv, Next, staged', ~staged
               PROVE  /\ ~job.binary_file
                      /\ ~job.skip_erase \/ job.compatible => Holds(job.image)
    OBVIOUS
  <2>1. pc = "finalize"
    BY DEF Next, Step, Failure, Update, EraseCommand, ReadCommand, EraseChunk,
           EraseDone, EraseFails, ProgramChunk, ProgramDone, ProgramFails,
           ReadChunk, ReadFails, Exit, Finalize, FinalizeFails
  <2>2. QED
    BY <2>1 DEF PayloadInv, Finalizing, Erasable
<1>2. QED
  BY <1>1, PayloadInvariant, PTL DEF Spec, OnlyWholeImagesFinalized

\* No command, failed or not, changes a byte outside of the sectors it erases
\* (libhoth_payload_update_erase()) or the image it programs.
THEOREM RangeOnly == Spec => OnlyRangeTouched
<1> DEFINE Allowed == IF pc = "erase"
                      THEN job.offset .. job.offset + job.len - 1
                      ELSE DOMAIN job.image
           Good == \A a \in Cells : flash'[a] # flash[a] => a \in Allowed
<1>1. PayloadInv /\ [Next]_vars => [Good]_vars
  <2> SUFFICES ASSUME PayloadInv, Next, NEW a \in Cells, flash'[a] # flash[a]
               PROVE  a \in Allowed
    OBVIOUS
  <2>1. TypeOK /\ Erasing /\ Programming
    BY DEF PayloadInv
  <2>2. a \in Int /\ a >= 0
    BY ConstantsAreNumbers DEF Cells
  <2>3. \/ pc = "erase" /\ done < job.len /\ flash' = ErasedFlash
        \/ pc = "program" /\ ToSend # {} /\ flash' = ProgrammedFlash
    BY DEF Next, Step, Failure, Update, EraseCommand, ReadCommand, EraseChunk,
           EraseDone, EraseFails, ProgramChunk, ProgramDone, ProgramFails,
           ReadChunk, ReadFails, Exit, Finalize, FinalizeFails
  <2>4. CASE pc = "erase" /\ done < job.len /\ flash' = ErasedFlash
    <3>1. /\ job.offset \in Nat /\ job.len \in Nat /\ done \in Nat
          /\ job.len % Sector = 0 /\ done % Sector = 0
      BY <2>1, <2>4 DEF TypeOK, Erasing
    <3>2. EraseChunkSize \in Nat /\ done + EraseChunkSize <= job.len
      BY <2>4, <3>1, EraseChunkInRange
    <3>3. a \in job.offset + done .. job.offset + done + EraseChunkSize - 1
      BY <2>4 DEF ErasedFlash
    <3>4. QED
      BY <2>2, <2>4, <3>1, <3>2, <3>3
  <2>5. CASE pc = "program" /\ ToSend # {} /\ flash' = ProgrammedFlash
    <3>1. job.image \in Images /\ done \in Nat
      BY <2>1, <2>5 DEF TypeOK, Programming
    <3>2. a \in ChunkStart .. ChunkStart + ChunkSize - 1
      BY <2>5 DEF ProgrammedFlash
    <3>3. QED
      BY <2>5, <3>1, <3>2, ChunkCells
  <2>6. QED
    BY <2>3, <2>4, <2>5
<1>2. QED
  BY <1>1, PayloadInvariant, PTL DEF Spec, OnlyRangeTouched
=============================================================================
