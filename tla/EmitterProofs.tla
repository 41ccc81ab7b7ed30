---------------------------- MODULE EmitterProofs ----------------------------
(***************************************************************************)
(* Theorems about OutputStream, for all buffer sizes, lengths and bounds,  *)
(* and about Emitter, which writes to it, for all programs, buffer sizes   *)
(* and failures.                                                           *)
(***************************************************************************)
EXTENDS Emitter, SequenceTheorems, WellFoundedInduction, TLAPS

-----------------------------------------------------------------------------
(* The output stream.                                                      *)

Bytes == Nat \ {0}

(* What the invariants need to be inductive: no byte a client offers can be *)
(* mistaken for what was at the path before the file was opened.            *)
BytesAreNew ==
  /\ buffer \in Seq(Bytes)
  /\ file = "open" => disk \in Seq(Bytes)

StreamInv == TypeOK /\ BufferInBounds /\ ExactUntilFailure /\ BytesAreNew

(* A file of the client's bytes is not the old one. *)
LEMMA NotOld ==
  ASSUME NEW s \in Seq(Bytes)
  PROVE  s # Old
<1>1. ASSUME s = Old PROVE FALSE
  <2>1. s[1] = 0 /\ Len(s) = 1
    BY <1>1 DEF Old
  <2>2. s[1] \in Bytes
    BY <2>1, ElementOfSeq
  <2> QED BY <2>1, <2>2 DEF Bytes
<1> QED BY <1>1

(* The bytes of a write are new ones. *)
LEMMA DataBytes ==
  ASSUME offered \in Nat, NEW count \in Nat
  PROVE  Data(count) \in Seq(Bytes) /\ Len(Data(count)) = count
BY DEF Data, Bytes

(* Whatever flushing comes to, the stream is left in order; and if the file *)
(* works, the bytes move from the buffer to the file and that is all.       *)
LEMMA FlushOutcome ==
  ASSUME StreamInv, NEW flush \in Flushes
  PROVE  /\ flush.disk \in Seq(Nat)
         /\ flush.buffer \in Seq(Bytes)
         /\ flush.fails \in {0, 1}
         /\ Len(flush.buffer) <= Len(buffer)
         /\ file = "open" => flush.disk \in Seq(Bytes)
         /\ file = "NULL" => flush.disk = disk /\ flush.buffer = buffer
                               /\ flush.fails = 0
         /\ file = "open" /\ flush.fails = 0 => flush.buffer = << >>
         /\ failures = 0 /\ flush.fails = 0 =>
              (IF flush.disk = Old THEN << >> ELSE flush.disk)
                 \o flush.buffer = accepted
<1> USE DEF StreamInv, TypeOK, BufferInBounds, BytesAreNew
<1>1. CASE file = "NULL" \/ buffer = << >>
  <2>1. flush = [disk |-> disk, buffer |-> buffer, fails |-> 0]
    BY <1>1 DEF Flushes
  <2> QED BY <1>1, <2>1 DEF ExactUntilFailure, Written
<1>2. CASE ~(file = "NULL" \/ buffer = << >>)
  <2>1. PICK taken \in 0 .. Len(buffer) :
          flush = [disk   |-> disk \o SubSeq(buffer, 1, taken),
                   buffer |-> IF taken = Len(buffer) THEN << >> ELSE buffer,
                   fails  |-> IF taken = Len(buffer) THEN 0 ELSE 1]
    BY <1>2 DEF Flushes, Fwrites
  <2>2. file = "open" /\ disk \in Seq(Bytes)
    BY <1>2
  <2>3. SubSeq(buffer, 1, taken) \in Seq(Bytes)
    <3>1. \A i \in 1 .. taken : buffer[i] \in Bytes
      BY ElementOfSeq
    <3> QED BY <3>1, SubSeqProperties
  <2>4. flush.disk \in Seq(Bytes)
    BY <2>1, <2>2, <2>3, ConcatProperties
  <2>5. flush.disk \in Seq(Nat)
    BY <2>4 DEF Bytes
  <2>6. << >> \in Seq(Bytes) /\ Len(<< >>) = 0
    OBVIOUS
  <2>7. ASSUME failures = 0, flush.fails = 0
        PROVE  (IF flush.disk = Old THEN << >> ELSE flush.disk)
                  \o flush.buffer = accepted
    <3>1. taken = Len(buffer) /\ flush.buffer = << >>
      BY <2>1, <2>7
    <3>2. SubSeq(buffer, 1, taken) = buffer
      BY <3>1, SubSeqFull
    <3>3. flush.disk = disk \o buffer
      BY <2>1, <3>2
    <3>4. disk # Old /\ flush.disk # Old
      BY <2>2, <2>4, NotOld
    <3>5. disk \o buffer = accepted
      BY <2>7, <3>4 DEF ExactUntilFailure, Written
    <3>6. flush.disk \o << >> = flush.disk
      BY <2>4, ConcatEmptySeq
    <3> QED BY <3>1, <3>3, <3>4, <3>5, <3>6
  <2>8. /\ flush.buffer \in Seq(Bytes)
        /\ flush.fails \in {0, 1}
        /\ Len(flush.buffer) <= Len(buffer)
        /\ flush.fails = 0 => flush.buffer = << >>
    BY <2>1, <2>6
  <2> QED BY <2>2, <2>4, <2>5, <2>7, <2>8
<1> QED BY <1>1, <1>2

(* A write that is accepted adds its bytes after those accepted before. *)
LEMMA InsertKeepsOrder ==
  ASSUME NEW written \in Seq(Nat), NEW bytes \in Seq(Bytes),
         NEW data \in Seq(Bytes)
  PROVE  /\ bytes \o data \in Seq(Bytes)
         /\ Len(bytes \o data) = Len(bytes) + Len(data)
         /\ written \o (bytes \o data) = (written \o bytes) \o data
<1>1. bytes \in Seq(Nat) /\ data \in Seq(Nat)
  BY DEF Bytes
<1>2. (written \o bytes) \o data = written \o (bytes \o data)
  BY <1>1, ConcatAssociative
<1> QED BY <1>2, ConcatProperties

LEMMA StreamInit == Init => StreamInv
<1> SUFFICES ASSUME Init PROVE StreamInv
  OBVIOUS
<1>1. << >> \in Seq(Bytes) /\ << >> \in Seq(Nat) /\ Old \in Seq(Nat)
  BY DEF Old
<1>2. << >> \o << >> = << >> /\ Len(<< >>) = 0
  OBVIOUS
<1>3. TypeOK
  BY <1>1 DEF Init, TypeOK, Errors
<1>4. Written = << >> /\ buffer = << >> /\ accepted = << >>
  BY DEF Init, Written
<1>5. BufferInBounds /\ ExactUntilFailure
  BY <1>2, <1>4 DEF Init, BufferInBounds, ExactUntilFailure
<1>6. BytesAreNew
  BY <1>1 DEF Init, BytesAreNew
<1> QED BY <1>3, <1>5, <1>6 DEF StreamInv

(* Whatever a write comes to, be it the client's or the emitter's. *)
LEMMA WriteKeeps ==
  ASSUME StreamInv, NEW count \in Nat, created, offered' = offered + count,
         Write(count), UNCHANGED << created, size, file >>
  PROVE  StreamInv'
<1>1. count \in Nat /\ Data(count) \in Seq(Bytes)
        /\ Len(Data(count)) = count
  BY DataBytes DEF StreamInv, TypeOK
<1>2. accepted \o Data(count) \in Seq(Nat)
  BY <1>1, ConcatProperties DEF StreamInv, TypeOK, Bytes
<1>3. CASE /\ Fits(buffer, count)
           /\ Insert(buffer, count)
           /\ UNCHANGED << disk, error, failures >>
  <2>1. Written \in Seq(Nat) /\ Written' = Written
    BY <1>3 DEF Written, StreamInv, TypeOK
  <2>2. /\ buffer' \in Seq(Bytes)
        /\ Len(buffer') = Len(buffer) + count
        /\ Written \o buffer' = (Written \o buffer) \o Data(count)
    BY <1>1, <1>3, <2>1, InsertKeepsOrder
       DEF Insert, StreamInv, BytesAreNew
  <2>3. TypeOK'
    BY <1>1, <1>2, <1>3, <2>2 DEF Insert, StreamInv, TypeOK, Bytes
  <2>4. BufferInBounds'
    BY <1>1, <1>3, <2>2 DEF Fits, BufferInBounds, StreamInv, TypeOK
  <2>5. ExactUntilFailure'
    BY <1>3, <2>1, <2>2 DEF Insert, StreamInv, ExactUntilFailure
  <2>6. BytesAreNew'
    BY <1>3, <2>2 DEF StreamInv, BytesAreNew
  <2> QED BY <2>3, <2>4, <2>5, <2>6 DEF StreamInv
<1>4. ASSUME NEW flush \in Flushes,
             disk' = flush.disk,
             failures' = failures + flush.fails,
             \/ /\ error' \in Errors
                /\ buffer' = flush.buffer
                /\ UNCHANGED accepted
             \/ /\ Fits(flush.buffer, count)
                /\ Insert(flush.buffer, count)
                /\ UNCHANGED error
      PROVE  StreamInv'
  <2> DEFINE written == IF flush.disk = Old THEN << >> ELSE flush.disk
  <2>1. /\ flush.disk \in Seq(Nat)
        /\ flush.buffer \in Seq(Bytes)
        /\ flush.fails \in {0, 1}
        /\ Len(flush.buffer) <= Len(buffer)
        /\ file = "open" => flush.disk \in Seq(Bytes)
        /\ failures = 0 /\ flush.fails = 0 =>
             written \o flush.buffer = accepted
    BY FlushOutcome
  <2>2. written \in Seq(Nat) /\ Written' = written
    BY <1>4, <2>1 DEF Written
  <2>3. failures' \in Nat
          /\ (failures' = 0 => failures = 0 /\ flush.fails = 0)
    BY <1>4, <2>1 DEF StreamInv, TypeOK
  <2> HIDE DEF written
  <2>4. CASE error' \in Errors /\ buffer' = flush.buffer
               /\ UNCHANGED accepted
    <3>1. TypeOK'
      BY <1>1, <1>4, <2>1, <2>3, <2>4 DEF StreamInv, TypeOK, Bytes
    <3>2. BufferInBounds'
      BY <2>1, <2>4 DEF BufferInBounds, StreamInv, TypeOK, Bytes
    <3>3. ExactUntilFailure'
      BY <2>1, <2>2, <2>3, <2>4 DEF ExactUntilFailure
    <3>4. BytesAreNew'
      BY <1>4, <2>1, <2>4 DEF BytesAreNew
    <3> QED BY <3>1, <3>2, <3>3, <3>4 DEF StreamInv
  <2>5. CASE /\ Fits(flush.buffer, count)
             /\ Insert(flush.buffer, count)
             /\ UNCHANGED error
    <3>1. /\ buffer' \in Seq(Bytes)
          /\ Len(buffer') = Len(flush.buffer) + count
          /\ written \o buffer' = (written \o flush.buffer) \o Data(count)
      <4>1. buffer' = flush.buffer \o Data(count)
        BY <2>5 DEF Insert
      <4>2. /\ flush.buffer \o Data(count) \in Seq(Bytes)
            /\ Len(flush.buffer \o Data(count)) = Len(flush.buffer) + Len(Data(count))
            /\ written \o (flush.buffer \o Data(count))
                 = (written \o flush.buffer) \o Data(count)
        BY <1>1, <2>1, <2>2, InsertKeepsOrder, Zenon
      <4> QED BY <1>1, <4>1, <4>2
    <3>2. TypeOK'
      <4>1. buffer' \in Seq(Nat)
        BY <3>1 DEF Bytes
      <4>2. /\ accepted' = accepted \o Data(count)
            /\ UNCHANGED error
        BY <2>5 DEF Insert
      <4>3. accepted' \in Seq(Nat)
        BY <1>1, <1>2, <4>2 DEF Bytes, StreamInv, TypeOK
      <4>4. /\ disk' \in Seq(Nat)
            /\ failures' \in Nat
        BY <1>4, <2>1, <2>3
      <4>5. /\ created' \in BOOLEAN
            /\ size' \in Nat
            /\ file' \in {"open", "NULL"}
            /\ offered' \in Nat
            /\ error' \in Errors
        BY <1>1, <1>4, <2>1, <2>3, <2>5, <4>2 DEF StreamInv, TypeOK
      <4>6. created'
        BY <1>1, <1>4, <2>1, <2>3, <2>5, <4>2 DEF StreamInv, TypeOK
      <4> QED BY <4>1, <4>3, <4>4, <4>5, <4>6 DEF TypeOK
    <3>3. BufferInBounds'
      BY <1>1, <2>1, <2>5, <3>1
         DEF Fits, BufferInBounds, StreamInv, TypeOK
    <3>4. ExactUntilFailure'
      BY <2>1, <2>2, <2>3, <2>5, <3>1 DEF Insert, ExactUntilFailure
    <3>5. BytesAreNew'
      BY <1>4, <2>1, <3>1 DEF BytesAreNew
    <3> QED BY <3>2, <3>3, <3>4, <3>5 DEF StreamInv
  <2> QED BY <1>4, <2>4, <2>5
<1>5. \A flush : ErrorAfter(flush) \in Errors
  BY DEF ErrorAfter, StreamInv, TypeOK, Errors
<1>6. "BufferTooSmall" \in Errors
  BY DEF Errors
<1> QED BY <1>3, <1>4, <1>5, <1>6 DEF Write

(* One step for each operation. *)
LEMMA StreamStep == StreamInv /\ [Next]_vars => StreamInv'
<1> SUFFICES ASSUME StreamInv, [Next]_vars PROVE StreamInv'
  OBVIOUS
<1> USE StreamAssumption
<1>1. CASE NewOnBuffer
  BY <1>1 DEF NewOnBuffer, StreamInv, TypeOK, BufferInBounds,
     ExactUntilFailure, Written, BytesAreNew, Errors
<1>2. CASE NewMemory
  BY <1>2 DEF NewMemory, StreamInv, TypeOK, BufferInBounds,
     ExactUntilFailure, Written, BytesAreNew, Errors, Maximum
<1>3. CASE NewFile
  <2>1. PICK requested \in Sizes, opens \in BOOLEAN, mem \in BOOLEAN :
          /\ ~created
          /\ created' = (opens /\ mem /\ error = "Ok")
          /\ size' = IF created' THEN Maximum(requested, MinBufferSize)
                     ELSE size
          /\ file' = IF created' THEN "open" ELSE "NULL"
          /\ disk' = IF opens THEN << >> ELSE disk
          /\ error' = IF ~opens THEN "IOError"
                      ELSE IF mem THEN error ELSE "BadAllocation"
          /\ UNCHANGED << buffer, offered, accepted, failures >>
    BY <1>3 DEF NewFile
  <2>2. buffer = << >> /\ accepted = << >> /\ file = "NULL"
    BY <2>1 DEF StreamInv, TypeOK
  <2>3. << >> \in Seq(Bytes) /\ << >> \in Seq(Nat)
    OBVIOUS
  <2>4. TypeOK'
    BY <2>1, <2>2, <2>3 DEF StreamInv, TypeOK, Errors, Maximum
  <2>5. BufferInBounds'
    BY <2>1, <2>2 DEF StreamInv, TypeOK, BufferInBounds, Maximum
  <2>6. ExactUntilFailure'
    BY <2>1, <2>2 DEF StreamInv, ExactUntilFailure, Written, Old
  <2>7. BytesAreNew'
    BY <2>1, <2>2, <2>3 DEF BytesAreNew
  <2> QED BY <2>4, <2>5, <2>6, <2>7 DEF StreamInv
<1>4. CASE WriteData
  BY <1>4, WriteKeeps DEF WriteData
<1>5. CASE Flush
  <2>1. PICK flush \in Flushes :
          /\ created
          /\ disk' = flush.disk
          /\ buffer' = flush.buffer
          /\ error' = ErrorAfter(flush)
          /\ failures' = failures + flush.fails
          /\ UNCHANGED << created, size, file, offered, accepted >>
    BY <1>5 DEF Flush
  <2>2. /\ flush.disk \in Seq(Nat)
        /\ flush.buffer \in Seq(Bytes)
        /\ flush.fails \in {0, 1}
        /\ Len(flush.buffer) <= Len(buffer)
        /\ file = "open" => flush.disk \in Seq(Bytes)
        /\ failures = 0 /\ flush.fails = 0 =>
             (IF flush.disk = Old THEN << >> ELSE flush.disk)
               \o flush.buffer = accepted
    BY FlushOutcome
  <2>3. failures' \in Nat
          /\ (failures' = 0 => failures = 0 /\ flush.fails = 0)
    BY <2>1, <2>2 DEF StreamInv, TypeOK
  <2>4. TypeOK'
    BY <2>1, <2>2, <2>3 DEF StreamInv, TypeOK, Bytes, Errors, ErrorAfter
  <2>5. BufferInBounds'
    BY <2>1, <2>2 DEF StreamInv, TypeOK, BufferInBounds, Bytes
  <2>6. ExactUntilFailure'
    BY <2>1, <2>2, <2>3 DEF ExactUntilFailure, Written
  <2>7. BytesAreNew'
    BY <2>1, <2>2 DEF BytesAreNew
  <2> QED BY <2>4, <2>5, <2>6, <2>7 DEF StreamInv
<1>6. CASE Close
  <2>1. PICK flush \in Flushes :
          /\ created
          /\ buffer' = flush.buffer
          /\ IF file = "NULL"
             THEN UNCHANGED << file, disk, error, failures >>
             ELSE IF ErrorAfter(flush) # "Ok"
             THEN /\ disk' = flush.disk
                  /\ error' = ErrorAfter(flush)
                  /\ failures' = failures + flush.fails
                  /\ UNCHANGED file
             ELSE Fclose(flush.disk)
          /\ UNCHANGED << created, size, offered, accepted >>
    BY <1>6 DEF Close
  <2>2. /\ flush.disk \in Seq(Nat)
        /\ flush.buffer \in Seq(Bytes)
        /\ flush.fails \in {0, 1}
        /\ Len(flush.buffer) <= Len(buffer)
        /\ file = "open" => flush.disk \in Seq(Bytes)
        /\ file = "NULL" => flush.disk = disk /\ flush.buffer = buffer
                              /\ flush.fails = 0
        /\ failures = 0 /\ flush.fails = 0 =>
             (IF flush.disk = Old THEN << >> ELSE flush.disk)
               \o flush.buffer = accepted
    BY FlushOutcome
  <2>3. BufferInBounds'
    BY <2>1, <2>2 DEF StreamInv, TypeOK, BufferInBounds, Bytes
  <2>4. CASE file = "NULL"
    BY <2>1, <2>2, <2>4 DEF StreamInv, TypeOK, BufferInBounds,
       ExactUntilFailure, Written, BytesAreNew
  <2>5. CASE file = "open" /\ ErrorAfter(flush) # "Ok"
    <3>1. failures' \in Nat
            /\ (failures' = 0 => failures = 0 /\ flush.fails = 0)
      BY <2>1, <2>2, <2>5 DEF StreamInv, TypeOK
    <3>2. TypeOK'
      BY <2>1, <2>2, <2>5, <3>1
         DEF StreamInv, TypeOK, Bytes, Errors, ErrorAfter
    <3>3. ExactUntilFailure'
      BY <2>1, <2>2, <2>5, <3>1 DEF ExactUntilFailure, Written
    <3>4. BytesAreNew'
      BY <2>1, <2>2, <2>5 DEF BytesAreNew
    <3> QED BY <2>3, <3>2, <3>3, <3>4 DEF StreamInv
  <2>6. CASE file = "open" /\ ErrorAfter(flush) = "Ok"
    <3>1. flush.fails = 0
      BY <2>2, <2>6 DEF ErrorAfter
    <3>2. Fclose(flush.disk) /\ file' = "NULL"
      BY <2>1, <2>6 DEF Fclose
    <3>3. \A kept \in 0 .. Len(flush.disk) :
            SubSeq(flush.disk, 1, kept) \in Seq(Nat)
      <4>1. TAKE kept \in 0 .. Len(flush.disk)
      <4>2. \A i \in 1 .. kept : flush.disk[i] \in Nat
        BY <2>2, ElementOfSeq
      <4> QED BY <4>2, SubSeqProperties
    <3>4. /\ disk' \in Seq(Nat) /\ error' \in Errors /\ failures' \in Nat
          /\ failures' = 0 => disk' = flush.disk /\ failures = 0
      BY <2>2, <3>2, <3>3 DEF Fclose, StreamInv, TypeOK, Errors
    <3>5. TypeOK'
      BY <2>1, <2>2, <3>2, <3>4 DEF StreamInv, TypeOK, Bytes
    <3>6. ExactUntilFailure'
      BY <2>1, <2>2, <3>1, <3>4 DEF ExactUntilFailure, Written
    <3>7. BytesAreNew'
      BY <2>1, <2>2, <3>2 DEF BytesAreNew
    <3> QED BY <2>3, <3>5, <3>6, <3>7 DEF StreamInv
  <2> QED BY <2>4, <2>5, <2>6 DEF StreamInv, TypeOK
<1>7. CASE ClientResetsError
  BY <1>7 DEF ClientResetsError, StreamInv, TypeOK, BufferInBounds,
     ExactUntilFailure, Written, BytesAreNew, Errors
<1>8. CASE UNCHANGED vars
  BY <1>8 DEF vars, StreamInv, TypeOK, BufferInBounds, ExactUntilFailure,
     Written, BytesAreNew
<1> QED
  BY <1>1, <1>2, <1>3, <1>4, <1>5, <1>6, <1>7, <1>8 DEF Next

LEMMA StreamInvariant == Spec => []StreamInv
BY StreamInit, StreamStep, PTL DEF Spec

(* Whatever the client calls and however often the file fails, no write     *)
(* runs over the end of the buffer.                                         *)
THEOREM StreamInBounds == Spec => [](TypeOK /\ BufferInBounds)
<1>1. StreamInv => TypeOK /\ BufferInBounds
  BY DEF StreamInv
<1> QED BY <1>1, StreamInvariant, PTL

(* As long as the file works, file and buffer hold exactly what was         *)
(* accepted, for buffers and writes of any size.                            *)
THEOREM StreamIsExact == Spec => []ExactUntilFailure
<1>1. StreamInv => ExactUntilFailure
  BY DEF StreamInv
<1> QED BY <1>1, StreamInvariant, PTL

(* BufferTooSmall is never reported to the client of an open file for bytes *)
(* that the empty buffer would hold.                                        *)
THEOREM StreamTooSmallIsHonest == Spec => TooSmallIsHonest
<1> DEFINE Honest ==
      error # "BufferTooSmall" /\ error' = "BufferTooSmall" =>
        file = "NULL" \/ offered' - offered > size
<1>1. ASSUME StreamInv, [Next]_vars, error # "BufferTooSmall",
             error' = "BufferTooSmall", file # "NULL"
      PROVE  offered' - offered > size
  <2> USE <1>1
  <2>1. \A flush : ErrorAfter(flush) # "BufferTooSmall"
    BY DEF ErrorAfter
  <2>2. created /\ file = "open"
    BY DEF StreamInv, TypeOK
  <2>3. ~NewOnBuffer /\ ~NewMemory /\ ~NewFile
    BY <2>2 DEF NewOnBuffer, NewMemory, NewFile
  <2>4. ~Flush /\ ~ClientResetsError /\ ~UNCHANGED vars
    BY <2>1 DEF Flush, ClientResetsError, vars
  <2>5. ~Close
    BY <2>1 DEF Close, Fclose
  <2>6. WriteData
    BY <2>3, <2>4, <2>5 DEF Next
  <2>7. PICK count \in Lengths : offered' = offered + count /\ Write(count)
    BY <2>6 DEF WriteData
  <2>8. PICK flush \in Flushes :
          ErrorAfter(flush) = "Ok" /\ ~Fits(flush.buffer, count)
    BY <2>1, <2>7 DEF Write
  <2>9. flush.fails = 0
    BY <2>8 DEF ErrorAfter
  <2>10. flush.buffer = << >>
    BY <2>2, <2>9, FlushOutcome
  <2> QED BY <2>7, <2>8, <2>10, StreamAssumption DEF Fits, StreamInv, TypeOK
<1>2. StreamInv /\ [Next]_vars => [Honest]_vars
  BY <1>1
<1> QED BY <1>2, StreamInvariant, PTL DEF Spec, TooSmallIsHonest

-----------------------------------------------------------------------------
(* Induction over numbers, for sets of them.                               *)

Less == { p \in Nat \X Nat : p[1] < p[2] }

LEMMA LeastNumber ==
  ASSUME NEW T, T \subseteq Nat, T # { }
  PROVE  \E m \in T : \A k \in T : m <= k
<1>1. Less = OpToRel(<, Nat)
  BY DEF Less, OpToRel
<1>2. PICK m \in T : \A k \in T : ~(<< k, m >> \in Less)
  <2>1. IsWellFoundedOn(Less, Nat)
    BY <1>1, NatLessThanWellFounded
  <2> QED BY <2>1, WFMin, Zenon
<1>3. ASSUME NEW k \in T PROVE m <= k
  <2>1. k \in Nat /\ m \in Nat
    OBVIOUS
  <2>2. ~(k < m)
    BY <1>2, <2>1 DEF Less
  <2> QED BY <2>1, <2>2
<1> QED BY <1>3

LEMMA Induction ==
  ASSUME NEW n \in Nat, NEW S,
         0 \in S, \A k \in 0 .. n - 1 : k \in S => k + 1 \in S
  PROVE  \A k \in 0 .. n : k \in S
<1> DEFINE T == (0 .. n) \ S
<1>1. SUFFICES ASSUME T # { } PROVE FALSE
  OBVIOUS
<1>2. PICK m \in T : \A k \in T : m <= k
  <2>1. T \subseteq Nat
    OBVIOUS
  <2> HIDE DEF T
  <2> QED BY <1>1, <2>1, LeastNumber
<1>3. m # 0 /\ m - 1 \in 0 .. n - 1 /\ m - 1 \notin T
  BY <1>2
<1> QED BY <1>2, <1>3

-----------------------------------------------------------------------------
(* Subsequences.                                                           *)

(* f says where in b the elements of a are. *)
EmbedsBy(f, a, b) ==
  /\ f \in [1 .. Len(a) -> 1 .. Len(b)]
  /\ \A i, j \in 1 .. Len(a) : i < j => f[i] < f[j]
  /\ \A i \in 1 .. Len(a) : a[i] = b[f[i]]

Embeds(a, b) == \E f : EmbedsBy(f, a, b)

(* One step of the search of IsSubsequence. *)
Found(seq, longer, found, i) ==
  IF found < Len(seq) /\ seq[found + 1] = longer[i] THEN found + 1 ELSE found

IsSearch(g, seq, longer, n) ==
  g = [ i \in 0 .. n |->
          IF i = 0 THEN 0
          ELSE LET sofar == g[i - 1]
               IN  IF sofar < Len(seq) /\ seq[sofar + 1] = longer[i]
                   THEN sofar + 1 ELSE sofar ]

Searches(g, seq, longer, n) ==
  /\ g \in [0 .. n -> 0 .. Len(seq)]
  /\ g[0] = 0
  /\ \A i \in 1 .. n : g[i] = Found(seq, longer, g[i - 1], i)

LEMMA SearchExists ==
  ASSUME NEW a \in Seq(Nat), NEW b \in Seq(Nat)
  PROVE  \E g : Searches(g, a, b, Len(b))
<1> DEFINE n == Len(b)
           m == Len(a)
           S == { k \in 0 .. n : \E g : Searches(g, a, b, k) }
<1>1. n \in Nat /\ m \in Nat /\ m = Len(a)
  OBVIOUS
<1> HIDE DEF n, m
<1>2. 0 \in S
  <2>1. Searches([ i \in 0 .. 0 |-> 0 ], a, b, 0)
    BY <1>1 DEF Searches
  <2> QED BY <1>1, <2>1
<1>3. ASSUME NEW k \in 0 .. n - 1, k \in S PROVE k + 1 \in S
  <2>1. PICK g : Searches(g, a, b, k)
    BY <1>3
  <2>2. g[k] \in 0 .. m /\ k \in Nat
    BY <1>1, <2>1 DEF Searches
  <2> DEFINE x == Found(a, b, g[k], k + 1)
             h == [ i \in 0 .. k + 1 |-> IF i <= k THEN g[i] ELSE x ]
  <2>3. x \in 0 .. m
    BY <1>1, <2>2 DEF Found
  <2> HIDE DEF x
  <2>4. Searches(h, a, b, k + 1)
    <3>1. h \in [0 .. k + 1 -> 0 .. Len(a)]
      BY <1>1, <2>1, <2>2, <2>3 DEF Searches
    <3>2. h[0] = 0
      BY <2>1, <2>2 DEF Searches
    <3>3. ASSUME NEW i \in 1 .. k + 1 PROVE h[i] = Found(a, b, h[i - 1], i)
      <4>1. CASE i <= k
        <5>1. h[i] = g[i] /\ h[i - 1] = g[i - 1] /\ i \in 1 .. k
          BY <2>2, <4>1
        <5> HIDE DEF h
        <5> QED BY <2>1, <5>1 DEF Searches
      <4>2. CASE i = k + 1
        <5>1. h[i] = x /\ h[i - 1] = g[k]
          BY <2>2, <4>2
        <5> HIDE DEF h
        <5> QED BY <4>2, <5>1 DEF x
      <4> QED BY <2>2, <4>1, <4>2
    <3> HIDE DEF h
    <3> QED BY <3>1, <3>2, <3>3 DEF Searches
  <2> HIDE DEF h
  <2> QED BY <1>1, <2>4
<1>4. n \in S
  <2> HIDE DEF S
  <2> QED BY <1>1, <1>2, <1>3, Induction, n \in 0 .. n
<1> QED BY <1>4 DEF n

(* The recursive function of IsSubsequence searches. *)
LEMMA SubsequenceSearches ==
  ASSUME NEW a \in Seq(Nat), NEW b \in Seq(Nat)
  PROVE  \E g : Searches(g, a, b, Len(b)) /\ (IsSubsequence(a, b) <=> g[Len(b)] = Len(a))
<1> DEFINE n == Len(b)
           g == CHOOSE f : IsSearch(f, a, b, n)
<1>1. n \in Nat
  OBVIOUS
<1>2. IsSubsequence(a, b) <=> g[n] = Len(a)
  BY DEF IsSubsequence, IsSearch
<1> HIDE DEF n
<1>3. PICK h : Searches(h, a, b, n)
  BY SearchExists DEF n
<1>4. IsSearch(h, a, b, n)
  <2>1. h = [ i \in 0 .. n |-> h[i] ]
    BY <1>3 DEF Searches
  <2>2. \A i \in 0 .. n :
          h[i] = IF i = 0 THEN 0
                 ELSE IF h[i - 1] < Len(a) /\ a[h[i - 1] + 1] = b[i]
                 THEN h[i - 1] + 1
                 ELSE h[i - 1]
    <3>1. h[0] = 0 /\ \A i \in 1 .. n : h[i] = Found(a, b, h[i - 1], i)
      BY <1>3 DEF Searches
    <3>2. \A i \in 0 .. n : i = 0 \/ i \in 1 .. n
      BY <1>1
    <3>3. \A i \in 1 .. n : i # 0
      OBVIOUS
    <3> QED BY <3>1, <3>2, <3>3 DEF Found
  <2> QED BY <2>1, <2>2 DEF IsSearch
<1>5. IsSearch(g, a, b, n)
  BY <1>4
<1> HIDE DEF g
<1>6. /\ g[0] = 0
      /\ \A i \in 1 .. n : g[i] = Found(a, b, g[i - 1], i)
      /\ DOMAIN g = 0 .. n
  <2>1. /\ DOMAIN g = 0 .. n
        /\ \A i \in 0 .. n :
             g[i] = IF i = 0 THEN 0
                    ELSE IF g[i - 1] < Len(a) /\ a[g[i - 1] + 1] = b[i]
                    THEN g[i - 1] + 1
                    ELSE g[i - 1]
    BY <1>5 DEF IsSearch
  <2> QED BY <1>1, <2>1 DEF Found
<1> DEFINE S == { k \in 0 .. n : g[k] = h[k] }
<1>7. 0 \in S
  BY <1>1, <1>3, <1>6 DEF Searches
<1>8. ASSUME NEW k \in 0 .. n - 1, k \in S PROVE k + 1 \in S
  <2>1. k + 1 \in 1 .. n /\ k + 1 \in 0 .. n /\ (k + 1) - 1 = k /\ g[k] = h[k]
    BY <1>1, <1>8
  <2>2. g[k + 1] = Found(a, b, g[(k + 1) - 1], k + 1)
    BY <1>6, <2>1
  <2>3. h[k + 1] = Found(a, b, h[(k + 1) - 1], k + 1)
    BY <1>3, <2>1 DEF Searches
  <2> QED BY <2>1, <2>2, <2>3
<1>9. \A k \in 0 .. n : g[k] = h[k]
  <2>1. \A k \in 0 .. n : k \in S
    <3> HIDE DEF S
    <3> QED BY <1>1, <1>7, <1>8, Induction
  <2> QED BY <2>1
<1>10. h[n] = g[n]
  BY <1>1, <1>9, n \in 0 .. n
<1> QED BY <1>2, <1>3, <1>10 DEF n

(* The search is greedy: it has found every element by where another way of *)
(* leaving elements out has it.                                             *)
LEMMA EmbeddedIsSubsequence ==
  ASSUME NEW a \in Seq(Nat), NEW b \in Seq(Nat), Embeds(a, b)
  PROVE  IsSubsequence(a, b)
<1> DEFINE n == Len(b)
           m == Len(a)
<1>1. n \in Nat /\ m \in Nat
  OBVIOUS
<1>2. PICK f : EmbedsBy(f, a, b)
  BY DEF Embeds
<1>3. PICK g : Searches(g, a, b, n) /\ (IsSubsequence(a, b) <=> g[n] = m)
  BY SubsequenceSearches
<1>4. /\ \A k \in 1 .. m : f[k] \in 1 .. n
      /\ \A i, j \in 1 .. m : i < j => f[i] < f[j]
      /\ \A i \in 1 .. m : a[i] = b[f[i]]
  BY <1>2 DEF EmbedsBy
<1>5. /\ \A i \in 0 .. n : g[i] \in 0 .. m
      /\ g[0] = 0
      /\ \A i \in 1 .. n :
           g[i] = IF g[i - 1] < m /\ a[g[i - 1] + 1] = b[i] THEN g[i - 1] + 1
                  ELSE g[i - 1]
  BY <1>3 DEF Searches, Found
<1> HIDE DEF n, m
<1> DEFINE S == { i \in 0 .. n : \A k \in 1 .. m : f[k] <= i => k <= g[i] }
<1>6. 0 \in S
  BY <1>1, <1>4
<1>7. ASSUME NEW i \in 0 .. n - 1, i \in S PROVE i + 1 \in S
  <2>1. /\ i + 1 \in 1 .. n /\ i + 1 \in 0 .. n /\ (i + 1) - 1 = i /\ i \in 0 .. n
        /\ g[i] \in 0 .. m /\ g[i + 1] \in 0 .. m
    BY <1>1, <1>5
  <2>2. g[i + 1] = IF g[i] < m /\ a[g[i] + 1] = b[i + 1] THEN g[i] + 1 ELSE g[i]
    <3>1. g[i + 1] = IF g[(i + 1) - 1] < m /\ a[g[(i + 1) - 1] + 1] = b[i + 1]
                     THEN g[(i + 1) - 1] + 1 ELSE g[(i + 1) - 1]
      BY <1>5, <2>1
    <3> QED BY <2>1, <3>1
  <2>3. ASSUME NEW k \in 1 .. m, f[k] <= i + 1 PROVE k <= g[i + 1]
    <3>1. CASE f[k] <= i
      BY <1>7, <2>1, <2>2, <3>1
    <3>2. CASE f[k] = i + 1
      <4>1. k - 1 <= g[i]
        <5>1. CASE k = 1
          BY <2>1, <5>1
        <5>2. CASE k # 1
          <6>1. k - 1 \in 1 .. m /\ k - 1 < k
            BY <1>1, <5>2
          <6>2. f[k - 1] < f[k] /\ f[k - 1] \in 1 .. n
            BY <1>4, <6>1
          <6>3. f[k - 1] <= i
            BY <1>1, <2>1, <3>2, <6>2
          <6> QED BY <1>7, <6>1, <6>3
        <5> QED BY <5>1, <5>2
      <4>2. CASE g[i] = k - 1
        <5>1. g[i] + 1 = k /\ g[i] < m
          BY <1>1, <2>1, <4>2
        <5>2. a[k] = b[i + 1]
          BY <1>4, <3>2
        <5>3. g[i + 1] = g[i] + 1
          BY <2>2, <5>1, <5>2
        <5> QED BY <5>1, <5>3
      <4>3. CASE g[i] # k - 1
        <5>1. k <= g[i]
          BY <1>1, <2>1, <4>1, <4>3
        <5>2. g[i] <= g[i + 1]
          BY <1>1, <2>1, <2>2
        <5> QED BY <1>1, <2>1, <5>1, <5>2
      <4> QED BY <4>2, <4>3
    <3>3. f[k] <= i \/ f[k] = i + 1
      BY <1>1, <1>4, <2>1, <2>3
    <3> QED BY <3>1, <3>2, <3>3
  <2> QED BY <2>1, <2>3
<1>8. n \in S
  <2> HIDE DEF S
  <2> QED BY <1>1, <1>6, <1>7, Induction, n \in 0 .. n
<1>9. g[n] = m
  <2>1. CASE m = 0
    BY <1>1, <1>5, <2>1, n \in 0 .. n
  <2>2. CASE m # 0
    <3>1. m \in 1 .. m /\ f[m] <= n /\ g[n] \in 0 .. m
      BY <1>1, <1>4, <1>5, <2>2
    <3> QED BY <1>1, <1>8, <3>1
  <2> QED BY <2>1, <2>2
<1> QED BY <1>3, <1>9

-----------------------------------------------------------------------------
(* What a flush, a flush that fails half-way and a write do to it.         *)

LEMMA EmptyEmbeds ==
  ASSUME NEW b \in Seq(Nat)
  PROVE  Embeds(<< >>, b)
<1>1. Len(b) \in Nat /\ Len(<< >>) = 0 /\ 1 .. 0 = { }
  OBVIOUS
<1>2. EmbedsBy([ i \in 1 .. 0 |-> 0 ], << >>, b)
  BY <1>1 DEF EmbedsBy
<1> QED BY <1>2 DEF Embeds

(* Bytes in between do no harm. *)
LEMMA EmbedsInserted ==
  ASSUME NEW a \in Seq(Nat), NEW d \in Seq(Nat), NEW p \in Seq(Nat),
         NEW r \in Seq(Nat), Embeds(a, d \o r)
  PROVE  Embeds(a, (d \o p) \o r)
<1> DEFINE b == d \o r
           c == (d \o p) \o r
           k == Len(d)
           l == Len(p)
           n == Len(r)
           m == Len(a)
<1>1. /\ k \in Nat /\ l \in Nat /\ n \in Nat /\ m \in Nat
      /\ Len(b) = k + n /\ Len(c) = (k + l) + n
  OBVIOUS
<1>2. /\ \A i \in 1 .. k : b[i] = d[i]
      /\ \A i \in k + 1 .. k + n : b[i] = r[i - k]
      /\ \A i \in 1 .. k : c[i] = d[i]
      /\ \A i \in (k + l) + 1 .. (k + l) + n : c[i] = r[i - (k + l)]
  OBVIOUS
<1>3. PICK f : EmbedsBy(f, a, b)
  BY DEF Embeds
<1>4. /\ \A i \in 1 .. m : f[i] \in 1 .. k + n
      /\ \A i, j \in 1 .. m : i < j => f[i] < f[j]
      /\ \A i \in 1 .. m : a[i] = b[f[i]]
  BY <1>1, <1>3 DEF EmbedsBy
<1> HIDE DEF b, c, k, l, m, n
<1> DEFINE h == [ i \in 1 .. m |-> IF f[i] <= k THEN f[i] ELSE f[i] + l ]
<1>5. h \in [1 .. m -> 1 .. (k + l) + n]
  BY <1>1, <1>4
<1>6. ASSUME NEW i \in 1 .. m, NEW j \in 1 .. m, i < j PROVE h[i] < h[j]
  <2>1. f[i] < f[j] /\ f[i] \in 1 .. k + n /\ f[j] \in 1 .. k + n
    BY <1>4, <1>6
  <2>2. /\ h[i] = IF f[i] <= k THEN f[i] ELSE f[i] + l
        /\ h[j] = IF f[j] <= k THEN f[j] ELSE f[j] + l
    OBVIOUS
  <2> HIDE DEF h
  <2> QED BY <1>1, <2>1, <2>2
<1>7. ASSUME NEW i \in 1 .. m PROVE a[i] = c[h[i]]
  <2>1. f[i] \in 1 .. k + n /\ a[i] = b[f[i]]
    BY <1>4
  <2>2. CASE f[i] <= k
    <3>1. f[i] \in 1 .. k /\ h[i] = f[i]
      BY <1>1, <2>1, <2>2
    <3> QED BY <1>2, <2>1, <3>1
  <2>3. CASE ~(f[i] <= k)
    <3>1. /\ f[i] \in k + 1 .. k + n /\ h[i] = f[i] + l
          /\ f[i] + l \in (k + l) + 1 .. (k + l) + n
          /\ (f[i] + l) - (k + l) = f[i] - k
      <4>1. h[i] = f[i] + l
        BY <2>3
      <4>2. ASSUME NEW x \in 1 .. k + n, ~(x <= k)
            PROVE  /\ x \in k + 1 .. k + n
                   /\ x + l \in (k + l) + 1 .. (k + l) + n
                   /\ (x + l) - (k + l) = x - k
        BY <1>1, <4>2
      <4> HIDE DEF h
      <4> QED BY <2>1, <2>3, <4>1, <4>2
    <3>2. b[f[i]] = r[f[i] - k] /\ c[f[i] + l] = r[(f[i] + l) - (k + l)]
      BY <1>2, <3>1
    <3> QED BY <2>1, <3>1, <3>2
  <2> QED BY <2>2, <2>3
<1> HIDE DEF h
<1>8. EmbedsBy(h, a, c)
  BY <1>1, <1>5, <1>6, <1>7 DEF EmbedsBy, m
<1> QED BY <1>8 DEF Embeds, c

(* The same bytes after both. *)
LEMMA EmbedsAppended ==
  ASSUME NEW a \in Seq(Nat), NEW b \in Seq(Nat), NEW e \in Seq(Nat), Embeds(a, b)
  PROVE  Embeds(a \o e, b \o e)
<1> DEFINE c == a \o e
           d == b \o e
           m == Len(a)
           n == Len(b)
           l == Len(e)
<1>1. /\ m \in Nat /\ n \in Nat /\ l \in Nat
      /\ Len(c) = m + l /\ Len(d) = n + l
  OBVIOUS
<1>2. /\ \A i \in 1 .. m : c[i] = a[i]
      /\ \A i \in m + 1 .. m + l : c[i] = e[i - m]
      /\ \A i \in 1 .. n : d[i] = b[i]
      /\ \A i \in n + 1 .. n + l : d[i] = e[i - n]
  OBVIOUS
<1>3. PICK f : EmbedsBy(f, a, b)
  BY DEF Embeds
<1>4. /\ \A i \in 1 .. m : f[i] \in 1 .. n
      /\ \A i, j \in 1 .. m : i < j => f[i] < f[j]
      /\ \A i \in 1 .. m : a[i] = b[f[i]]
  BY <1>1, <1>3 DEF EmbedsBy
<1> HIDE DEF c, d, m, n, l
<1> DEFINE h == [ i \in 1 .. m + l |-> IF i <= m THEN f[i] ELSE n + (i - m) ]
<1>5. h \in [1 .. m + l -> 1 .. n + l]
  <2>1. ASSUME NEW i \in 1 .. m + l PROVE h[i] \in 1 .. n + l
    <3>1. CASE i <= m
      BY <1>1, <1>4, <3>1, i \in 1 .. m
    <3>2. CASE ~(i <= m)
      BY <1>1, <3>2
    <3> QED BY <3>1, <3>2
  <2> QED BY <2>1
<1>6. ASSUME NEW i \in 1 .. m + l, NEW j \in 1 .. m + l, i < j
      PROVE  h[i] < h[j]
  <2>1. CASE j <= m
    <3>1. i \in 1 .. m /\ j \in 1 .. m /\ i <= m
      BY <1>1, <1>6, <2>1
    <3> QED BY <1>4, <1>6, <2>1, <3>1
  <2>2. CASE i <= m /\ ~(j <= m)
    <3>1. i \in 1 .. m /\ f[i] \in 1 .. n
      BY <1>1, <1>4, <2>2
    <3> QED BY <1>1, <2>2, <3>1
  <2>3. CASE ~(i <= m) /\ ~(j <= m)
    BY <1>1, <1>6, <2>3
  <2> QED BY <1>1, <1>6, <2>1, <2>2, <2>3
<1>7. ASSUME NEW i \in 1 .. m + l PROVE c[i] = d[h[i]]
  <2>1. CASE i <= m
    <3>1. i \in 1 .. m /\ f[i] \in 1 .. n /\ h[i] = f[i]
      BY <1>1, <1>4, <2>1
    <3> QED BY <1>2, <1>4, <3>1
  <2>2. CASE ~(i <= m)
    <3>1. /\ i \in m + 1 .. m + l /\ h[i] = n + (i - m)
          /\ n + (i - m) \in n + 1 .. n + l
          /\ (n + (i - m)) - n = i - m
      BY <1>1, <2>2
    <3>2. c[i] = e[i - m] /\ d[n + (i - m)] = e[(n + (i - m)) - n]
      BY <1>2, <3>1
    <3> QED BY <3>1, <3>2
  <2> QED BY <2>1, <2>2
<1> HIDE DEF h
<1>8. EmbedsBy(h, c, d)
  BY <1>1, <1>5, <1>6, <1>7 DEF EmbedsBy
<1> QED BY <1>8 DEF Embeds, c, d

-----------------------------------------------------------------------------
(* As long as the file is open, what was accepted can be had from the file  *)
(* and the buffer, also where a write failed half-way and was repeated.     *)
FileHolds == file = "open" => Embeds(accepted, disk \o buffer)

(* What flushing comes to when the file is open. *)
LEMMA FlushHolds ==
  ASSUME StreamInv, FileHolds, file = "open", NEW flush \in Flushes
  PROVE  /\ Embeds(accepted, flush.disk \o flush.buffer)
         /\ flush.disk \in Seq(Nat) /\ flush.buffer \in Seq(Nat)
<1>1. /\ disk \in Seq(Nat) /\ buffer \in Seq(Nat) /\ accepted \in Seq(Nat)
      /\ Embeds(accepted, disk \o buffer)
  BY DEF StreamInv, TypeOK, FileHolds
<1>2. CASE buffer = << >>
  <2>1. flush = [disk |-> disk, buffer |-> buffer, fails |-> 0]
    BY <1>2 DEF Flushes
  <2>2. flush.disk = disk /\ flush.buffer = buffer
    BY <2>1
  <2> QED BY <1>1, <2>2
<1>3. CASE buffer # << >>
  <2>1. PICK taken \in 0 .. Len(buffer) :
          flush = [disk   |-> disk \o SubSeq(buffer, 1, taken),
                   buffer |-> IF taken = Len(buffer) THEN << >> ELSE buffer,
                   fails  |-> IF taken = Len(buffer) THEN 0 ELSE 1]
    BY <1>3 DEF Flushes, Fwrites
  <2>2. SubSeq(buffer, 1, taken) \in Seq(Nat)
    BY <1>1, SubSeqProperties, ElementOfSeq
  <2>3. CASE taken = Len(buffer)
    <3>1. SubSeq(buffer, 1, taken) = buffer
      BY <1>1, <2>3
    <3>2. flush.disk = disk \o buffer /\ flush.buffer = << >>
      BY <2>1, <2>3, <3>1
    <3>3. disk \o buffer \in Seq(Nat)
      BY <1>1
    <3>4. (disk \o buffer) \o << >> = disk \o buffer
      BY <3>3, ConcatEmptySeq
    <3> QED BY <1>1, <3>2, <3>3, <3>4
  <2>4. CASE taken # Len(buffer)
    <3>1. flush.disk = disk \o SubSeq(buffer, 1, taken) /\ flush.buffer = buffer
      BY <2>1, <2>4
    <3>2. Embeds(accepted, (disk \o SubSeq(buffer, 1, taken)) \o buffer)
      BY <1>1, <2>2, EmbedsInserted
    <3>3. flush.disk \in Seq(Nat)
      BY <1>1, <2>2, <3>1, ConcatProperties
    <3> QED BY <1>1, <3>1, <3>2, <3>3
  <2> QED BY <2>3, <2>4
<1> QED BY <1>2, <1>3

LEMMA Regroup ==
  ASSUME NEW d \in Seq(Nat), NEW b \in Seq(Nat), NEW e \in Seq(Nat)
  PROVE  (d \o b) \o e = d \o (b \o e)
BY ConcatAssociative

(* What a write adds to the buffer it adds to what was accepted. *)
LEMMA InsertHolds ==
  ASSUME StreamInv, NEW count \in Nat, NEW d \in Seq(Nat), NEW b \in Seq(Nat),
         Embeds(accepted, d \o b), Insert(b, count)
  PROVE  Embeds(accepted', d \o buffer')
<1>1. Data(count) \in Seq(Nat) /\ accepted \in Seq(Nat)
  BY DataBytes DEF StreamInv, TypeOK, Bytes
<1>2. d \o b \in Seq(Nat)
  BY ConcatProperties
<1>3. Embeds(accepted \o Data(count), (d \o b) \o Data(count))
  BY <1>1, <1>2, EmbedsAppended
<1>4. (d \o b) \o Data(count) = d \o (b \o Data(count))
  BY <1>1, Regroup, Zenon
<1> QED BY <1>3, <1>4 DEF Insert

LEMMA WriteHolds ==
  ASSUME StreamInv, FileHolds, NEW count \in Nat, Write(count), file' = file
  PROVE  FileHolds'
<1> SUFFICES ASSUME file = "open"
             PROVE  Embeds(accepted', disk' \o buffer')
  BY DEF FileHolds
<1>1. disk \in Seq(Nat) /\ buffer \in Seq(Nat) /\ Embeds(accepted, disk \o buffer)
  BY DEF StreamInv, TypeOK, FileHolds
<1>2. CASE Insert(buffer, count) /\ UNCHANGED disk
  BY <1>1, <1>2, InsertHolds
<1>3. ASSUME NEW flush \in Flushes, disk' = flush.disk,
             \/ buffer' = flush.buffer /\ UNCHANGED accepted
             \/ Insert(flush.buffer, count)
      PROVE  Embeds(accepted', disk' \o buffer')
  <2>1. /\ Embeds(accepted, flush.disk \o flush.buffer)
        /\ flush.disk \in Seq(Nat) /\ flush.buffer \in Seq(Nat)
    BY FlushHolds
  <2>2. CASE buffer' = flush.buffer /\ UNCHANGED accepted
    BY <1>3, <2>1, <2>2
  <2>3. CASE Insert(flush.buffer, count)
    BY <1>3, <2>1, <2>3, InsertHolds
  <2> QED BY <1>3, <2>2, <2>3
<1> QED BY <1>2, <1>3 DEF Write

(* One step for each operation. *)
LEMMA HoldsStep == StreamInv /\ FileHolds /\ [Next]_vars => FileHolds'
<1> SUFFICES ASSUME StreamInv, FileHolds, [Next]_vars PROVE FileHolds'
  OBVIOUS
<1>1. CASE NewOnBuffer
  BY <1>1 DEF NewOnBuffer, StreamInv, TypeOK, FileHolds
<1>2. CASE NewMemory
  BY <1>2 DEF NewMemory, StreamInv, TypeOK, FileHolds
<1>3. CASE NewFile
  <2>1. file' = "open" => disk' = << >> /\ buffer' = << >> /\ accepted' = << >>
    BY <1>3 DEF NewFile, StreamInv, TypeOK
  <2>2. << >> \in Seq(Nat) /\ << >> \o << >> = << >>
    OBVIOUS
  <2>3. Embeds(<< >>, << >>)
    BY <2>2, EmptyEmbeds
  <2> QED BY <2>1, <2>2, <2>3 DEF FileHolds
<1>4. CASE WriteData
  BY <1>4, WriteHolds, StreamAssumption DEF WriteData
<1>5. CASE Flush
  BY <1>5, FlushHolds DEF Flush, FileHolds
<1>6. CASE Close
  <2>1. SUFFICES ASSUME file' = "open" PROVE FileHolds'
    BY DEF FileHolds
  <2>2. PICK flush \in Flushes :
          /\ buffer' = flush.buffer
          /\ IF file = "NULL"
             THEN UNCHANGED << file, disk, error, failures >>
             ELSE IF ErrorAfter(flush) # "Ok"
             THEN /\ disk' = flush.disk
                  /\ error' = ErrorAfter(flush)
                  /\ failures' = failures + flush.fails
                  /\ UNCHANGED file
             ELSE Fclose(flush.disk)
          /\ accepted' = accepted
    BY <1>6 DEF Close
  <2>3. file = "open" /\ disk' = flush.disk
    BY <2>1, <2>2 DEF Fclose
  <2> QED BY <2>2, <2>3, FlushHolds DEF FileHolds
<1>7. CASE ClientResetsError
  BY <1>7 DEF ClientResetsError, FileHolds
<1>8. CASE UNCHANGED vars
  BY <1>8 DEF vars, FileHolds
<1> QED
  BY <1>1, <1>2, <1>3, <1>4, <1>5, <1>6, <1>7, <1>8 DEF Next

(* A file that was closed without an error holds every byte accepted, in    *)
(* order, for every sequence of writes, flushes that failed half-way and    *)
(* repetitions of them; and nothing else, unless the file had failed.       *)
THEOREM StreamCloseDelivers == Spec => CloseDelivers
<1> DEFINE Delivers ==
      file = "open" /\ file' = "NULL" /\ error' = "Ok" =>
        /\ IsSubsequence(accepted, disk')
        /\ failures = 0 => disk' = accepted
<1>1. Init => FileHolds
  BY DEF Init, FileHolds
<1>2. ASSUME StreamInv, FileHolds, [Next]_vars,
             file = "open", file' = "NULL", error' = "Ok"
      PROVE  /\ IsSubsequence(accepted, disk')
             /\ failures = 0 => disk' = accepted
  <2> USE <1>2
  <2>1. created
    BY DEF StreamInv, TypeOK
  <2>2. Close
    BY <2>1 DEF Next, NewOnBuffer, NewMemory, NewFile, WriteData, Flush,
       ClientResetsError, vars
  <2>3. PICK flush \in Flushes : ErrorAfter(flush) = "Ok" /\ disk' = flush.disk
    BY <2>2 DEF Close, Fclose
  <2>4. flush.fails = 0
    BY <2>3 DEF ErrorAfter
  <2>5. /\ flush.buffer = << >> /\ flush.disk \in Seq(Bytes)
        /\ failures = 0 => (IF flush.disk = Old THEN << >> ELSE flush.disk)
                             \o flush.buffer = accepted
    BY <2>4, FlushOutcome
  <2>6. flush.disk \in Seq(Nat) /\ Embeds(accepted, flush.disk \o flush.buffer)
    BY FlushHolds
  <2>7. flush.disk \o << >> = flush.disk
    BY <2>6, ConcatEmptySeq
  <2>8. IsSubsequence(accepted, flush.disk)
    BY <2>5, <2>6, <2>7, EmbeddedIsSubsequence DEF StreamInv, TypeOK
  <2>9. flush.disk # Old
    BY <2>5, NotOld
  <2> QED BY <2>3, <2>5, <2>7, <2>8, <2>9
<1>3. StreamInv /\ FileHolds /\ [Next]_vars => [Delivers]_vars
  BY <1>2
<1> QED BY <1>1, <1>3, HoldsStep, StreamInvariant, PTL DEF Spec, CloseDelivers

-----------------------------------------------------------------------------
(* The emitter.                                                            *)

Groups == Seq(Seq(Nat) \ { << >> })

EmitterInv == StreamInv /\ EmitterTypeOK /\ AcceptedIsPrefix

LEMMA PiecesOfProgram ==
  ASSUME NEW program \in Programs
  PROVE  ProgramPieces(program) \in Groups /\ ProgramPieces(program) # << >>
<1> DEFINE constants == program.constants
           code == program.code
           fromConstants == [i \in 1 .. Len(constants) |-> ConstantPieces(constants[i])]
           fromCode == [i \in 1 .. Len(code) |-> InstructionPieces(code[i])]
<1>1. constants \in Seq([kind : Kinds, length : Nat]) /\ code \in Seq(Opcodes)
  BY EmitterAssumption
<1>2. \A i \in 1 .. Len(constants) :
        ConstantPieces(constants[i]) \in Seq(Nat) \ { << >> }
  <2>1. SUFFICES ASSUME NEW i \in 1 .. Len(constants)
                 PROVE  ConstantPieces(constants[i]) \in Seq(Nat) \ { << >> }
    OBVIOUS
  <2>2. constants[i] \in [kind : Kinds, length : Nat]
    BY <1>1, ElementOfSeq
  <2>3. constants[i].length \in Nat
    BY <2>2
  <2>4. /\ << 1, 2, constants[i].length >> \in Seq(Nat) \ { << >> }
        /\ << 1, 8 >> \in Seq(Nat) \ { << >> }
        /\ << 1, 4 >> \in Seq(Nat) \ { << >> }
        /\ << 1, 4, 2 >> \in Seq(Nat) \ { << >> }
    BY <2>3
  <2> QED BY <2>4 DEF ConstantPieces
<1>3. \A i \in 1 .. Len(code) : InstructionPieces(code[i]) \in Seq(Nat) \ { << >> }
  <2>1. /\ << 1, 3 >> \in Seq(Nat) \ { << >> }
        /\ << 1, 2, 1 >> \in Seq(Nat) \ { << >> }
        /\ << 1, 2, 2 >> \in Seq(Nat) \ { << >> }
        /\ << 1, 1, 2 >> \in Seq(Nat) \ { << >> }
        /\ << 1, 1, 1, 1 >> \in Seq(Nat) \ { << >> }
    OBVIOUS
  <2> QED BY <2>1 DEF InstructionPieces
<1>4. Len(constants) \in Nat /\ Len(code) \in Nat
  BY <1>1
<1>5. << HeaderPieces >> \in Groups
  BY DEF HeaderPieces, Groups
<1> HIDE DEF constants, code
<1>6. fromConstants \in Groups /\ fromCode \in Groups
  BY <1>2, <1>3, <1>4, IsASeq DEF Groups
<1>7. ProgramPieces(program) = << HeaderPieces >> \o fromConstants \o fromCode
  BY DEF ProgramPieces, constants, code
<1> HIDE DEF fromConstants, fromCode
<1>8. << HeaderPieces >> \o fromConstants \in Groups
        /\ Len(<< HeaderPieces >> \o fromConstants) >= 1
  BY <1>5, <1>6, ConcatProperties DEF Groups
<1>9. ProgramPieces(program) \in Groups /\ Len(ProgramPieces(program)) >= 1
  BY <1>6, <1>7, <1>8, ConcatProperties DEF Groups
<1> QED BY <1>9

(* The next piece is a size, and taking it leaves groups of pieces. *)
LEMMA PieceAndRest ==
  ASSUME pieces \in Groups, pieces # << >>
  PROVE  Piece \in Nat /\ Rest \in Groups
<1>1. Head(pieces) \in Seq(Nat) \ { << >> } /\ Tail(pieces) \in Groups
  BY HeadTailProperties DEF Groups
<1>2. Piece \in Nat /\ Tail(Head(pieces)) \in Seq(Nat)
        /\ Len(Tail(Head(pieces))) = Len(Head(pieces)) - 1
  BY <1>1, HeadTailProperties DEF Piece
<1>3. CASE Len(Head(pieces)) = 1
  BY <1>1, <1>2, <1>3 DEF Rest
<1>4. CASE Len(Head(pieces)) # 1
  <2>1. Tail(Head(pieces)) # << >>
    <3>1. Len(Head(pieces)) # 0 /\ Len(Head(pieces)) \in Nat
      BY <1>1, EmptySeq
    <3>2. Len(Tail(Head(pieces))) # 0
      BY <1>2, <1>4, <3>1
    <3> QED BY <3>2, EmptySeq
  <2>2. << Tail(Head(pieces)) >> \in Groups
    BY <1>2, <2>1 DEF Groups
  <2>3. << Tail(Head(pieces)) >> \o Tail(pieces) \in Groups
    BY <1>1, <2>2, ConcatProperties DEF Groups
  <2> QED BY <1>2, <1>4, <2>3 DEF Rest
<1> QED BY <1>3, <1>4

(* A write either takes all its bytes, at the end, or none and says so. *)
LEMMA WriteTakesAllOrNone ==
  ASSUME StreamInv, NEW count \in Nat, error = "Ok", Write(count)
  PROVE  IF error' = "Ok" THEN accepted' = accepted \o Data(count)
         ELSE accepted' = accepted
BY DEF Write, Insert

(* The bytes of a piece follow those of the pieces before it. *)
LEMMA PieceExtends ==
  ASSUME EmitterInv, NEW count \in Nat, emission = "going_on",
         accepted' = accepted \o Data(count), offered' = offered + count,
         base' = base, from' = from
  PROVE  /\ \A i \in 1 .. Taken' : accepted'[from' + i] = base' + i
         /\ base' + Taken' = offered'
         /\ from' \in 0 .. Len(accepted')
<1>1. /\ accepted \in Seq(Nat) /\ offered \in Nat
      /\ base \in 0 .. offered /\ from \in 0 .. Len(accepted)
  BY DEF EmitterInv, EmitterTypeOK, StreamInv, TypeOK
<1>2. \A i \in 1 .. Len(accepted) - from : accepted[from + i] = base + i
  BY DEF EmitterInv, AcceptedIsPrefix, Taken
<1>3. base + (Len(accepted) - from) = offered
  BY DEF EmitterInv, AcceptedIsPrefix, Taken
<1>4. base \in Nat /\ Len(accepted) \in Nat
  BY <1>1, EmptySeq
<1>5. Data(count) \in Seq(Nat) /\ Len(Data(count)) = count
  BY <1>1, DataBytes DEF Bytes
<1>6. \A k \in 1 .. count : Data(count)[k] = offered + k
  BY DEF Data
<1>7. Len(accepted') = Len(accepted) + count
  BY <1>1, <1>5, ConcatProperties
<1>8. \A j \in 1 .. Len(accepted) + count :
        accepted'[j] = IF j <= Len(accepted) THEN accepted[j]
                       ELSE Data(count)[j - Len(accepted)]
  BY <1>1, <1>5, ConcatProperties
<1>9. from \in 0 .. Len(accepted) /\ offered \in Nat
  BY <1>1
<1>10. ASSUME NEW i \in 1 .. Len(accepted') - from
       PROVE  accepted'[from + i] = base + i
  <2>1. i \in 1 .. (Len(accepted) + count) - from
    BY <1>7
  <2>2. from + i \in 1 .. Len(accepted) + count
    BY <1>4, <1>9, <2>1
  <2>3. CASE from + i <= Len(accepted)
    <3>1. i \in 1 .. Len(accepted) - from
      BY <1>4, <1>9, <2>1, <2>3
    <3>2. accepted'[from + i] = accepted[from + i]
      BY <1>8, <2>2, <2>3
    <3> QED BY <1>2, <3>1, <3>2
  <2>4. CASE from + i > Len(accepted)
    <3>1. (from + i) - Len(accepted) \in 1 .. count
      BY <1>4, <1>9, <2>2, <2>4
    <3>2. accepted'[from + i] = offered + ((from + i) - Len(accepted))
      BY <1>4, <1>6, <1>8, <1>9, <2>2, <2>4, <3>1
    <3>3. \A n \in Nat : base + (n - from) = offered =>
                          offered + ((from + i) - n) = base + i
      BY <1>4, <1>9, <2>1
    <3> QED BY <1>3, <1>4, <3>2, <3>3
  <2> QED BY <1>4, <1>9, <2>1, <2>3, <2>4
<1>11. base + (Len(accepted') - from) = offered + count
  <2>1. \A n \in Nat : base + (n - from) = offered =>
                        base + ((n + count) - from) = offered + count
    BY <1>4, <1>9
  <2> QED BY <1>3, <1>4, <1>7, <2>1
<1>12. from \in 0 .. Len(accepted')
  BY <1>4, <1>7, <1>9
<1> QED BY <1>10, <1>11, <1>12 DEF Taken

LEMMA InvAtFirst == EmitterInit => EmitterInv
<1> SUFFICES ASSUME EmitterInit PROVE EmitterInv
  OBVIOUS
<1>1. StreamInv
  BY StreamInit DEF EmitterInit
<1>2. EmitterTypeOK
  BY <1>1 DEF EmitterInit, Init, EmitterTypeOK, StreamInv
<1> QED BY <1>1, <1>2 DEF EmitterInit, EmitterInv, AcceptedIsPrefix

(* One step for each action. *)
LEMMA InvStep == EmitterInv /\ [EmitterNext]_emitter_vars => EmitterInv'
<1> SUFFICES ASSUME EmitterInv, [EmitterNext]_emitter_vars PROVE EmitterInv'
  OBVIOUS
<1>1. /\ StreamInv /\ TypeOK /\ pieces \in Groups
      /\ accepted \in Seq(Nat) /\ offered \in Nat /\ Len(accepted) \in Nat
  BY EmptySeq DEF EmitterInv, EmitterTypeOK, StreamInv, TypeOK, Groups
<1>2. CASE Begin
  <2>1. PICK program \in Programs :
          /\ created /\ pieces = << >>
          /\ error' = "Ok"
          /\ pieces' = ProgramPieces(program)
          /\ emission' = "going_on"
          /\ base' = offered /\ from' = Len(accepted)
          /\ UNCHANGED << created, size, buffer, file, disk, offered, accepted,
                          failures >>
    BY <1>2 DEF Begin
  <2>2. StreamInv'
    BY <1>1, <2>1 DEF StreamInv, TypeOK, Errors, BufferInBounds,
       ExactUntilFailure, Written, BytesAreNew
  <2>3. pieces' \in Groups /\ pieces' # << >>
    BY <2>1, PiecesOfProgram
  <2>4. EmitterTypeOK'
    BY <1>1, <2>1, <2>2, <2>3 DEF EmitterTypeOK, StreamInv, Groups
  <2>5. AcceptedIsPrefix'
    BY <1>1, <2>1 DEF AcceptedIsPrefix, Taken
  <2> QED BY <2>2, <2>4, <2>5 DEF EmitterInv
<1>3. CASE EmitPiece
  <2>1. /\ pieces # << >> /\ Write(Piece) /\ offered' = offered + Piece
        /\ \/ error' # "Ok" /\ pieces' = << >> /\ emission' = "refused"
           \/ /\ error' = "Ok" /\ pieces' = Rest
              /\ emission' = IF Rest = << >> THEN "emitted" ELSE "going_on"
        /\ UNCHANGED << created, size, file, base, from >>
    BY <1>3 DEF EmitPiece
  <2>2. created /\ error = "Ok" /\ emission = "going_on"
    BY <2>1 DEF EmitterInv, EmitterTypeOK
  <2>3. Piece \in Nat /\ Rest \in Groups
    BY <1>1, <2>1, PieceAndRest
  <2>4. StreamInv'
    BY <1>1, <2>1, <2>2, <2>3, WriteKeeps
  <2>5. /\ IF error' = "Ok" THEN accepted' = accepted \o Data(Piece)
           ELSE accepted' = accepted
    BY <1>1, <2>1, <2>2, <2>3, WriteTakesAllOrNone
  <2>6. CASE error' = "Ok"
    <3>1. /\ \A i \in 1 .. Taken' : accepted'[from' + i] = base' + i
          /\ base' + Taken' = offered'
          /\ from' \in 0 .. Len(accepted')
      BY <2>1, <2>2, <2>3, <2>5, <2>6, PieceExtends
    <3>2. base' \in 0 .. offered'
      BY <1>1, <2>1, <2>3 DEF EmitterInv, EmitterTypeOK
    <3>3. EmitterTypeOK'
      BY <2>1, <2>2, <2>3, <2>4, <2>6, <3>1, <3>2
         DEF EmitterTypeOK, StreamInv, Groups
    <3> QED BY <2>4, <3>1, <3>3 DEF EmitterInv, AcceptedIsPrefix
  <2>7. CASE error' # "Ok"
    <3>1. /\ accepted' = accepted /\ emission' = "refused" /\ pieces' = << >>
          /\ UNCHANGED << base, from >>
      BY <2>1, <2>5, <2>7
    <3>2. base' \in 0 .. offered' /\ from' \in 0 .. Len(accepted')
      BY <1>1, <2>1, <2>3, <3>1 DEF EmitterInv, EmitterTypeOK
    <3>3. EmitterTypeOK'
      BY <2>4, <3>1, <3>2 DEF EmitterTypeOK, StreamInv
    <3>4. AcceptedIsPrefix'
      BY <2>2, <3>1 DEF EmitterInv, AcceptedIsPrefix, Taken
    <3> QED BY <2>4, <3>3, <3>4 DEF EmitterInv
  <2> QED BY <2>6, <2>7
<1>4. CASE Client
  <2>1. /\ pieces = << >> /\ UNCHANGED emission_vars
        /\ NewOnBuffer \/ NewMemory \/ NewFile \/ Flush \/ Close \/ ClientResetsError
    BY <1>4 DEF Client
  <2>2. StreamInv'
    BY <1>1, <2>1, StreamStep DEF Next
  <2>3. UNCHANGED << accepted, offered >>
    BY <2>1 DEF NewOnBuffer, NewMemory, NewFile, Flush, Close, ClientResetsError
  <2>4. EmitterTypeOK'
    BY <2>1, <2>2, <2>3 DEF EmitterInv, EmitterTypeOK, StreamInv, emission_vars
  <2>5. AcceptedIsPrefix'
    BY <2>1, <2>3 DEF EmitterInv, AcceptedIsPrefix, Taken, emission_vars
  <2> QED BY <2>2, <2>4, <2>5 DEF EmitterInv
<1>5. CASE OwnWrite
  <2>1. emission = "none" /\ UNCHANGED emission_vars
    BY <1>5 DEF OwnWrite
  <2>2. StreamInv'
    BY <1>1, <1>5, StreamStep DEF OwnWrite, Next
  <2>3. PICK count \in Lengths : Write(count) /\ offered' = offered + count
    BY <1>5 DEF OwnWrite, WriteData
  <2>4. count \in Nat /\ offered' \in Nat /\ offered <= offered'
    BY <1>1, <2>3, StreamAssumption
  <2>5. Len(accepted') \in Nat /\ Len(accepted) <= Len(accepted')
    <3>1. Data(count) \in Seq(Nat) /\ Len(Data(count)) = count
      BY <1>1, <2>4, DataBytes DEF Bytes
    <3>2. accepted' = accepted \/ accepted' = accepted \o Data(count)
      BY <2>3 DEF Write, Insert
    <3> QED BY <1>1, <2>4, <3>1, <3>2, ConcatProperties
  <2>6. base' \in 0 .. offered' /\ from' \in 0 .. Len(accepted')
    BY <1>1, <2>1, <2>4, <2>5 DEF EmitterInv, EmitterTypeOK, emission_vars
  <2>7. EmitterTypeOK'
    BY <2>1, <2>2, <2>6 DEF EmitterInv, EmitterTypeOK, StreamInv, emission_vars
  <2>8. AcceptedIsPrefix'
    BY <2>1 DEF AcceptedIsPrefix, emission_vars
  <2> QED BY <2>2, <2>7, <2>8 DEF EmitterInv
<1>6. CASE UNCHANGED emitter_vars
  <2>1. UNCHANGED vars /\ UNCHANGED emission_vars
    BY <1>6 DEF emitter_vars
  <2>2. StreamInv'
    BY <1>1, <2>1, StreamStep
  <2> QED BY <2>1, <2>2 DEF EmitterInv, EmitterTypeOK, AcceptedIsPrefix, Taken,
                            vars, emission_vars, StreamInv
<1> QED BY <1>2, <1>3, <1>4, <1>5, <1>6 DEF EmitterNext

LEMMA EmitterInvariant == EmitterSpec => []EmitterInv
BY InvAtFirst, InvStep, PTL DEF EmitterSpec

(* While a program is written there is no error, whatever came before, so   *)
(* no piece is refused for the error of an earlier one.                     *)
THEOREM EmitterIsTyped == EmitterSpec => []EmitterTypeOK
<1>1. EmitterInv => EmitterTypeOK
  BY DEF EmitterInv
<1> QED BY <1>1, EmitterInvariant, PTL

(* For every program, buffer and failing file, what the stream has accepted *)
(* of a program is its beginning without a gap, and all of it unless the    *)
(* emission was refused.                                                    *)
THEOREM EmitterAcceptsPrefix == EmitterSpec => []AcceptedIsPrefix
<1>1. EmitterInv => AcceptedIsPrefix
  BY DEF EmitterInv
<1> QED BY <1>1, EmitterInvariant, PTL

(* The stream under the emitter is the stream of OutputStream: it stays in  *)
(* its buffer, and while the file works it holds what it accepted.          *)
THEOREM EmittedStreamIsExact == EmitterSpec => []BufferInBounds /\ []ExactUntilFailure
<1>1. EmitterInv => BufferInBounds /\ ExactUntilFailure
  BY DEF EmitterInv, StreamInv
<1> QED BY <1>1, EmitterInvariant, PTL

-----------------------------------------------------------------------------
(* Totals.                                                                 *)

(* h holds the totals of the first sizes: of none of them, of one, ...      *)
Accumulates(h, s, n) ==
  /\ h \in [0 .. n -> Nat]
  /\ h[0] = 0
  /\ \A i \in 1 .. n : h[i] = h[i - 1] + s[i]

IsSum(g, s, n) ==
  g = [ i \in 0 .. n |-> IF i = 0 THEN 0 ELSE g[i - 1] + s[i] ]

LEMMA AccumulatorExists ==
  ASSUME NEW s \in Seq(Nat)
  PROVE  \E h : Accumulates(h, s, Len(s))
<1> DEFINE n == Len(s)
           S == { k \in 0 .. n : \E h : Accumulates(h, s, k) }
<1>1. n \in Nat /\ \A i \in 1 .. n : s[i] \in Nat
  OBVIOUS
<1> HIDE DEF n
<1>2. 0 \in S
  <2>1. Accumulates([ i \in 0 .. 0 |-> 0 ], s, 0)
    BY DEF Accumulates
  <2> QED BY <1>1, <2>1
<1>3. ASSUME NEW k \in 0 .. n - 1, k \in S PROVE k + 1 \in S
  <2>1. PICK g : Accumulates(g, s, k)
    BY <1>3
  <2> DEFINE h == [ i \in 0 .. k + 1 |-> IF i <= k THEN g[i] ELSE g[k] + s[k + 1] ]
  <2>2. Accumulates(h, s, k + 1)
    <3>1. k + 1 \in 1 .. n /\ s[k + 1] \in Nat /\ k \in Nat
      BY <1>1
    <3>2. h \in [0 .. k + 1 -> Nat]
      BY <2>1, <3>1 DEF Accumulates
    <3>3. h[0] = 0
      BY <2>1, <3>1 DEF Accumulates
    <3>4. ASSUME NEW i \in 1 .. k + 1 PROVE h[i] = h[i - 1] + s[i]
      <4>1. CASE i <= k
        BY <2>1, <3>1, <4>1 DEF Accumulates
      <4>2. CASE i = k + 1
        BY <3>1, <4>2
      <4> QED BY <3>1, <4>1, <4>2
    <3> HIDE DEF h
    <3> QED BY <3>2, <3>3, <3>4 DEF Accumulates
  <2> HIDE DEF h
  <2> QED BY <1>1, <2>2
<1>4. n \in S
  <2> HIDE DEF S
  <2> QED BY <1>1, <1>2, <1>3, Induction, n \in 0 .. n
<1> QED BY <1>4 DEF n

LEMMA AccumulatorUnique ==
  ASSUME NEW s, NEW n \in Nat, NEW g, NEW h,
         Accumulates(g, s, n), Accumulates(h, s, n)
  PROVE  g = h
<1> DEFINE S == { k \in 0 .. n : g[k] = h[k] }
<1>1. 0 \in S
  BY DEF Accumulates
<1>2. ASSUME NEW k \in 0 .. n - 1, k \in S PROVE k + 1 \in S
  BY <1>2, k + 1 \in 1 .. n, (k + 1) - 1 = k DEF Accumulates
<1>3. \A k \in 0 .. n : k \in S
  <2> HIDE DEF S
  <2> QED BY <1>1, <1>2, Induction
<1> QED BY <1>3 DEF Accumulates

(* The recursive function of Total accumulates. *)
LEMMA TotalAccumulates ==
  ASSUME NEW s \in Seq(Nat), NEW h, Accumulates(h, s, Len(s))
  PROVE  Total(s) = h[Len(s)]
<1> DEFINE n == Len(s)
           g == CHOOSE f : IsSum(f, s, n)
<1>1. n \in Nat /\ \A i \in 1 .. n : s[i] \in Nat
  OBVIOUS
<1>2. Total(s) = g[n]
  BY DEF Total, IsSum
<1> HIDE DEF n
<1>3. IsSum(h, s, n)
  <2>1. \A i \in 0 .. n : h[i] = IF i = 0 THEN 0 ELSE h[i - 1] + s[i]
    BY <1>1 DEF Accumulates, n
  <2>2. h = [ i \in 0 .. n |-> h[i] ]
    BY DEF Accumulates, n
  <2> QED BY <2>1, <2>2 DEF IsSum
<1>4. IsSum(g, s, n)
  BY <1>3
<1> HIDE DEF g
<1>5. /\ DOMAIN g = 0 .. n
      /\ \A i \in 0 .. n : g[i] = IF i = 0 THEN 0 ELSE g[i - 1] + s[i]
  BY <1>4 DEF IsSum
<1> DEFINE S == { k \in 0 .. n : g[k] = h[k] }
<1>6. 0 \in S
  BY <1>1, <1>5 DEF Accumulates
<1>7. ASSUME NEW k \in 0 .. n - 1, k \in S PROVE k + 1 \in S
  BY <1>1, <1>5, <1>7, k + 1 \in 1 .. n, k + 1 \in 0 .. n, (k + 1) - 1 = k DEF Accumulates, n
<1>8. n \in S
  <2> HIDE DEF S
  <2> QED BY <1>1, <1>6, <1>7, Induction, n \in 0 .. n
<1> QED BY <1>2, <1>8 DEF n

LEMMA TotalOf ==
  ASSUME NEW s \in Seq(Nat)
  PROVE  /\ Total(s) \in Nat
         /\ \E h : Accumulates(h, s, Len(s)) /\ Total(s) = h[Len(s)]
<1>1. PICK h : Accumulates(h, s, Len(s))
  BY AccumulatorExists
<1>2. Total(s) = h[Len(s)]
  BY <1>1, TotalAccumulates
<1>3. Len(s) \in 0 .. Len(s)
  OBVIOUS
<1> QED BY <1>1, <1>2, <1>3 DEF Accumulates

LEMMA TotalEmpty == Total(<< >>) = 0
<1>1. Accumulates([ i \in 0 .. 0 |-> 0 ], << >>, 0)
  BY DEF Accumulates
<1>2. << >> \in Seq(Nat) /\ Len(<< >>) = 0
  OBVIOUS
<1> QED BY <1>1, <1>2, TotalAccumulates

LEMMA TotalConcat ==
  ASSUME NEW s \in Seq(Nat), NEW t \in Seq(Nat)
  PROVE  Total(s \o t) = Total(s) + Total(t)
<1> DEFINE m == Len(s)
           n == Len(t)
           u == s \o t
<1>1. /\ m \in Nat /\ n \in Nat /\ u \in Seq(Nat) /\ Len(u) = m + n
      /\ \A i \in 1 .. m : u[i] = s[i] /\ s[i] \in Nat
      /\ \A i \in m + 1 .. m + n : u[i] = t[i - m]
      /\ \A i \in 1 .. n : t[i] \in Nat
  OBVIOUS
<1>2. PICK g : Accumulates(g, s, m) /\ Total(s) = g[m]
  BY TotalOf
<1>3. PICK h : Accumulates(h, t, n) /\ Total(t) = h[n]
  BY TotalOf
<1> HIDE DEF m, n, u
<1> DEFINE f == [ i \in 0 .. m + n |-> IF i <= m THEN g[i] ELSE g[m] + h[i - m] ]
<1>4. /\ \A i \in 0 .. m : g[i] \in Nat
      /\ \A i \in 0 .. n : h[i] \in Nat
      /\ g[0] = 0 /\ h[0] = 0
      /\ \A i \in 1 .. m : g[i] = g[i - 1] + s[i]
      /\ \A i \in 1 .. n : h[i] = h[i - 1] + t[i]
  BY <1>2, <1>3 DEF Accumulates
<1>5. f \in [0 .. m + n -> Nat]
  <2>1. ASSUME NEW i \in 0 .. m + n PROVE f[i] \in Nat
    <3>1. CASE i <= m
      BY <1>1, <1>4, <3>1
    <3>2. CASE ~(i <= m)
      <4>1. i - m \in 0 .. n /\ m \in 0 .. m
        BY <1>1, <3>2
      <4>2. h[i - m] \in Nat /\ g[m] \in Nat
        BY <1>4, <4>1
      <4> QED BY <3>2, <4>2
    <3> QED BY <3>1, <3>2
  <2> QED BY <2>1
<1>6. f[0] = 0 /\ f[m + n] = g[m] + h[n]
  <2>1. CASE n = 0
    BY <1>1, <1>4, <2>1
  <2>2. CASE n # 0
    BY <1>1, <1>4, <2>2
  <2> QED BY <2>1, <2>2
<1>7. ASSUME NEW i \in 1 .. m + n PROVE f[i] = f[i - 1] + u[i]
  <2>1. CASE i <= m
    BY <1>1, <1>4, <2>1
  <2>2. CASE i = m + 1
    <3>1. 1 \in 1 .. n /\ i - 1 = m /\ i - m = 1 /\ ~(i <= m)
      BY <1>1, <2>2
    <3>2. f[i] = g[m] + h[1] /\ f[i - 1] = g[m]
      BY <1>1, <2>2, <3>1
    <3>3. u[i] = t[1] /\ t[1] \in Nat
      <4>1. i \in m + 1 .. m + n
        BY <1>1, <2>2
      <4>2. u[i] = t[i - m]
        BY <1>1, <4>1
      <4> QED BY <1>1, <3>1, <4>2
    <3>4. h[1] = h[1 - 1] + t[1]
      BY <1>4, <3>1
    <3> HIDE DEF f
    <3> QED BY <1>4, <3>2, <3>3, <3>4
  <2>3. CASE i > m + 1
    <3> DEFINE j == i - m
    <3>1. j \in 1 .. n /\ j - 1 \in 0 .. n /\ i = m + j /\ (i - 1) - m = j - 1
      BY <1>1, <2>3
    <3>2. f[i] = g[m] + h[j] /\ f[i - 1] = g[m] + h[j - 1]
      BY <1>1, <2>3, <3>1
    <3>3. u[i] = t[j] /\ t[j] \in Nat
      <4>1. i \in m + 1 .. m + n
        BY <1>1, <2>3
      <4>2. u[i] = t[i - m]
        BY <1>1, <4>1
      <4> QED BY <1>1, <3>1, <4>2
    <3>4. h[j] = h[j - 1] + t[j] /\ h[j - 1] \in Nat /\ g[m] \in Nat
      BY <1>1, <1>4, <3>1
    <3> HIDE DEF j, f
    <3> QED BY <3>2, <3>3, <3>4
  <2> QED BY <1>1, <2>1, <2>2, <2>3
<1> HIDE DEF f
<1>8. Accumulates(f, u, m + n)
  BY <1>5, <1>6, <1>7 DEF Accumulates
<1>9. Total(u) = f[m + n]
  BY <1>1, <1>8, TotalAccumulates
<1> QED BY <1>2, <1>3, <1>6, <1>9 DEF u

LEMMA TotalSingle ==
  ASSUME NEW k \in Nat
  PROVE  Total(<< k >>) = k
<1>1. Accumulates([ i \in 0 .. 1 |-> IF i = 0 THEN 0 ELSE k ], << k >>, 1)
  BY DEF Accumulates
<1>2. << k >> \in Seq(Nat) /\ Len(<< k >>) = 1
  OBVIOUS
<1> QED BY <1>1, <1>2, TotalAccumulates

(* A first size and the others. *)
LEMMA TotalTail ==
  ASSUME NEW s \in Seq(Nat), s # << >>
  PROVE  Total(s) = Head(s) + Total(Tail(s))
<1>1. /\ Head(s) \in Nat /\ Tail(s) \in Seq(Nat)
      /\ << Head(s) >> \in Seq(Nat)
      /\ s = << Head(s) >> \o Tail(s)
  OBVIOUS
<1> QED BY <1>1, TotalConcat, TotalSingle

(* Two sizes, three, and more. *)
LEMMA TotalTwo ==
  ASSUME NEW k \in Nat, NEW m \in Nat
  PROVE  << k, m >> \in Seq(Nat) \ { << >> } /\ Total(<< k, m >>) = k + m
<1> DEFINE s == << k, m >>
           t == << m >>
<1>1. s \in Seq(Nat) \ { << >> } /\ Head(s) = k /\ Tail(s) = t
  OBVIOUS
<1>2. Total(t) = m
  BY TotalSingle
<1> HIDE DEF s, t
<1>3. Total(s) = k + Total(t)
  BY <1>1, TotalTail, Zenon
<1>4. Total(s) = k + m
  BY <1>2, <1>3
<1> QED BY <1>1, <1>4 DEF s

LEMMA TotalThree ==
  ASSUME NEW k \in Nat, NEW m \in Nat, NEW n \in Nat
  PROVE  << k, m, n >> \in Seq(Nat) \ { << >> } /\ Total(<< k, m, n >>) = k + m + n
<1> DEFINE s == << k, m, n >>
           t == << m, n >>
<1>1. s \in Seq(Nat) \ { << >> } /\ Head(s) = k /\ Tail(s) = t
  OBVIOUS
<1>2. Total(t) = m + n
  BY TotalTwo
<1> HIDE DEF s, t
<1>3. Total(s) = k + Total(t)
  BY <1>1, TotalTail, Zenon
<1>4. Total(s) = k + m + n
  BY <1>2, <1>3
<1> QED BY <1>1, <1>4 DEF s

LEMMA TotalFour ==
  ASSUME NEW k \in Nat, NEW m \in Nat, NEW n \in Nat, NEW o \in Nat
  PROVE  << k, m, n, o >> \in Seq(Nat) \ { << >> } /\ Total(<< k, m, n, o >>) = k + m + n + o
<1> DEFINE s == << k, m, n, o >>
           t == << m, n, o >>
<1>1. s \in Seq(Nat) \ { << >> } /\ Head(s) = k /\ Tail(s) = t
  OBVIOUS
<1>2. Total(t) = m + n + o
  BY TotalThree
<1> HIDE DEF s, t
<1>3. Total(s) = k + Total(t)
  BY <1>1, TotalTail, Zenon
<1>4. Total(s) = k + m + n + o
  BY <1>2, <1>3
<1> QED BY <1>1, <1>4 DEF s

(* Sizes that are sums of sizes. *)
LEMMA TotalPlus ==
  ASSUME NEW n \in Nat, NEW s \in [1 .. n -> Nat], NEW t \in [1 .. n -> Nat]
  PROVE  Total([ i \in 1 .. n |-> s[i] + t[i] ]) = Total(s) + Total(t)
<1> DEFINE u == [ i \in 1 .. n |-> s[i] + t[i] ]
<1>1. /\ s \in Seq(Nat) /\ t \in Seq(Nat) /\ u \in Seq(Nat)
      /\ Len(s) = n /\ Len(t) = n /\ Len(u) = n
  OBVIOUS
<1>2. PICK g : Accumulates(g, s, n) /\ Total(s) = g[n]
  BY <1>1, TotalOf
<1>3. PICK h : Accumulates(h, t, n) /\ Total(t) = h[n]
  BY <1>1, TotalOf
<1> DEFINE f == [ i \in 0 .. n |-> g[i] + h[i] ]
<1>4. f \in [0 .. n -> Nat] /\ f[0] = 0 /\ f[n] = g[n] + h[n]
  BY <1>2, <1>3 DEF Accumulates
<1>5. ASSUME NEW i \in 1 .. n PROVE f[i] = f[i - 1] + u[i]
  <2>1. /\ i - 1 \in 0 .. n /\ i \in 0 .. n
        /\ g[i - 1] \in Nat /\ h[i - 1] \in Nat /\ s[i] \in Nat /\ t[i] \in Nat
    BY <1>2, <1>3 DEF Accumulates
  <2>2. g[i] = g[i - 1] + s[i] /\ h[i] = h[i - 1] + t[i]
    BY <1>2, <1>3 DEF Accumulates
  <2>3. f[i] = g[i] + h[i] /\ f[i - 1] = g[i - 1] + h[i - 1] /\ u[i] = s[i] + t[i]
    BY <2>1
  <2> HIDE DEF f
  <2> QED BY <2>1, <2>2, <2>3
<1> HIDE DEF f, u
<1>6. Accumulates(f, u, n)
  BY <1>4, <1>5 DEF Accumulates
<1>7. Total(u) = f[n]
  BY <1>1, <1>6, TotalAccumulates
<1> QED BY <1>2, <1>3, <1>4, <1>7 DEF u

(* n times one, and n times four. *)
LEMMA TotalOnes ==
  ASSUME NEW n \in Nat
  PROVE  Total([ i \in 1 .. n |-> 1 ]) = n /\ Total([ i \in 1 .. n |-> 4 ]) = 4 * n
<1> DEFINE ones == [ i \in 1 .. n |-> 1 ]
           fours == [ i \in 1 .. n |-> 4 ]
           f == [ i \in 0 .. n |-> i ]
           g == [ i \in 0 .. n |-> 4 * i ]
<1>1. Accumulates(f, ones, n)
  BY DEF Accumulates
<1>2. Accumulates(g, fours, n)
  <2>1. \A i \in 1 .. n : 4 * i = 4 * (i - 1) + 4
    OBVIOUS
  <2> QED BY <2>1 DEF Accumulates
<1>3. /\ ones \in Seq(Nat) /\ Len(ones) = n
      /\ fours \in Seq(Nat) /\ Len(fours) = n
  OBVIOUS
<1>4. f[n] = n /\ g[n] = 4 * n
  OBVIOUS
<1> HIDE DEF ones, fours, f, g
<1>5. Total(ones) = f[n] /\ Total(fours) = g[n]
  BY <1>1, <1>2, <1>3, TotalAccumulates
<1> QED BY <1>4, <1>5 DEF ones, fours

-----------------------------------------------------------------------------
(* Totals of sequences of sizes. *)
Totals(groups) == [ i \in 1 .. Len(groups) |-> Total(groups[i]) ]

LEMMA TotalsAreSizes ==
  ASSUME NEW a \in Groups
  PROVE  Totals(a) \in Seq(Nat) /\ Len(Totals(a)) = Len(a)
<1>1. Len(a) \in Nat /\ \A i \in 1 .. Len(a) : a[i] \in Seq(Nat)
  BY DEF Groups
<1> QED BY <1>1, TotalOf DEF Totals

LEMMA GroupTotalConcat ==
  ASSUME NEW a \in Groups, NEW b \in Groups
  PROVE  GroupTotal(a \o b) = GroupTotal(a) + GroupTotal(b)
<1>1. /\ Len(a) \in Nat /\ Len(b) \in Nat
      /\ Len(a \o b) = Len(a) + Len(b)
      /\ \A i \in 1 .. Len(a) + Len(b) :
            (a \o b)[i] = IF i <= Len(a) THEN a[i] ELSE b[i - Len(a)]
  BY DEF Groups
<1>2. /\ Totals(a) \in Seq(Nat) /\ Len(Totals(a)) = Len(a)
      /\ Totals(b) \in Seq(Nat) /\ Len(Totals(b)) = Len(b)
  BY TotalsAreSizes
<1>3. Totals(a) \o Totals(b) = Totals(a \o b)
  <2> DEFINE p == Totals(a)
             q == Totals(b)
             u == p \o q
  <2> HIDE DEF p, q
  <2>1. /\ u = [ i \in 1 .. Len(a) + Len(b) |-> u[i] ]
        /\ \A i \in 1 .. Len(a) + Len(b) :
              u[i] = IF i <= Len(a) THEN p[i] ELSE q[i - Len(a)]
    <3>1. /\ p \in Seq(Nat) /\ Len(p) = Len(a) /\ q \in Seq(Nat) /\ Len(q) = Len(b)
      BY <1>2 DEF p, q
    <3>2. u \in Seq(Nat) /\ Len(u) = Len(p) + Len(q)
      BY <3>1, ConcatProperties
    <3>3. \A i \in 1 .. Len(p) + Len(q) :
            u[i] = IF i <= Len(p) THEN p[i] ELSE q[i - Len(p)]
      BY <3>1, ConcatProperties
    <3> HIDE DEF u
    <3>4. u = [ i \in 1 .. Len(u) |-> u[i] ]
      BY <3>2
    <3> QED BY <3>1, <3>2, <3>3, <3>4
  <2>2. ASSUME NEW i \in 1 .. Len(a) + Len(b)
        PROVE  u[i] = Total((a \o b)[i])
    <3>1. CASE i <= Len(a)
      BY <1>1, <2>1, <3>1 DEF Totals, p
    <3>2. CASE ~(i <= Len(a))
      <4>1. i - Len(a) \in 1 .. Len(b)
        BY <1>1, <3>2
      <4> QED BY <1>1, <2>1, <3>2, <4>1 DEF Totals, q
    <3> QED BY <3>1, <3>2
  <2> HIDE DEF u
  <2>3. u = Totals(a \o b)
    BY <1>1, <2>1, <2>2 DEF Totals
  <2> QED BY <2>3 DEF u, p, q
<1>4. Total(Totals(a) \o Totals(b)) = Total(Totals(a)) + Total(Totals(b))
  BY <1>2, TotalConcat
<1> QED BY <1>3, <1>4 DEF GroupTotal, Totals

LEMMA GroupTotalSingle ==
  ASSUME NEW s \in Seq(Nat), s # << >>
  PROVE  GroupTotal(<< s >>) = Total(s)
<1>1. [ i \in 1 .. Len(<< s >>) |-> Total(<< s >>[i]) ] = << Total(s) >>
  OBVIOUS
<1>2. Total(s) \in Nat
  BY TotalOf
<1> QED BY <1>1, <1>2, TotalSingle DEF GroupTotal

-----------------------------------------------------------------------------
(* What is written of a program, and what its header says.                 *)

LEMMA ConstantTotal ==
  ASSUME NEW constant \in [kind : Kinds, length : Nat]
  PROVE  /\ ConstantPieces(constant) \in Seq(Nat) \ { << >> }
         /\ ConstantSize(constant) \in Nat
         /\ Total(ConstantPieces(constant)) =
              1 + ConstantSize(constant)
                + (IF constant.kind \in { "string", "character" }
                   THEN 2 + constant.length ELSE 0)
<1>1. /\ constant.kind \in Kinds
      /\ constant.length \in Nat
  OBVIOUS
<1>2. PICK one \in Nat, two \in Nat, four \in Nat, eight \in Nat, length \in Nat :
        one = 1 /\ two = 2 /\ four = 4 /\ eight = 8 /\ length = constant.length
  BY <1>1
<1>3. /\ << one, two, length >> \in Seq(Nat) \ { << >> }
      /\ Total(<< one, two, length >>) = one + two + length
  BY TotalThree
<1>9. /\ << one, four, two >> \in Seq(Nat) \ { << >> }
      /\ Total(<< one, four, two >>) = one + four + two
  BY TotalThree
<1>4. /\ << one, eight >> \in Seq(Nat) \ { << >> } /\ Total(<< one, eight >>) = one + eight
      /\ << one, four >> \in Seq(Nat) \ { << >> } /\ Total(<< one, four >>) = one + four
  BY TotalTwo
<1>5. CASE constant.kind \in { "string", "character" }
  BY <1>1, <1>2, <1>3, <1>4, <1>9, <1>5 DEF ConstantPieces, ConstantSize
<1>6. CASE constant.kind = "double"
  BY <1>1, <1>2, <1>3, <1>4, <1>9, <1>6 DEF ConstantPieces, ConstantSize
<1>7. CASE constant.kind = "int32"
  BY <1>1, <1>2, <1>3, <1>4, <1>9, <1>7 DEF ConstantPieces, ConstantSize
<1>8. CASE constant.kind = "procedure"
  BY <1>1, <1>2, <1>3, <1>4, <1>9, <1>8 DEF ConstantPieces, ConstantSize
<1> QED BY <1>1, <1>5, <1>6, <1>7, <1>8 DEF Kinds

LEMMA InstructionTotal ==
  ASSUME NEW opcode \in Opcodes
  PROVE  /\ InstructionPieces(opcode) \in Seq(Nat) \ { << >> }
         /\ Total(InstructionPieces(opcode)) =
              4 + (IF opcode = "global_set" THEN 1 ELSE 0)
<1>1. PICK one \in Nat, two \in Nat, three \in Nat : one = 1 /\ two = 2 /\ three = 3
  OBVIOUS
<1>2. /\ << one, one, one, one >> \in Seq(Nat) \ { << >> }
      /\ Total(<< one, one, one, one >>) = one + one + one + one
  BY <1>1, TotalFour
<1>3. << one, three >> \in Seq(Nat) \ { << >> } /\ Total(<< one, three >>) = one + three
  BY <1>1, TotalTwo
<1>4. /\ << one, two, one >> \in Seq(Nat) \ { << >> }
      /\ Total(<< one, two, one >>) = one + two + one
  BY <1>1, TotalThree
<1>5. /\ << one, two, two >> \in Seq(Nat) \ { << >> }
      /\ Total(<< one, two, two >>) = one + two + two
  BY <1>1, TotalThree
<1>6. /\ << one, one, two >> \in Seq(Nat) \ { << >> }
      /\ Total(<< one, one, two >>) = one + one + two
  BY <1>1, TotalThree
<1> QED BY <1>1, <1>2, <1>3, <1>4, <1>5, <1>6 DEF InstructionPieces

LEMMA HeaderTotal == HeaderPieces \in Seq(Nat) \ { << >> } /\ Total(HeaderPieces) = 28
<1> DEFINE h == << 8, 8, 2, 2, 4, 4 >>
           t == << 8, 2, 2, 4, 4 >>
           u == << 2, 2, 4, 4 >>
<1>1. /\ h \in Seq(Nat) /\ h # << >> /\ Head(h) = 8 /\ Tail(h) = t
      /\ t \in Seq(Nat) /\ t # << >> /\ Head(t) = 8 /\ Tail(t) = u
  OBVIOUS
<1>2. Total(u) = 12 /\ h = HeaderPieces
  <2>1. PICK two \in Nat, four \in Nat : two = 2 /\ four = 4
    OBVIOUS
  <2>2. Total(<< two, two, four, four >>) = two + two + four + four
    BY TotalFour
  <2> QED BY <2>1, <2>2 DEF HeaderPieces
<1> HIDE DEF h, t, u
<1>3. Total(h) = 8 + Total(t) /\ Total(t) = 8 + Total(u)
  BY <1>1, TotalTail
<1> QED BY <1>1, <1>2, <1>3

(* The bytes of a program that its header does not count: the types of the  *)
(* constants, the lengths and contents of texts, and one per global_set.    *)
Unannounced(program) ==
  Len(program.constants)
    + Total([i \in 1 .. Len(program.constants) |->
               IF program.constants[i].kind \in { "string", "character" }
               THEN 2 + program.constants[i].length ELSE 0])
    + Total([i \in 1 .. Len(program.code) |->
               IF program.code[i] = "global_set" THEN 1 ELSE 0])

(* The pieces of a program are those its header counts, the header's own,   *)
(* and those that the header leaves out.                                    *)
LEMMA ProgramTotal ==
  ASSUME NEW program \in Programs
  PROVE  /\ ProgramPieces(program) \in Groups
         /\ GroupTotal(ProgramPieces(program)) =
              28 + ConstantsSize(program) + CodeSize(program) + Unannounced(program)
<1> DEFINE constants == program.constants
           code == program.code
           n == Len(constants)
           m == Len(code)
           a == [i \in 1 .. n |-> ConstantPieces(constants[i])]
           b == [i \in 1 .. m |-> InstructionPieces(code[i])]
           sizes == [i \in 1 .. n |-> ConstantSize(constants[i])]
           texts == [i \in 1 .. n |-> IF constants[i].kind \in { "string", "character" }
                                      THEN 2 + constants[i].length ELSE 0]
           sets == [i \in 1 .. m |-> IF code[i] = "global_set" THEN 1 ELSE 0]
           onesN == [i \in 1 .. n |-> 1]
           foursM == [i \in 1 .. m |-> 4]
           sum == [i \in 1 .. n |-> onesN[i] + sizes[i]]
<1>1. constants \in Seq([kind : Kinds, length : Nat]) /\ code \in Seq(Opcodes)
  BY EmitterAssumption
<1>2. /\ ProgramPieces(program) = << HeaderPieces >> \o a \o b
      /\ ConstantsSize(program) = Total(sizes)
      /\ CodeSize(program) = 4 * m
      /\ Unannounced(program) = n + Total(texts) + Total(sets)
  BY DEF ProgramPieces, ConstantsSize, CodeSize, Unannounced
<1> HIDE DEF constants, code
<1>3. /\ n \in Nat /\ m \in Nat
      /\ \A i \in 1 .. n : constants[i] \in [kind : Kinds, length : Nat]
      /\ \A i \in 1 .. m : code[i] \in Opcodes
  BY <1>1, LenProperties, ElementOfSeq
<1> HIDE DEF n, m
<1>4. /\ sizes \in [1 .. n -> Nat] /\ onesN \in [1 .. n -> Nat]
      /\ foursM \in [1 .. m -> Nat] /\ sets \in [1 .. m -> Nat]
      /\ texts \in [1 .. n -> Nat]
  <2>1. \A i \in 1 .. n : ConstantSize(constants[i]) \in Nat
    BY <1>3, ConstantTotal
  <2>2. \A i \in 1 .. n : constants[i].length \in Nat
    BY <1>3
  <2> QED BY <2>1, <2>2
<1>5. sum \in [1 .. n -> Nat]
  BY <1>4
<1>6. /\ a \in Groups /\ Len(a) = n
      /\ \A i \in 1 .. n : Total(a[i]) = sum[i] + texts[i]
  <2>1. \A i \in 1 .. n :
          /\ ConstantPieces(constants[i]) \in Seq(Nat) \ { << >> }
          /\ ConstantSize(constants[i]) \in Nat
          /\ Total(ConstantPieces(constants[i])) =
               1 + ConstantSize(constants[i])
                 + (IF constants[i].kind \in { "string", "character" }
                    THEN 2 + constants[i].length ELSE 0)
    BY <1>3, ConstantTotal
  <2> QED BY <1>3, <2>1, IsASeq DEF Groups
<1>7. /\ b \in Groups /\ Len(b) = m
      /\ \A i \in 1 .. m : Total(b[i]) = foursM[i] + sets[i]
  <2>1. \A i \in 1 .. m :
          /\ InstructionPieces(code[i]) \in Seq(Nat) \ { << >> }
          /\ Total(InstructionPieces(code[i])) =
               4 + (IF code[i] = "global_set" THEN 1 ELSE 0)
    BY <1>3, InstructionTotal
  <2> QED BY <1>3, <2>1, IsASeq DEF Groups
<1>8. Total(onesN) = n /\ Total(foursM) = 4 * m
  BY <1>3, TotalOnes
<1> HIDE DEF onesN, foursM, sizes, texts, sets
<1>9. Total(sum) = Total(onesN) + Total(sizes)
  BY <1>3, <1>4, TotalPlus, Zenon
<1> HIDE DEF sum, a, b
<1>10. GroupTotal(a) = Total(sum) + Total(texts)
  <2>1. [i \in 1 .. Len(a) |-> Total(a[i])] = [i \in 1 .. n |-> sum[i] + texts[i]]
    BY <1>6
  <2>2. Total([i \in 1 .. n |-> sum[i] + texts[i]]) = Total(sum) + Total(texts)
    BY <1>3, <1>4, <1>5, TotalPlus, Zenon
  <2> QED BY <2>1, <2>2 DEF GroupTotal
<1>11. GroupTotal(b) = Total(foursM) + Total(sets)
  <2>1. [i \in 1 .. Len(b) |-> Total(b[i])] = [i \in 1 .. m |-> foursM[i] + sets[i]]
    BY <1>7
  <2>2. Total([i \in 1 .. m |-> foursM[i] + sets[i]]) = Total(foursM) + Total(sets)
    BY <1>3, <1>4, TotalPlus, Zenon
  <2> QED BY <2>1, <2>2 DEF GroupTotal
<1>12. << HeaderPieces >> \in Groups /\ GroupTotal(<< HeaderPieces >>) = 28
  BY HeaderTotal, GroupTotalSingle DEF Groups
<1>13. << HeaderPieces >> \o a \in Groups /\ << HeaderPieces >> \o a \o b \in Groups
  BY <1>6, <1>7, <1>12, ConcatProperties DEF Groups
<1>14. GroupTotal(<< HeaderPieces >> \o a \o b) = 28 + GroupTotal(a) + GroupTotal(b)
  BY <1>6, <1>7, <1>12, <1>13, GroupTotalConcat
<1>15. /\ Total(sizes) \in Nat /\ Total(texts) \in Nat /\ Total(sets) \in Nat
  <2>1. sizes \in Seq(Nat) /\ texts \in Seq(Nat) /\ sets \in Seq(Nat)
    BY <1>3, <1>4
  <2> QED BY <2>1, TotalOf
<1> QED BY <1>2, <1>3, <1>8, <1>9, <1>10, <1>11, <1>13, <1>14, <1>15

-----------------------------------------------------------------------------
(* Nothing of the program is left out on the way: what has been offered of *)
(* it and what is left to write make up the whole.                          *)
EmissionCounted ==
  emission \in { "going_on", "emitted" } =>
    /\ emitted \in Programs
    /\ base + GroupTotal(ProgramPieces(emitted)) = offered + GroupTotal(pieces)

LEMMA GroupTotalType ==
  ASSUME NEW groups \in Groups
  PROVE  GroupTotal(groups) \in Nat
BY TotalsAreSizes, TotalOf DEF GroupTotal, Totals

LEMMA GroupTotalEmpty == GroupTotal(<< >>) = 0
<1>1. [ i \in 1 .. Len(<< >>) |-> Total(<< >>[i]) ] = << >>
  OBVIOUS
<1> QED BY <1>1, TotalEmpty DEF GroupTotal

(* Writing a piece makes what is left smaller by that piece. *)
LEMMA PieceCounted ==
  ASSUME pieces \in Groups, pieces # << >>
  PROVE  GroupTotal(pieces) = Piece + GroupTotal(Rest)
<1> DEFINE h == Head(pieces)
           t == Tail(pieces)
<1>1. /\ h \in Seq(Nat) \ { << >> } /\ t \in Groups /\ << h >> \in Groups
      /\ pieces = << h >> \o t
  BY DEF Groups
<1>2. /\ Head(h) \in Nat /\ Tail(h) \in Seq(Nat) /\ Len(h) \in Nat
      /\ Len(Tail(h)) = Len(h) - 1
  BY <1>1
<1>3. GroupTotal(pieces) = Total(h) + GroupTotal(t)
  BY <1>1, GroupTotalConcat, GroupTotalSingle
<1>4. Total(h) = Head(h) + Total(Tail(h)) /\ Total(Tail(h)) \in Nat
  BY <1>1, <1>2, TotalTail, TotalOf
<1>5. GroupTotal(t) \in Nat
  BY <1>1, GroupTotalType
<1>6. Piece = Head(h)
  BY DEF Piece
<1>7. Tail(h) = << >> <=> Len(Tail(h)) = 0
  <2> DEFINE u == Tail(h)
  <2>1. u \in Seq(Nat)
    BY <1>2
  <2> HIDE DEF u
  <2>2. u = << >> <=> Len(u) = 0
    BY <2>1, EmptySeq
  <2> QED BY <2>2 DEF u
<1>8. CASE Len(h) = 1
  <2>1. Tail(h) = << >>
    BY <1>2, <1>7, <1>8
  <2>2. Rest = t
    BY <1>8 DEF Rest
  <2> HIDE DEF h, t
  <2>3. Total(Tail(h)) = 0
    BY <2>1, TotalEmpty
  <2> QED BY <1>2, <1>3, <1>4, <1>5, <1>6, <2>2, <2>3
<1>9. CASE Len(h) # 1
  <2>1. Tail(h) # << >>
    <3>1. Len(h) # 0
      BY <1>1, EmptySeq
    <3> QED BY <1>2, <1>7, <1>9, <3>1
  <2>2. Rest = << Tail(h) >> \o t /\ << Tail(h) >> \in Groups
    BY <1>2, <1>9, <2>1 DEF Rest, Groups
  <2> HIDE DEF h, t
  <2>3. GroupTotal(Rest) = Total(Tail(h)) + GroupTotal(t)
    BY <1>1, <1>2, <2>1, <2>2, GroupTotalConcat, GroupTotalSingle
  <2> QED BY <1>2, <1>3, <1>4, <1>5, <1>6, <2>3
<1> QED BY <1>8, <1>9

LEMMA CountedStep ==
  EmitterInv /\ EmissionCounted /\ [EmitterNext]_emitter_vars => EmissionCounted'
<1> SUFFICES ASSUME EmitterInv, EmissionCounted, [EmitterNext]_emitter_vars
             PROVE  EmissionCounted'
  OBVIOUS
<1>1. /\ pieces \in Groups /\ offered \in Nat /\ base \in Nat
      /\ emission = "going_on" <=> pieces # << >>
  BY DEF EmitterInv, EmitterTypeOK, StreamInv, TypeOK, Groups
<1>2. CASE Begin
  <2>1. PICK program \in Programs :
          /\ pieces' = ProgramPieces(program)
          /\ emission' = "going_on" /\ emitted' = program
          /\ base' = offered /\ offered' = offered
    BY <1>2 DEF Begin
  <2>2. GroupTotal(pieces') \in Nat
    BY <2>1, ProgramTotal, GroupTotalType
  <2> QED BY <1>1, <2>1, <2>2 DEF EmissionCounted
<1>3. CASE EmitPiece
  <2>1. /\ pieces # << >> /\ offered' = offered + Piece
        /\ \/ emission' = "refused"
           \/ pieces' = Rest
        /\ UNCHANGED << base, emitted >>
    BY <1>3 DEF EmitPiece
  <2>2. /\ emitted \in Programs
        /\ base + GroupTotal(ProgramPieces(emitted)) = offered + GroupTotal(pieces)
    BY <1>1, <2>1 DEF EmissionCounted
  <2>3. Piece \in Nat /\ Rest \in Groups
    BY <1>1, <2>1, PieceAndRest
  <2>4. GroupTotal(pieces) = Piece + GroupTotal(Rest)
    BY <1>1, <2>1, PieceCounted
  <2>5. GroupTotal(Rest) \in Nat /\ GroupTotal(ProgramPieces(emitted)) \in Nat
    BY <2>2, <2>3, ProgramTotal, GroupTotalType
  <2>6. base + GroupTotal(ProgramPieces(emitted)) = (offered + Piece) + GroupTotal(Rest)
    BY <1>1, <2>2, <2>3, <2>4, <2>5
  <2> QED BY <2>1, <2>2, <2>6 DEF EmissionCounted
<1>4. CASE Client
  <2>1. UNCHANGED << pieces, emission, emitted, base, offered >>
    BY <1>4 DEF Client, emission_vars, NewOnBuffer, NewMemory, NewFile, Flush,
       Close, ClientResetsError
  <2> QED BY <2>1 DEF EmissionCounted
<1>5. CASE OwnWrite
  BY <1>5 DEF OwnWrite, EmissionCounted, emission_vars
<1>6. CASE UNCHANGED emitter_vars
  BY <1>6 DEF EmissionCounted, emitter_vars, emission_vars, vars
<1> QED BY <1>2, <1>3, <1>4, <1>5, <1>6 DEF EmitterNext

(* How far the sizes in the header are off, which docs/binary-format says   *)
(* are those of what follows.                                               *)
SizesMissUnannounced ==
  emission = "emitted" =>
    Taken = 28 + ConstantsSize(emitted) + CodeSize(emitted) + Unannounced(emitted)

(* Against docs/binary-format, of every program that was emitted the sizes  *)
(* in the header miss the types of the constants, so that the code of any   *)
(* program with a constant is behind the place announced; the lengths and   *)
(* contents of the texts; and a byte for each global_set.  They miss no     *)
(* more than that, whatever buffers and failures there were, as long as     *)
(* they fit into the 32 bits of their fields.                               *)
THEOREM HeaderMisses == EmitterSpec => []SizesMissUnannounced
<1>1. EmitterInit => EmissionCounted
  BY DEF EmitterInit, EmissionCounted
<1>2. EmitterInv /\ EmissionCounted => SizesMissUnannounced
  <2> SUFFICES ASSUME EmitterInv, EmissionCounted, emission = "emitted"
               PROVE  Taken = 28 + ConstantsSize(emitted) + CodeSize(emitted)
                                + Unannounced(emitted)
    BY DEF SizesMissUnannounced
  <2>1. /\ emitted \in Programs /\ pieces = << >>
        /\ base + GroupTotal(ProgramPieces(emitted)) = offered + GroupTotal(pieces)
    BY DEF EmissionCounted, EmitterInv, EmitterTypeOK
  <2>2. base + Taken = offered /\ base \in Nat /\ offered \in Nat /\ Taken \in Int
    <3>1. accepted \in Seq(Nat) /\ from \in 0 .. Len(accepted)
      BY DEF EmitterInv, EmitterTypeOK, StreamInv, TypeOK
    <3>2. Taken \in Int
      BY <3>1 DEF Taken
    <3> QED BY <3>2 DEF EmitterInv, EmitterTypeOK, StreamInv, TypeOK, AcceptedIsPrefix
  <2>3. GroupTotal(ProgramPieces(emitted)) \in Nat
    BY <2>1, ProgramTotal, GroupTotalType
  <2>4. Taken = GroupTotal(ProgramPieces(emitted))
    BY <2>1, <2>2, <2>3, GroupTotalEmpty
  <2> QED BY <2>1, <2>4, ProgramTotal
<1> QED BY <1>1, <1>2, CountedStep, EmitterInvariant, PTL DEF EmitterSpec
=============================================================================
