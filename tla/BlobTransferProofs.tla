------------------------- MODULE BlobTransferProofs -------------------------
(***************************************************************************)
(* Proofs about BlobTransfer, for any blob, any set of bodies, any size of *)
(* the buffer and any disk: no byte is lost, repeated or reordered between *)
(* the hasher and the file, and only verified contents are returned.       *)
(***************************************************************************)
EXTENDS BlobTransfer, SequenceTheorems, TLAPS

USE ChunkAssumption, SpaceAssumption

\* data is written before the next look at is_alive, and the call returns once.
LoopInv == /\ outcome = "none" <=> pc # "returned"
           /\ pc \in {"check", "read"} => data = <<>>

\* The read that comes after is_alive was cleared leads to the check that sees it.
LateInv == /\ lateReads \in 0..1
           /\ lateReads = 1 => ~alive /\ pc # "read"

IndInv == TypeOK /\ LoopInv /\ HashedIsWritten /\ OkMeansVerified /\ LateInv
-----------------------------------------------------------------------------
(* Sequences. *)

\* ConcatAssociative, for the bytes.
LEMMA Assoc ==
    ASSUME NEW s \in Seq(Bytes), NEW t \in Seq(Bytes), NEW u \in Seq(Bytes)
    PROVE  (s \o t) \o u = s \o (t \o u)
OBVIOUS

\* A sequence is split in two parts at any place.
LEMMA Split ==
    ASSUME NEW s \in Seq(Bytes), NEW n \in 0..Len(s)
    PROVE  /\ First(s, n) \in Seq(Bytes) /\ Len(First(s, n)) = n
           /\ From(s, n) \in Seq(Bytes) /\ Len(From(s, n)) = Len(s) - n
           /\ First(s, n) \o From(s, n) = s
<1> USE DEF First, From
<1>1. Len(s) \in Nat /\ \A i \in 1..Len(s) : s[i] \in Bytes
  BY LenProperties, ElementOfSeq
<1>2. First(s, n) \in Seq(Bytes) /\ Len(First(s, n)) = n
  BY <1>1, SubSeqProperties
<1>3. From(s, n) \in Seq(Bytes) /\ Len(From(s, n)) = Len(s) - n
  BY <1>1, SubSeqProperties
<1>4. SubSeq(s, 1, n) \o SubSeq(s, n + 1, Len(s)) = SubSeq(s, 1, Len(s))
  <2>1. /\ 1 \in 1..Len(s) + 1
        /\ n \in 1 - 1..Len(s)
        /\ Len(s) \in n..Len(s)
    BY <1>1
  <2>2. QED
    BY <2>1, ConcatAdjacentSubSeq, Zenon
<1>5. QED
  BY <1>2, <1>3, <1>4, SubSeqFull

\* A write stores a part of what it is given, no more than what is free.
LEMMA FitsInBounds ==
    ASSUME NEW s \in Seq(Bytes), space \in 0..MaxSpace
    PROVE  /\ Fits(s) \in 0..Len(s) /\ space - Fits(s) \in 0..MaxSpace
           /\ space - Fits(s) > 0 => Fits(s) = Len(s)
           /\ Len(s) <= space => Fits(s) = Len(s)
BY LenProperties DEF Fits, Lesser

\* Nothing is left of a sequence after all of it, and all of it is itself.
LEMMA SplitAtEnd ==
    ASSUME NEW s \in Seq(Bytes)
    PROVE  First(s, Len(s)) = s /\ From(s, Len(s)) = <<>>
BY SubSeqFull, SubSeqEmpty, LenProperties DEF First, From

\* The flush of the last bytes keeps the order: what it can't store stays behind
\* what it stores, and it stores all of them if the disk has room.
LEMMA FlushKeepsOrder ==
    ASSUME TypeOK, NEW r, Return(r)
    PROVE  /\ file' \in Seq(Bytes) /\ buffer' \in Seq(Bytes) /\ Len(buffer') <= ChunkSize
           /\ space' \in 0..MaxSpace
           /\ file' \o buffer' = file \o buffer
           /\ space' > 0 => buffer' = <<>>
<1> DEFINE n == Fits(buffer)
<1>1. /\ file \in Seq(Bytes) /\ buffer \in Seq(Bytes) /\ space \in 0..MaxSpace
      /\ Len(buffer) <= ChunkSize
  BY DEF TypeOK
<1>2. /\ file' = file \o First(buffer, n) /\ space' = space - n
      /\ buffer' = From(buffer, n)
  BY DEF Return, Store
<1>3. n \in 0..Len(buffer) /\ space - n \in 0..MaxSpace
  BY <1>1, FitsInBounds
<1>4. space - n > 0 => n = Len(buffer)
  BY <1>1, FitsInBounds
<1> HIDE DEF n
<1>5. /\ First(buffer, n) \in Seq(Bytes) /\ From(buffer, n) \in Seq(Bytes)
      /\ First(buffer, n) \o From(buffer, n) = buffer
      /\ Len(From(buffer, n)) = Len(buffer) - n
  BY <1>1, <1>3, Split
<1>6. (file \o First(buffer, n)) \o From(buffer, n) = file \o buffer
  <2>1. /\ file \in Seq(Bytes)
        /\ First(buffer, n) \in Seq(Bytes)
        /\ From(buffer, n) \in Seq(Bytes)
    BY <1>1, <1>5
  <2>2. (file \o First(buffer, n)) \o From(buffer, n) = file \o (First(buffer, n) \o From(buffer, n))
    BY <2>1, Assoc
  <2>3. QED
    BY <1>5, <2>2
<1>7. file \o First(buffer, n) \in Seq(Bytes)
  BY <1>1, <1>5, ConcatProperties
<1>8. Len(From(buffer, n)) <= ChunkSize
  BY <1>1, <1>3, <1>5, LenProperties
<1>9. space' > 0 => buffer' = <<>>
  BY <1>1, <1>2, <1>4, SplitAtEnd
<1>10. QED
  BY <1>2, <1>3, <1>5, <1>6, <1>7, <1>8, <1>9
-----------------------------------------------------------------------------
(* Initial states and steps. *)

\* Nothing was read and nothing was written.
LEMMA IndInit == Init => IndInv
<1> SUFFICES ASSUME Init PROVE IndInv
  OBVIOUS
<1>1. <<>> \in Seq(Bytes) /\ Len(<<>>) = 0 /\ body \in Seq(Bytes)
  BY BlobAssumption, EmptySeq DEF Init
<1>2. TypeOK
  BY <1>1 DEF Init, TypeOK
<1>3. HashedIsWritten
  BY <1>1, ConcatEmptySeq DEF Init, HashedIsWritten
<1>4. LoopInv /\ OkMeansVerified /\ LateInv
  BY DEF Init, LoopInv, OkMeansVerified, LateInv
<1>5. QED
  BY <1>2, <1>3, <1>4 DEF IndInv

\* An end of the call, other than that of a verified body.
LEMMA GiveUpStep ==
    ASSUME IndInv, NEW r \in {"io", "interrupted"}, Return(r),
           UNCHANGED <<body, hashed, data, alive>>,
           lateReads' = lateReads \/ (lateReads = 0 /\ CountRead)
    PROVE  IndInv'
<1>1. TypeOK'
  BY FlushKeepsOrder DEF IndInv, TypeOK, Return, CountRead
<1>2. HashedIsWritten' /\ OkMeansVerified'
  BY DEF Return, HashedIsWritten, OkMeansVerified
<1>3. LoopInv'
  BY DEF Return, LoopInv
<1>4. LateInv'
  BY DEF IndInv, LateInv, CountRead, Return, TypeOK
<1>5. QED
  BY <1>1, <1>2, <1>3, <1>4 DEF IndInv

\* The end of a body: a file is returned only with the right digest.
LEMMA EofStep == ASSUME IndInv, ReadEof PROVE IndInv'
<1>1. CASE hashed # Blob
  BY <1>1, GiveUpStep DEF ReadEof, IndInv, LateInv
<1>2. CASE hashed = Blob
  <2>1. Return("file") /\ TypeOK
    BY <1>2 DEF ReadEof, IndInv
  <2>2. TypeOK'
    BY <2>1, FlushKeepsOrder DEF ReadEof, TypeOK, Return, CountRead
  <2>3. hashed = file \o buffer
    <3>1. hashed = file \o buffer \o data /\ data = <<>>
      BY DEF IndInv, LoopInv, HashedIsWritten, ReadEof
    <3>2. file \o buffer \in Seq(Bytes)
      BY <2>1, ConcatProperties DEF TypeOK
    <3>3. QED
      BY <3>1, <3>2, ConcatEmptySeq
  <2>4. OkMeansVerified'
    BY <1>2, <2>1, <2>3, FlushKeepsOrder DEF ReadEof, OkMeansVerified
  <2>5. HashedIsWritten' /\ LoopInv'
    BY <2>1 DEF Return, HashedIsWritten, LoopInv
  <2>6. LateInv'
    BY DEF IndInv, ReadEof, LateInv, CountRead, Return
  <2>7. QED
    BY <2>2, <2>4, <2>5, <2>6 DEF IndInv
<1>3. QED
  BY <1>1, <1>2

\* The hasher and data get the same bytes.
LEMMA ChunkStep == ASSUME IndInv, ReadChunk PROVE IndInv'
<1>1. PICK n \in 1..Lesser(ChunkSize, Len(body)) :
         data' = First(body, n) /\ hashed' = hashed \o First(body, n) /\ body' = From(body, n)
  BY DEF ReadChunk
<1>2. /\ TypeOK /\ body \in Seq(Bytes) /\ hashed \in Seq(Bytes)
      /\ file \in Seq(Bytes) /\ buffer \in Seq(Bytes)
  BY DEF IndInv, TypeOK
<1>3. n \in 0..Len(body) /\ n <= ChunkSize
  BY <1>2, LenProperties DEF Lesser
<1>4. data' \in Seq(Bytes) /\ body' \in Seq(Bytes) /\ Len(data') = n
  BY <1>1, <1>2, <1>3, Split
<1>5. hashed' \in Seq(Bytes)
  BY <1>1, <1>2, <1>4, ConcatProperties
<1>6. TypeOK'
  BY <1>2, <1>3, <1>4, <1>5 DEF ReadChunk, TypeOK, CountRead
<1>7. hashed = file \o buffer
  <2>1. hashed = file \o buffer \o data /\ data = <<>>
    BY DEF IndInv, LoopInv, HashedIsWritten, ReadChunk
  <2>2. file \o buffer \in Seq(Bytes)
    BY <1>2, ConcatProperties
  <2>3. QED
    BY <2>1, <2>2, ConcatEmptySeq
<1>8. HashedIsWritten'
  BY <1>1, <1>7 DEF ReadChunk, HashedIsWritten
<1>9. LoopInv' /\ OkMeansVerified' /\ LateInv'
  BY DEF IndInv, ReadChunk, LoopInv, OkMeansVerified, LateInv, CountRead
<1>10. QED
  BY <1>6, <1>8, <1>9 DEF IndInv

\* What every successful write of data does: the bytes move, in order.
LEMMA WriteStep ==
    ASSUME IndInv, pc = "write", pc' = "check", data' = <<>>,
           file' \in Seq(Bytes), buffer' \in Seq(Bytes), Len(buffer') <= ChunkSize,
           space' \in 0..MaxSpace, file' \o buffer' = (file \o buffer) \o data,
           UNCHANGED <<body, hashed, alive, outcome, lateReads>>
    PROVE  IndInv'
<1>1. <<>> \in Seq(Bytes) /\ Len(<<>>) = 0
  BY EmptySeq
<1>2. TypeOK'
  BY <1>1 DEF IndInv, TypeOK
<1>3. HashedIsWritten'
  <2>1. file' \o buffer' \in Seq(Bytes)
    BY ConcatProperties
  <2>2. file' \o buffer' \o data' = file' \o buffer'
    BY <2>1, ConcatEmptySeq
  <2>3. QED
    BY <2>2 DEF IndInv, HashedIsWritten
<1>4. LoopInv' /\ OkMeansVerified' /\ LateInv'
  BY DEF IndInv, LoopInv, OkMeansVerified, LateInv
<1>5. QED
  BY <1>2, <1>3, <1>4 DEF IndInv

\* data goes behind what is in the buffer.
LEMMA KeepStep == ASSUME IndInv, WriteKeep PROVE IndInv'
<1>1. file \in Seq(Bytes) /\ buffer \in Seq(Bytes) /\ data \in Seq(Bytes) /\ space \in 0..MaxSpace
  BY DEF IndInv, TypeOK
<1>2. buffer \o data \in Seq(Bytes) /\ Len(buffer \o data) = Len(buffer) + Len(data)
  BY <1>1, ConcatProperties
<1>3. file \o (buffer \o data) = (file \o buffer) \o data
  BY <1>1, Assoc
<1>4. QED
  BY <1>1, <1>2, <1>3, WriteStep DEF WriteKeep, Keeps

\* The buffer is flushed before data is kept or written.
LEMMA ThroughStep == ASSUME IndInv, WriteThrough PROVE IndInv'
<1>1. /\ file \in Seq(Bytes) /\ buffer \in Seq(Bytes) /\ data \in Seq(Bytes)
      /\ space \in 0..MaxSpace /\ <<>> \in Seq(Bytes)
      /\ Len(data) <= ChunkSize /\ Len(buffer) \in Nat /\ Len(data) \in Nat
  BY EmptySeq, LenProperties DEF IndInv, TypeOK
<1> DEFINE rest == IF Direct THEN <<>> ELSE data
<1>2. Pending \in Seq(Bytes) /\ rest \in Seq(Bytes) /\ Len(rest) <= ChunkSize
  BY <1>1, ConcatProperties, EmptySeq DEF Pending
<1>3. Pending \o rest = buffer \o data
  <2>1. CASE Flushes /\ Direct
    BY <1>1, <2>1, ConcatEmptySeq, ConcatProperties DEF Pending
  <2>2. CASE Flushes /\ ~Direct
    BY <1>1, <2>2, ConcatEmptySeq DEF Pending
  <2>3. CASE ~Flushes
    <3>1. Direct /\ Len(buffer) = 0
      BY <1>1, <2>3 DEF WriteThrough, Keeps, Flushes, Direct
    <3>2. buffer = <<>>
      BY <1>1, <3>1, EmptySeq
    <3>3. QED
      BY <1>1, <2>3, <3>1, <3>2, ConcatEmptySeq DEF Pending
  <2>4. QED
    BY <2>1, <2>2, <2>3
<1>4. Fits(Pending) = Len(Pending) /\ space - Fits(Pending) \in 0..MaxSpace
  BY <1>1, <1>2, FitsInBounds DEF WriteThrough
<1>5. file' = file \o Pending /\ space' \in 0..MaxSpace /\ buffer' = rest
  BY <1>2, <1>4, SplitAtEnd DEF WriteThrough, Store
<1> HIDE DEF rest
<1>6. file' \o buffer' = (file \o buffer) \o data
  <2>1. (file \o Pending) \o rest = file \o (Pending \o rest)
    <3>1. file \in Seq(Bytes) /\ Pending \in Seq(Bytes) /\ rest \in Seq(Bytes)
      BY <1>1, <1>2
    <3>2. QED
      BY <3>1, Assoc
  <2>2. file \o (buffer \o data) = (file \o buffer) \o data
    BY <1>1, Assoc
  <2>3. QED
    BY <1>3, <1>5, <2>1, <2>2
<1>7. file' \in Seq(Bytes)
  BY <1>1, <1>2, <1>5, ConcatProperties
<1>8. QED
  BY <1>2, <1>5, <1>6, <1>7, WriteStep DEF WriteThrough

\* The disk is full: an error, and what is in the file no longer matters.
LEMMA ErrorStep == ASSUME IndInv, WriteError PROVE IndInv'
<1>1. /\ file \in Seq(Bytes) /\ buffer \in Seq(Bytes) /\ data \in Seq(Bytes)
      /\ space \in 0..MaxSpace /\ <<>> \in Seq(Bytes) /\ Len(buffer) <= ChunkSize
  BY EmptySeq DEF IndInv, TypeOK
<1>2. Pending \in Seq(Bytes)
  BY <1>1, ConcatProperties DEF Pending
<1>3. Fits(Pending) \in 0..Len(Pending) /\ space - Fits(Pending) \in 0..MaxSpace
  BY <1>1, <1>2, FitsInBounds
<1>4. First(Pending, Fits(Pending)) \in Seq(Bytes)
  BY <1>2, <1>3, Split
<1>5. file' \in Seq(Bytes) /\ space' \in 0..MaxSpace
  BY <1>1, <1>3, <1>4, ConcatProperties DEF WriteError, Store
<1>6. Fits(buffer) \in 0..Len(buffer)
  BY <1>1, FitsInBounds
<1>7. From(buffer, Fits(buffer)) \in Seq(Bytes) /\ Len(From(buffer, Fits(buffer))) <= Len(buffer)
  <2>1. Len(buffer) \in Nat
    BY <1>1, LenProperties
  <2>2. Len(From(buffer, Fits(buffer))) = Len(buffer) - Fits(buffer)
    BY <1>1, <1>6, Split
  <2>3. QED
    BY <1>1, <1>6, <2>1, <2>2, Split
<1>8. buffer' \in Seq(Bytes) /\ Len(buffer') <= ChunkSize
  BY <1>1, <1>7, LenProperties DEF WriteError
<1>9. TypeOK'
  BY <1>5, <1>8 DEF IndInv, TypeOK, WriteError
<1>10. HashedIsWritten' /\ OkMeansVerified' /\ LoopInv' /\ LateInv'
  BY DEF IndInv, WriteError, HashedIsWritten, OkMeansVerified, LoopInv, LateInv
<1>11. QED
  BY <1>9, <1>10 DEF IndInv

\* The look at is_alive.
LEMMA CheckStep == ASSUME IndInv, CheckAlive PROVE IndInv'
<1>1. CASE alive
  <2>1. TypeOK'
    BY <1>1 DEF IndInv, CheckAlive, TypeOK
  <2>2. HashedIsWritten' /\ OkMeansVerified'
    BY <1>1 DEF IndInv, CheckAlive, HashedIsWritten, OkMeansVerified
  <2>3. LoopInv' /\ LateInv'
    BY <1>1 DEF IndInv, CheckAlive, LoopInv, LateInv
  <2>4. QED
    BY <2>1, <2>2, <2>3 DEF IndInv
<1>2. CASE ~alive
  BY <1>2, GiveUpStep DEF CheckAlive
<1>3. QED
  BY <1>1, <1>2

\* What other threads and programs do.
LEMMA OtherStep == ASSUME IndInv, Cancel \/ OthersUseDisk PROVE IndInv'
<1>1. TypeOK'
  BY DEF IndInv, TypeOK, Cancel, OthersUseDisk
<1>2. HashedIsWritten' /\ OkMeansVerified'
  BY DEF IndInv, LoopInv, HashedIsWritten, OkMeansVerified, Cancel, OthersUseDisk
<1>3. LoopInv' /\ LateInv'
  BY DEF IndInv, LoopInv, LateInv, Cancel, OthersUseDisk
<1>4. QED
  BY <1>1, <1>2, <1>3 DEF IndInv

\* Every action preserves IndInv.
LEMMA IndStep == IndInv /\ [Next]_vars => IndInv'
<1> SUFFICES ASSUME IndInv, [Next]_vars PROVE IndInv'
  OBVIOUS
<1>1. CASE UNCHANGED vars
  BY <1>1 DEF IndInv, TypeOK, LoopInv, HashedIsWritten, OkMeansVerified, LateInv, vars
<1>2. CASE ReadError
  BY <1>2, GiveUpStep DEF ReadError, IndInv, LateInv
<1>3. QED
  BY <1>1, <1>2, OtherStep, CheckStep, ChunkStep, EofStep, KeepStep, ThroughStep, ErrorStep
     DEF Next, Returned
-----------------------------------------------------------------------------
\* The invariant behind the three theorems below.
LEMMA Invariant == Spec => []IndInv
BY IndInit, IndStep, PTL DEF Spec

\* The variables stay in their types; the buffer never exceeds its capacity.
THEOREM TypeCorrect == Spec => []TypeOK
<1>1. IndInv => TypeOK
  BY DEF IndInv
<1>2. QED
  BY <1>1, Invariant, PTL

\* Until the call returns, the bytes that were hashed are those of the file, the
\* buffer and data: BufWriter loses, repeats and reorders none.
THEOREM NothingLost == Spec => []HashedIsWritten
<1>1. IndInv => HashedIsWritten
  BY DEF IndInv
<1>2. QED
  BY <1>1, Invariant, PTL

\* A file is returned only for the blob with the expected digest, and it is
\* complete if the disk has room for it.
THEOREM OnlyVerified == Spec => []OkMeansVerified
<1>1. IndInv => OkMeansVerified
  BY DEF IndInv
<1>2. QED
  BY <1>1, Invariant, PTL

\* A cancelled download reads at most once more.
THEOREM CancelIsSoon == Spec => []CancelledSoon
<1>1. IndInv => CancelledSoon
  BY DEF IndInv, LateInv, CancelledSoon
<1>2. QED
  BY <1>1, Invariant, PTL
=============================================================================
