---------------------------- MODULE BlobTransfer ----------------------------
(***************************************************************************)
(* One download: run_download of src/unpacker/images.rs, after the request *)
(* was answered and the file created, with the DigestReader of             *)
(* src/digest.rs on one side and a BufWriter on the other.                 *)
(*                                                                         *)
(*    server --> DigestReader --> data --> BufWriter --> file              *)
(*                                                                         *)
(* The bytes of the answer are arbitrary: those of the blob, fewer, more,  *)
(* or different ones, in chunks of any size, or an error.  Two contents    *)
(* have the same digest only if they are equal.  The disk may be full.     *)
(* BufWriter is std::io::BufWriter with its default capacity, 8 KiB, which *)
(* is also the size of data.                                               *)
(***************************************************************************)
EXTENDS Integers, Sequences

CONSTANTS Bytes,        \* contents of the blobs
          Blob,         \* the blob that has the expected digest
          ChunkSize,    \* size of data, and capacity of BufWriter
          Bodies,       \* the bodies that the server may send
          MaxSpace      \* bound: free space on the disk

ASSUME ChunkAssumption == ChunkSize \in Nat \ {0}
ASSUME SpaceAssumption == MaxSpace \in Nat
ASSUME BlobAssumption  == Blob \in Seq(Bytes) /\ Bodies \subseteq Seq(Bytes)

VARIABLES body,       \* what the server has not delivered yet
          hashed,     \* bytes given to the hasher of DigestReader
          data,       \* data[..n]: bytes that were read and not written
          buffer,     \* contents of the BufWriter
          file,       \* contents of the file
          space,      \* free space on the disk
          alive,      \* is_alive, cleared by another thread
          pc,         \* where the loop is
          outcome,    \* result of run_download
          lateReads   \* history: reads since is_alive was cleared

vars == <<body, hashed, data, buffer, file, space, alive, pc, outcome, lateReads>>

First(s, n) == SubSeq(s, 1, n)
From(s, n)  == SubSeq(s, n + 1, Len(s))
Lesser(m, n) == IF m < n THEN m ELSE n

Init == /\ body \in Bodies
        /\ hashed = <<>> /\ data = <<>> /\ buffer = <<>> /\ file = <<>>
        /\ space \in 0..MaxSpace
        /\ alive = TRUE
        /\ pc = "check"
        /\ outcome = "none"
        /\ lateReads = 0
-----------------------------------------------------------------------------
(* The file. *)

\* A write of s stores what fits on the disk; it fails if something does not.
Fits(s)  == Lesser(Len(s), space)
Store(s) == /\ file' = file \o First(s, Fits(s))
            /\ space' = space - Fits(s)

\* output goes out of scope: BufWriter flushes its buffer, whatever happens.
Return(r) == /\ pc' = "returned"
             /\ outcome' = r
             /\ Store(buffer)
             /\ buffer' = From(buffer, Fits(buffer))
-----------------------------------------------------------------------------
(* The loop of run_download. *)

\* The scope of the pool is left by the main thread.
Cancel == /\ alive
          /\ alive' = FALSE
          /\ UNCHANGED <<body, hashed, data, buffer, file, space, pc, outcome, lateReads>>

\* Other downloads and other programs use the same disk.
OthersUseDisk == /\ pc # "returned"
                 /\ space' \in 0..MaxSpace
                 /\ UNCHANGED <<body, hashed, data, buffer, file, alive, pc, outcome, lateReads>>

CheckAlive == /\ pc = "check"
              /\ IF alive
                    THEN pc' = "read" /\ UNCHANGED <<buffer, file, space, outcome>>
                    ELSE Return("interrupted")
              /\ UNCHANGED <<body, hashed, data, alive, lateReads>>

CountRead == lateReads' = IF alive THEN lateReads ELSE lateReads + 1

\* DigestReader::read with data: the hasher sees what the caller gets.
ReadChunk == /\ pc = "read"
             /\ \E n \in 1..Lesser(ChunkSize, Len(body)) :
                   /\ data' = First(body, n)
                   /\ hashed' = hashed \o First(body, n)
                   /\ body' = From(body, n)
             /\ pc' = "write"
             /\ CountRead
             /\ UNCHANGED <<buffer, file, space, alive, outcome>>

\* Fault: the digest is not compared at the end of the stream.
EofUnchecked == /\ pc = "read"
                /\ body = <<>>
                /\ Return("file")
                /\ CountRead
                /\ UNCHANGED <<body, hashed, data, alive>>

\* Fault: the BufWriter is taken apart instead of dropped, its buffer is lost.
EofUnflushed == /\ pc = "read"
                /\ body = <<>>
                /\ pc' = "returned"
                /\ outcome' = IF hashed = Blob THEN "file" ELSE "io"
                /\ CountRead
                /\ UNCHANGED <<body, hashed, data, buffer, file, space, alive>>

\* The end of the stream: check_hash, and drop(output) if it succeeds.
ReadEof == /\ pc = "read"
           /\ body = <<>>
           /\ Return(IF hashed = Blob THEN "file" ELSE "io")
           /\ CountRead
           /\ UNCHANGED <<body, hashed, data, alive>>

ReadError == /\ pc = "read"
             /\ Return("io")
             /\ CountRead
             /\ UNCHANGED <<body, hashed, data, alive>>

\* BufWriter::write_all.  It keeps data if it fits in the buffer; if not, it
\* flushes the buffer, and data goes to the file at once if it fills a buffer.
Keeps   == Len(buffer) + Len(data) <= ChunkSize /\ Len(data) < ChunkSize
Flushes == Len(buffer) + Len(data) > ChunkSize
Direct  == Len(data) >= ChunkSize
Pending == (IF Flushes THEN buffer ELSE <<>>) \o (IF Direct THEN data ELSE <<>>)

\* Fault: the buffer grows instead of being flushed.
WriteUnbounded == /\ pc = "write"
                  /\ buffer' = buffer \o data
                  /\ data' = <<>>
                  /\ pc' = "check"
                  /\ UNCHANGED <<body, hashed, file, space, alive, outcome, lateReads>>

WriteKeep == /\ pc = "write"
             /\ Keeps
             /\ buffer' = buffer \o data
             /\ data' = <<>>
             /\ pc' = "check"
             /\ UNCHANGED <<body, hashed, file, space, alive, outcome, lateReads>>

\* Fault: the next chunk is read with no look at is_alive.
WriteThenRead == /\ pc = "write"
                 /\ ~Keeps
                 /\ Len(Pending) <= space
                 /\ Store(Pending)
                 /\ buffer' = IF Direct THEN <<>> ELSE data
                 /\ data' = <<>>
                 /\ pc' = "read"
                 /\ UNCHANGED <<body, hashed, alive, outcome, lateReads>>

\* Fault: the result of write_all is ignored.
WriteUnchecked == /\ pc = "write"
                  /\ ~Keeps
                  /\ Store(Pending)
                  /\ buffer' = IF Direct THEN <<>> ELSE data
                  /\ data' = <<>>
                  /\ pc' = "check"
                  /\ UNCHANGED <<body, hashed, alive, outcome, lateReads>>

WriteThrough == /\ pc = "write"
                /\ ~Keeps
                /\ Len(Pending) <= space
                /\ Store(Pending)
                /\ buffer' = IF Direct THEN <<>> ELSE data
                /\ data' = <<>>
                /\ pc' = "check"
                /\ UNCHANGED <<body, hashed, alive, outcome, lateReads>>

\* The disk is full.  The part of the buffer that was not written is tried again
\* when output is dropped, in vain.
WriteError == /\ pc = "write"
              /\ ~Keeps
              /\ Len(Pending) > space
              /\ Store(Pending)
              /\ buffer' = IF Flushes THEN From(buffer, Fits(buffer)) ELSE buffer
              /\ pc' = "returned"
              /\ outcome' = "io"
              /\ UNCHANGED <<body, hashed, data, alive, lateReads>>

Returned == pc = "returned" /\ UNCHANGED vars
-----------------------------------------------------------------------------
Next == \/ Cancel \/ OthersUseDisk \/ CheckAlive \/ ReadChunk \/ ReadEof \/ ReadError
        \/ WriteKeep \/ WriteThrough \/ WriteError \/ Returned

Spec == Init /\ [][Next]_vars
-----------------------------------------------------------------------------
(* Properties. *)

TypeOK == /\ {body, hashed, data, buffer, file} \subseteq Seq(Bytes)
          /\ Len(data) <= ChunkSize
          /\ Len(buffer) <= ChunkSize
          /\ space \in 0..MaxSpace
          /\ alive \in BOOLEAN
          /\ pc \in {"check", "read", "write", "returned"}
          /\ outcome \in {"none", "file", "io", "interrupted"}
          /\ lateReads \in Nat

\* What is written is what is verified: until the call returns, the bytes that
\* went through the hasher are those of the file, the buffer and data, in order.
HashedIsWritten == outcome = "none" => hashed = file \o buffer \o data

\* A file is returned only for the blob with the expected digest, and only the
\* last bytes, those that were still buffered, can be missing from it: none, if
\* the disk has room for the blob.
OkMeansVerified ==
    outcome = "file" =>
        /\ hashed = Blob
        /\ Blob = file \o buffer
        /\ space > 0 => buffer = <<>>

\* A cancelled download reads at most once more.
CancelledSoon == lateReads <= 1

\* The file that is returned is where the contents of the blob are written.
FileIsBlob == outcome = "file" => file = Blob
=============================================================================
