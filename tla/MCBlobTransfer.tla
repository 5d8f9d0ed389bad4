--------------------------- MODULE MCBlobTransfer ---------------------------
(* Instances of BlobTransfer for TLC. *)
EXTENDS BlobTransfer, SequencesExt

\* Two buffers and a half.
MCBlob == <<1, 2, 2, 1, 2>>

\* Every body up to one byte more than the blob.
MCBodies == BoundedSeq(Bytes, Len(MCBlob) + 1)
=============================================================================
