----------------------------- MODULE ImageUnpack -----------------------------
(***************************************************************************)
(* What unpacker::images::get promises to its caller, with no threads, no  *)
(* queue and no locks: the blobs of an image arrive in any order, they are *)
(* handed to unpack_layer in the order of the manifest and only after they *)
(* have arrived, and the call returns once.  It returns "ok" only after    *)
(* every blob was handed over.  DownloadPool is shown to implement it.     *)
(***************************************************************************)
EXTENDS Naturals

CONSTANTS NumLayers,   \* manifest.layers.len()
          Failures     \* the ways the call may fail

Tasks == 0..NumLayers  \* 0 is the configuration blob, the layers follow

VARIABLES fetched,     \* blobs that were downloaded
          applied,     \* number of blobs handed to unpack_layer, with success
          returned     \* "no" while the call is running, then its result

vars == <<fetched, applied, returned>>

Init == /\ fetched = {}
        /\ applied = 0
        /\ returned = "no"

Fetch(t) == /\ returned = "no"
            /\ fetched' = fetched \union {t}
            /\ UNCHANGED <<applied, returned>>

Apply == /\ returned = "no"
         /\ applied \in fetched
         /\ applied' = applied + 1
         /\ UNCHANGED <<fetched, returned>>

Succeed == /\ returned = "no"
           /\ applied = NumLayers + 1
           /\ returned' = "ok"
           /\ UNCHANGED <<fetched, applied>>

Fail(r) == /\ returned = "no"
           /\ returned' = r
           /\ UNCHANGED <<fetched, applied>>

Next == \/ \E t \in Tasks : Fetch(t)
        \/ Apply
        \/ Succeed
        \/ \E r \in Failures : Fail(r)

Spec == Init /\ [][Next]_vars
=============================================================================
