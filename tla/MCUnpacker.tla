----------------------------- MODULE MCUnpacker -----------------------------
(* Instances of Unpacker for TLC. *)
EXTENDS Unpacker, TLC

CONSTANTS a1, a2, b1    \* two calls in the thread A, one in the thread B
A == "A"
B == "B"
MCThreadOf == (a1 :> A) @@ (a2 :> A) @@ (b1 :> B)

\* The targets are directories of the same kind.
TargetSymmetry == Permutations(Targets)
=============================================================================
