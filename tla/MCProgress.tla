----------------------------- MODULE MCProgress -----------------------------
(* An instance of Progress for TLC. *)
EXTENDS Progress, TLC

\* The configuration, and layers of two, one and one reads; bodies have up to two.
MCSize == (0 :> 1) @@ (1 :> 2) @@ (2 :> 1) @@ (3 :> 1)

WorkerSymmetry == Permutations(Workers)
=============================================================================
