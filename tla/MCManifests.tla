----------------------------- MODULE MCManifests -----------------------------
(* Instances of Manifests for TLC. *)
EXTENDS Manifests, TLC

Item(p, d) == [platform |-> p, digest |-> d]

CONSTANTS amd64, arm64, m1, m2, inner, outer, empty, broken, junk

\* An index of two platforms that is also a manifest, an index of indices, two that
\* are of no use, and a document that is not JSON.
MCDocs  == {m1, m2, inner, outer, empty, broken, junk}
MCIndex == inner  :> <<Item(arm64, m2), Item(amd64, m1), Item(arm64, m1)>>
        @@ outer  :> <<Item(amd64, inner), Item(arm64, inner), Item(amd64, m2)>>
        @@ empty  :> <<>>
        @@ broken :> <<Item(amd64, Invalid), Item(arm64, outer)>>
MCRank  == [d \in MCDocs |-> CASE d = inner  -> 1
                               [] d = outer  -> 2
                               [] d = broken -> 3
                               [] OTHER      -> 0]
=============================================================================
