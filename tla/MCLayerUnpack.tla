---------------------------- MODULE MCLayerUnpack ----------------------------
(* Instances of LayerUnpack for TLC. *)
EXTENDS LayerUnpack

\* Names of one byte.
MCNameLen == [n \in Names |-> 1]

\* Two layers: without links; with symbolic links, with hard links, and with both; hard
\* links, and whiteouts that come late.
MCShapes == {[kinds |-> {"dir", "file", "whiteout", "opaque"}, entries |-> <<2, 3>>],
             [kinds |-> {"file", "symlink"}, entries |-> <<2, 2>>],
             [kinds |-> {"dir", "file", "link"}, entries |-> <<2, 2>>],
             [kinds |-> {"dir", "file", "symlink", "link"}, entries |-> <<1, 2>>],
             [kinds |-> {"dir", "file", "symlink", "link"}, entries |-> <<2, 1>>],
             [kinds |-> {"file", "link", "whiteout"}, entries |-> <<1, 4>>]}

\* A lower layer with nested directories, an upper one with a file over them.
MCShadow == {[kinds |-> {"dir", "file"}, entries |-> <<2, 2>>]}

\* Nothing depends on a name but its length.
NameSymmetry == Permutations(Names)
=============================================================================
