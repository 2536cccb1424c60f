--------------------------- MODULE MCDocsetsDialog ---------------------------
(* Finite instances of DocsetsDialog for TLC. *)
EXTENDS DocsetsDialog, TLC

CONSTANTS f1, f2, f3, q1, q2, q3

Two      == {1, 2}
One      == {1}
Nobody   == {}

Symmetry == Permutations(File) \cup Permutations(Request)
=============================================================================
