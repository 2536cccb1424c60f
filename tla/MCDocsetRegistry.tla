------------------------ MODULE MCDocsetRegistry ------------------------
(* An instance of DocsetRegistry for TLC: an archive and a directory whose  *)
(* names sanitize to one prefix, and one of each with its own prefix.        *)
EXTENDS DocsetRegistry, TLC

CONSTANTS d1, d2, d3, d4, p1, p2, p3, s1, s2

PrefixOfDocset == (d1 :> p1) @@ (d2 :> p1) @@ (d3 :> p2) @@ (d4 :> p3)

\* The third docset comes only from the library dialog.
FoundIn == (s1 :> {d1, d2}) @@ (s2 :> {d4})
=============================================================================
