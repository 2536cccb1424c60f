----------------------------- MODULE MCSearch -----------------------------
(* An instance of Search for TLC: one directory with one docset, which both  *)
(* queries match.                                                            *)
EXTENDS Search
CONSTANTS t1, t2, d1, qa, qb, s1

OneFound == [s \in Storage |-> {d1}]
OneMatch == [q \in Query |-> {d1}]
=============================================================================
