---------------------------- MODULE MCTextCache ----------------------------
(* Two readers of the same kind; two files, so that clearing one entry and *)
(* clearing the cache differ.                                              *)
EXTENDS TextCache, TLC

CONSTANTS r1, r2

Symmetric == Permutations(Readers) \cup Permutations(Files)
=============================================================================
