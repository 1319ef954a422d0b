--------------------------- MODULE MCIndexWriter ---------------------------
(* Model-checking instances of IndexWriter with one file, under d.         *)
EXTENDS IndexWriter, TLC

CONSTANTS a, d, scan, loop

MCUnderA == d :> {a}
Symmetric == Permutations({scan, loop})
=============================================================================
