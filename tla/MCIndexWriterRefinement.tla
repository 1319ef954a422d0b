--------------------- MODULE MCIndexWriterRefinement ---------------------
(* The file a stands alone, the file b is under the directory d. *)
EXTENDS IndexWriterRefinement, TLC

CONSTANTS a, b, d, loop

MCUnder == d :> {b}
=============================================================================
