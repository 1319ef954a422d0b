----------------------------- MODULE MCFileSync -----------------------------
(* Model-checking instances of FileSync: one file name in the root and in  *)
(* one or two directories.                                                 *)
EXTENDS FileSync

CONSTANTS root, d, e, n
=============================================================================
