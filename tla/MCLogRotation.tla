--------------------------- MODULE MCLogRotation ---------------------------
(***************************************************************************)
(* Small instances of LogRotation: files of two or three bytes, so that    *)
(* every few lines rotate.                                                 *)
(***************************************************************************)
EXTENDS LogRotation, TLC

Symmetry == Permutations(Writer)
=============================================================================
