---------------------------- MODULE MCFileCache ----------------------------
(* Instances of FileCache for TLC.                                         *)
EXTENDS FileCache, TLC

Symmetry == Permutations(Workers)
=============================================================================
