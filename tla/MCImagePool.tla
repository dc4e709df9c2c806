---------------------------- MODULE MCImagePool -----------------------------
(* Small instances of the image account pool for TLC. *)
EXTENDS ImagePool, TLC

Symmetry == Permutations(Workers) \cup Permutations(Tokens)
=============================================================================
