---------------------------- MODULE MCImageTask -----------------------------
(***************************************************************************)
(* The image tasks, small enough for TLC: two keys, and one runner more     *)
(* than there are keys, so that a second thread for a task is possible.  No *)
(* symmetry, because of the liveness property.                              *)
(***************************************************************************)
EXTENDS ImageTask
=============================================================================
