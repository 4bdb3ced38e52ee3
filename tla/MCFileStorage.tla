----------------------------- MODULE MCFileStorage -----------------------------
(* Interchangeable threads on one path of every use. *)
EXTENDS FileStorage, TLC

Symmetry == Permutations(Workers)
================================================================================
