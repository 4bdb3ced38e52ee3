------------------------------- MODULE MCTlsFiles -------------------------------
(* Three processes start on one directory. *)
EXTENDS TlsFiles, TLC

Symmetry == Permutations(Processes) \cup Permutations(Keys)
================================================================================
