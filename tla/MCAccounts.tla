------------------------------ MODULE MCAccounts ------------------------------
(* Two users, two names, three tokens; the clock runs past one lifetime. *)
EXTENDS Accounts, TLC

Symmetry ==
  Permutations(Workers) \cup Permutations(Names) \cup Permutations(UserIds) \cup Permutations(Tokens)
================================================================================
