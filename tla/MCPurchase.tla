------------------------------ MODULE MCPurchase ------------------------------
(* One publication, its author and the buyers. *)
EXTENDS Purchase, TLC

CONSTANTS alice, Buyers

AuthorDef == [p \in Pubs |-> alice]
PublishedAtDef == [p \in Pubs |-> 1]

\* Workers, keys, identifiers, devices and buyers are interchangeable.
Symmetry ==
  Permutations(Workers) \cup Permutations(Keys) \cup Permutations(Ids)
    \cup Permutations(Devices) \cup Permutations(Buyers)
================================================================================
