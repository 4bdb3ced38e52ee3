------------------------------ MODULE Entitlements ------------------------------
(***************************************************************************)
(* What the purchase service promises its buyers: a user acquires a        *)
(* publication at most once, and the purchase keeps its identifier and its *)
(* date for ever.                                                          *)
(***************************************************************************)
CONSTANTS Pairs, Ids, Times, Nothing

VARIABLE owned

Init == owned = [x \in Pairs |-> Nothing]

Acquire(x, i, t) ==
  /\ owned[x] = Nothing
  /\ \A y \in Pairs : owned[y] # Nothing => owned[y].id # i
  /\ owned' = [owned EXCEPT ![x] = [id |-> i, at |-> t]]

Next == \E x \in Pairs, i \in Ids, t \in Times : Acquire(x, i, t)

Spec == Init /\ [][Next]_owned
================================================================================
