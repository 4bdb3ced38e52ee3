------------------------------- MODULE Directory -------------------------------
(***************************************************************************)
(* What registration promises: a name is bound to one user identifier, an  *)
(* identifier to one name, and a binding is never changed or taken back.   *)
(***************************************************************************)
CONSTANTS Names, UserIds, Nobody

VARIABLE holder

Init == holder = [n \in Names |-> Nobody]

Bind(n, u) ==
  /\ holder[n] = Nobody
  /\ \A m \in Names : holder[m] # u
  /\ holder' = [holder EXCEPT ![n] = u]

Next == \E n \in Names, u \in UserIds : Bind(n, u)

Spec == Init /\ [][Next]_holder
================================================================================
