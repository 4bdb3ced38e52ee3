---------------------------- MODULE ContentRegistry ----------------------------
(***************************************************************************)
(* What the publication service promises about one content identity: it is *)
(* taken by at most one request, which publishes it for good or gives it   *)
(* back; a request that dies leaves it blocked.                            *)
(***************************************************************************)
CONSTANT Identities

VARIABLE status

TypeOK == status \in [Identities -> {"free", "taken", "published", "blocked"}]

Init == status = [i \in Identities |-> "free"]

Move(S, from, to) ==
  /\ \A i \in S : status[i] = from
  /\ status' = [i \in Identities |-> IF i \in S THEN to ELSE status[i]]

Take(i)    == Move({i}, "free", "taken")
Publish(i) == Move({i}, "taken", "published")
Drop(i)    == Move({i}, "taken", "free")
Lose(S)    == Move(S, "taken", "blocked")

Next ==
  \/ \E i \in Identities : Take(i) \/ Publish(i) \/ Drop(i)
  \/ \E S \in SUBSET Identities : Lose(S)

Spec == Init /\ [][Next]_status
================================================================================
