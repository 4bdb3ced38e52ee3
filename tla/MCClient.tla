-------------------------------- MODULE MCClient --------------------------------
(* One publication, its author, one buyer with a device. *)
EXTENDS Client, TLC

CONSTANTS alice, bob

AuthorDef == [p \in Pubs |-> alice]
PublishedAtDef == [p \in Pubs |-> 1]
HolderDef == [d \in Devices |-> bob]
================================================================================
