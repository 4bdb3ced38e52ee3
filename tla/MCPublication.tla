----------------------------- MODULE MCPublication -----------------------------
(* Two workers and two contents, one of them too short for a mark. *)
EXTENDS Publication
================================================================================
