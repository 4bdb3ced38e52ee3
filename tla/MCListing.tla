------------------------------- MODULE MCListing -------------------------------
(* Three identifiers, pages of one and of two records. *)
EXTENDS Listing
================================================================================
