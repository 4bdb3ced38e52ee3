----------------------------- MODULE MCRateLimiter -----------------------------
(* Three keys, one more than the table may hold between two prunes; two windows meet in *)
(* the middle of a span. *)
EXTENDS RateLimiter, TLC

Symmetry == Permutations(Workers)
================================================================================
