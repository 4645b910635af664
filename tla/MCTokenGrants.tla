--------------------------- MODULE MCTokenGrants ---------------------------
(* TokenGrants for TLC: tokens and requests are interchangeable. *)
EXTENDS TokenGrants, TLC

Symmetry == Permutations(Tokens) \cup Permutations(Requests)
=============================================================================
