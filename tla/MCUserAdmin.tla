---------------------------- MODULE MCUserAdmin ----------------------------
(* UserAdmin for TLC: rows, tokens and requests are interchangeable. *)
EXTENDS UserAdmin, TLC

Symmetry ==
  Permutations(Users) \cup Permutations(Tokens) \cup Permutations(Requests)
=============================================================================
