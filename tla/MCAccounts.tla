----------------------------- MODULE MCAccounts -----------------------------
(* Accounts for TLC: rows, links and requests are interchangeable. *)
EXTENDS Accounts, TLC

Symmetry ==
  Permutations(Users) \cup Permutations(Links) \cup Permutations(Requests)
    \cup Permutations(Emails) \cup Permutations(Passwords)
=============================================================================
