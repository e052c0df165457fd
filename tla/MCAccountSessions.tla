-------------------------- MODULE MCAccountSessions --------------------------
(* AccountSessions for TLC: requests and tokens are interchangeable; the      *)
(* statuses are not, and one address is enough for one user.                  *)
EXTENDS AccountSessions, TLC

Symmetry ==
  Permutations(AccountRequests) \cup Permutations(Requests) \cup Permutations(Tokens)
=============================================================================
