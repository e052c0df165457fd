-------------------------- MODULE MCRefreshSessions --------------------------
(* RefreshSessions for TLC: the three sets are interchangeable values. *)
EXTENDS RefreshSessions, TLC

Symmetry ==
  Permutations(Users) \cup Permutations(Tokens) \cup Permutations(Requests)

=============================================================================
