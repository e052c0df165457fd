-------------------------- MODULE MCAccountRecords --------------------------
(* AccountRecords for TLC: the sets are interchangeable values.  The       *)
(* statuses are not: the faulty variant of Merged singles one of them out. *)
EXTENDS AccountRecords, TLC

Symmetry ==
  Permutations(Users) \cup Permutations(Emails) \cup Permutations(Requests)
=============================================================================
