-------------------------- MODULE MCRequestPipeline --------------------------
(* RequestPipeline for TLC: requests, users and ids are interchangeable. *)
EXTENDS RequestPipeline, TLC

Symmetry ==
  Permutations(Requests) \cup Permutations(Users) \cup Permutations(Ids)
=============================================================================
