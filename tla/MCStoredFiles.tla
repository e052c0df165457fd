---------------------------- MODULE MCStoredFiles ----------------------------
(* StoredFiles for TLC: files and requests are interchangeable values. *)
EXTENDS StoredFiles, TLC

Symmetry == Permutations(Files) \cup Permutations(Requests)

=============================================================================
