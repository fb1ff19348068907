---------------------------- MODULE MCPublishing ----------------------------
(***************************************************************************)
(* Publishing.tla on small instances.                                      *)
(***************************************************************************)
EXTENDS Publishing, TLC

\* Accounts and documents are interchangeable (not used with liveness).
Symmetry == Permutations(Accounts) \cup Permutations(Articles)

=============================================================================
