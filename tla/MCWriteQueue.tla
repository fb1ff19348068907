---------------------------- MODULE MCWriteQueue ----------------------------
(***************************************************************************)
(* WriteQueue.tla on small instances.                                      *)
(***************************************************************************)
EXTENDS WriteQueue, TLC

\* Accounts and writes are interchangeable.
Symmetry == Permutations(Users) \cup Permutations(Writes)

=============================================================================
