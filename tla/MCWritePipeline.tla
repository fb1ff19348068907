-------------------------- MODULE MCWritePipeline --------------------------
(***************************************************************************)
(* WritePipeline.tla on small instances.                                   *)
(***************************************************************************)
EXTENDS WritePipeline, TLC

\* Accounts and writes are interchangeable, for larger instances without liveness.
Symmetry == Permutations(Users) \cup Permutations(Writes)

=============================================================================
