---------------------------- MODULE MCLocalView ----------------------------
(***************************************************************************)
(* LocalView.tla on small instances.                                       *)
(***************************************************************************)
EXTENDS LocalView, TLC

\* Accounts are interchangeable.
Symmetry == Permutations(Users)

=============================================================================
