--------------------------- MODULE MCCredentials ---------------------------
(***************************************************************************)
(* Credentials.tla on small instances.                                     *)
(***************************************************************************)
EXTENDS Credentials, TLC

\* Accounts are interchangeable (not used with liveness).
Symmetry == Permutations(Accounts)

=============================================================================
