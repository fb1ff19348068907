----------------------------- MODULE MCReadPath -----------------------------
(***************************************************************************)
(* ReadPath.tla on small instances.                                        *)
(***************************************************************************)
EXTENDS ReadPath, TLC

\* Reads are interchangeable (not used with liveness).
Symmetry == Permutations(Reads)

=============================================================================
