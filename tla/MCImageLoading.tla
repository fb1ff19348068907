--------------------------- MODULE MCImageLoading ---------------------------
(***************************************************************************)
(* ImageLoading.tla on small instances.                                    *)
(***************************************************************************)
EXTENDS ImageLoading

=============================================================================
