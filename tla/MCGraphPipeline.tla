--------------------------- MODULE MCGraphPipeline ---------------------------
(***************************************************************************)
(* GraphPipeline for TLC.  The seeded suppliers have an order, the requests *)
(* do not.                                                                  *)
(***************************************************************************)
EXTENDS GraphPipeline, TLC

Symmetry == Permutations(Runs)

=============================================================================
