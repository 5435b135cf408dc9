---------------------------- MODULE MCOrchestrator ----------------------------
(***************************************************************************)
(* Orchestrator for TLC.  Nothing is symmetric: the seeded suppliers have   *)
(* an order.                                                                *)
(***************************************************************************)
EXTENDS Orchestrator, TLC

=============================================================================
